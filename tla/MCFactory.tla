------------------------------ MODULE MCFactory ------------------------------
EXTENDS FactoryProperties, CudaGraph, TLC
=============================================================================
