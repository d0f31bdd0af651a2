----------------------------- MODULE MCGpuSync -----------------------------
(* A small arena shared by TensorRT (through the adapter) and ORT, here with *)
(* the stream-aware calls as well.                                          *)
EXTENDS GpuSyncAllocator
CONSTANTS s1, s2
TwoStreams == {s1, s2}
StreamSymmetry == Permutations(TwoStreams)
=============================================================================
