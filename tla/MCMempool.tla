----------------------------- MODULE MCMempool -----------------------------
(* Two threads, two blocks, one stream besides the default one.             *)
EXTENDS MempoolProperties
CONSTANTS t1, t2, p1, p2, s1
TwoThreads == {t1, t2}
TwoPointers == {p1, p2}
OneStream == {s1}
=============================================================================
