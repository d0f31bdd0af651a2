----------------------------- MODULE MCInterop -----------------------------
(***************************************************************************)
(* Two GPUs that are taken (one newer than any named target), an old one,  *)
(* one CUDA does not know, a device of another vendor.                     *)
(***************************************************************************)
EXTENDS InteropProperties, TLC

NvidiaGpu(key) == [type |-> "GPU", vendor |-> "NVIDIA", key |-> key]
MCHardware ==
  <<[type |-> "NPU", vendor |-> "NVIDIA", key |-> "npu"], NvidiaGpu("ada"), NvidiaGpu("volta"),
    [type |-> "GPU", vendor |-> "other", key |-> "igpu"], NvidiaGpu(NoKey), NvidiaGpu("lost"),
    NvidiaGpu("next")>>
MCCuda == <<[key |-> "next", cc |-> 130], [key |-> "ada", cc |-> 89], [key |-> "volta", cc |-> 70]>>
MCEnvironments ==
  [lockdown : {FALSE}, virtual : {FALSE}, target : {NoTarget}]
    \cup [lockdown : {TRUE}, virtual : BOOLEAN, target : {NoTarget, 120, 130}]
Symmetric == Permutations(Threads)
=============================================================================
