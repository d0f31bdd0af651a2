------------------------- MODULE MempoolProperties -------------------------
(***************************************************************************)
(* What CudaMempoolAllocator must guarantee.                               *)
(***************************************************************************)
EXTENDS Mempool

Places == {"idle", "probe", "probing", "malloc", "retry", "sync", "insert", "erase", "free", "refree"}

(* Types of the state (cuda_mempool_arena.h:108-135). *)
TypeOK ==
  /\ alloc_map \in [Pointers -> [bytes : Nat, stream : AllStreams]]
  /\ stream_map \in [AllStreams -> SUBSET Pointers]
  /\ in_use_bytes \in Nat
  /\ probe_once \in {"no", "running", "done"}
  /\ probe_usable \in BOOLEAN
  /\ call \in [Threads -> [pc : Places, ptr : Pointers \cup {NullPtr}, size : Nat,
                           stream : AllStreams]]
  /\ held \subseteq Pointers /\ used \subseteq Pointers /\ lost \subseteq Pointers
  /\ work \subseteq Pointers \X (AllStreams \cup {Gone})
  /\ releasing \subseteq Pointers \X (AllStreams \cup {Gone})
  /\ valid \subseteq AllStreams

\* Thread t has block p between a CUDA call and the bookkeeping, or is about to
\* look p up in DoFree.
InFlight(t) == call[t].pc \in {"sync", "insert", "free", "refree"}
Carries(t, p) == InFlight(t) /\ call[t].ptr = p
Passed(t, p) == call[t].pc = "erase" /\ call[t].ptr = p

(* Every block out of the pool is in exactly one place: in alloc_map, in   *)
(* the hands of one thread between a CUDA call and the bookkeeping, or     *)
(* lost to a failed cudaFreeAsync; so no block is forgotten, and emplace   *)
(* in DoAlloc never meets an entry of the same address although DoFree     *)
(* frees outside the lock (cuda_mempool_arena.cc:279-281, 320-356).        *)
PoolAccounted ==
  /\ \A p \in Pointers :
       p \in used <=> Mapped(p) \/ p \in lost \/ \E t \in Threads : Carries(t, p)
  /\ \A p \in Pointers : p \in lost => ~Mapped(p)
  /\ \A t \in Threads, p \in Pointers :
       Carries(t, p) => /\ ~Mapped(p) /\ p \notin lost
                        /\ \A u \in Threads : Carries(u, p) => u = t

(* A pointer is in alloc_map exactly while a client holds it or has passed *)
(* it to DoFree: the branch "not found in allocation map; ignoring" (line  *)
(* 323-329) is never taken for a client that frees once, and nothing is    *)
(* mapped that nobody can free.                                            *)
MappedPointersReachable ==
  /\ \A p \in Pointers : Mapped(p) <=> p \in held \/ \E t \in Threads : Passed(t, p)
  /\ \A t \in Threads, p \in Pointers :
       Passed(t, p) => p \notin held /\ \A u \in Threads : Passed(u, p) => u = t

(* stream_map lists every mapped pointer under its recorded stream and no  *)
(* other: the destructor synchronises the streams that have allocations.   *)
StreamMapExact ==
  \A s \in AllStreams : stream_map[s] = {p \in Pointers : Mapped(p) /\ alloc_map[p].stream = s}

(* The books agree with the pool: every block out of it is mapped, in one  *)
(* thread's hands or lost; what is mapped can be freed, once; and it is    *)
(* listed under its stream (alloc_map_ and stream_map_ under mutex_, CUDA  *)
(* calls outside it).                                                      *)
Books == PoolAccounted /\ MappedPointersReachable /\ StreamMapExact

(* in_use_bytes_ is the sum of the mapped sizes; the clamp at zero in      *)
(* DoFree (line 345) never hides a difference.                             *)
InUseExact == in_use_bytes = SumFunction([p \in Pointers |-> alloc_map[p].bytes])

(* No block is taken out of the pool before the probe has finished, nor    *)
(* ever after it failed (cuda_mempool_arena.h:120-124).                    *)
NothingFromUnusablePool ==
  [][used' \subseteq used \/ (probe_once = "done" /\ probe_usable)]_vars

(* "The allocation stream is recorded for ordered free"                    *)
(* (cuda_mempool_arena.h:42-44): a block is back in the pool only behind   *)
(* the work on it, so no other stream gets it while work is pending.       *)
OrderedFree == \A w \in work : w[1] \notin used => w \in releasing

(* A call returns: neither the wait for the probe nor a failed CUDA call   *)
(* holds a caller for ever.                                                *)
EveryCallReturns == \A t \in Threads : call[t].pc # "idle" ~> call[t].pc = "idle"
=============================================================================
