------------------------------ MODULE Mempool ------------------------------
(***************************************************************************)
(* CudaMempoolAllocator (src/cuda_mempool_arena.h, .cc): the stream-   *)
(* ordered allocator of TensorRT execution-context memory, on a private    *)
(* cudaMemPool_t.                                                          *)
(*                                                                         *)
(* Calls run on any thread and only the bookkeeping is under mutex_: the   *)
(* CUDA calls before and after it are steps of their own.  A pool block is *)
(* a member of Pointers; the CUDA side keeps which blocks are out of the   *)
(* pool, which have work pending on a stream, and which are being released *)
(* by a cudaFreeAsync that has not run yet.                                *)
(***************************************************************************)
EXTENDS Integers, FiniteSets, Functions

CONSTANTS
  Threads,
  Pointers,     \* blocks the pool can hand out
  Streams,      \* cudaStream_t handles of the callers
  Default,      \* the legacy default stream 0
  Gone,         \* stands for every destroyed stream that still has work to do
  NullPtr,
  Sizes,        \* request sizes
  DestroyBusy   \* may a stream be destroyed before its work has finished?

ASSUME MempoolConstants ==
  /\ Default \notin Streams /\ Gone \notin Streams /\ Default # Gone
  /\ NullPtr \notin Pointers /\ IsFiniteSet(Pointers)
  /\ Sizes \subseteq Nat
  /\ DestroyBusy \in BOOLEAN

VARIABLES
  alloc_map,      \* pointer -> AllocationRecord; no record has zero bytes
  stream_map,     \* stream -> its pointers; the code erases empty entries
  in_use_bytes,
  probe_once,     \* the std::once_flag: "no", "running" or "done"
  probe_usable,
  call,           \* each thread's call: where it is, and its locals
  held,           \* pointers the clients hold
  used,           \* blocks out of the pool
  work,           \* <<p, s>>: work on p is pending on stream s
  releasing,      \* <<p, s>>: the free of p is pending on stream s
  valid,          \* stream handles that may be used
  lost            \* history: blocks whose cudaFreeAsync failed for good

book == <<alloc_map, stream_map, in_use_bytes>>
probe == <<probe_once, probe_usable>>
cuda == <<used, work, releasing, valid>>
vars == <<book, probe, call, held, cuda, lost>>

AllStreams == Streams \cup {Default}
Unmapped == [bytes |-> 0, stream |-> Default]
Idle == [pc |-> "idle", ptr |-> NullPtr, size |-> 0, stream |-> Default]
Mapped(p) == alloc_map[p].bytes > 0

Init ==
  /\ alloc_map = [p \in Pointers |-> Unmapped]
  /\ stream_map = [s \in AllStreams |-> {}]
  /\ in_use_bytes = 0
  /\ probe_once = "no"
  /\ probe_usable = TRUE
  /\ call = [t \in Threads |-> Idle]
  /\ held = {}
  /\ used = {}
  /\ work = {}
  /\ releasing = {}
  /\ valid = AllStreams
  /\ lost = {}

-----------------------------------------------------------------------------
(* The CUDA runtime, as far as the allocator and its clients rely on it.   *)

On(s, pairs) == {w \in pairs : w[2] = s}

\* A block stream s may get: in the pool, or on its way there in s itself.
Obtainable(p, s) == p \notin used /\ \A w \in releasing : w[1] = p => w[2] = s

cudaMallocFromPoolAsync(p, s) ==
  /\ Obtainable(p, s)
  /\ used' = used \cup {p}
  /\ releasing' = {w \in releasing : w[1] # p}
  /\ UNCHANGED <<work, valid>>

cudaFreeAsync(p, s) ==
  /\ used' = used \ {p}
  /\ releasing' = releasing \cup {<<p, s>>}
  /\ UNCHANGED <<work, valid>>

\* Everything enqueued on s so far has run (cudaStreamSynchronize, or by itself).
Drained(s) ==
  /\ work' = work \ On(s, work)
  /\ releasing' = releasing \ On(s, releasing)
  /\ UNCHANGED <<used, valid>>

StreamProgress(s) ==
  /\ On(s, work) \cup On(s, releasing) # {}
  /\ Drained(s)
  /\ UNCHANGED <<book, probe, call, held, lost>>

\* A client enqueues work on memory it holds, on the stream it allocated it for.
Enqueue(p) ==
  /\ p \in held /\ alloc_map[p].stream \in valid
  /\ work' = work \cup {<<p, alloc_map[p].stream>>}
  /\ UNCHANGED <<book, probe, call, held, used, releasing, valid, lost>>

Allocating(t) == call[t].pc \in {"probe", "probing", "malloc", "retry", "sync", "insert"}
Orphan(s, pairs) == {IF w[2] = s THEN <<w[1], Gone>> ELSE w : w \in pairs}

\* The owner of a stream destroys it; what is enqueued on it still runs.
DestroyStream(s) ==
  /\ s \in valid \ {Default}
  /\ \A t \in Threads : Allocating(t) => call[t].stream # s
  /\ DestroyBusy \/ On(s, work) \cup On(s, releasing) = {}
  /\ valid' = valid \ {s}
  /\ work' = Orphan(s, work)
  /\ releasing' = Orphan(s, releasing)
  /\ UNCHANGED <<book, probe, call, held, used, lost>>

\* A new stream, which may get the handle of a destroyed one.
CreateStream(s) ==
  /\ s \in Streams \ valid
  /\ valid' = valid \cup {s}
  /\ UNCHANGED <<book, probe, call, held, used, work, releasing, lost>>

-----------------------------------------------------------------------------
(* DoAlloc. *)

At(t, pc) == call[t].pc = pc
Goto(t, pc) == call' = [call EXCEPT ![t].pc = pc]
Return(t) == call' = [call EXCEPT ![t] = Idle]

\* A request of zero bytes returns nullptr at once.
BeginAlloc(t, size, s) ==
  /\ At(t, "idle")
  /\ s \in valid
  /\ call' = [call EXCEPT ![t] = IF size = 0 THEN Idle
                                 ELSE [pc |-> "probe", ptr |-> NullPtr, size |-> size, stream |-> s]]
  /\ UNCHANGED <<book, probe, held, cuda, lost>>

\* EnsureProbedOnce: the first caller runs the probe and the others wait in
\* std::call_once until it has returned.
EnterProbe(t) ==
  /\ At(t, "probe")
  /\ probe_once = "no"
  /\ probe_once' = "running"
  /\ Goto(t, "probing")
  /\ UNCHANGED <<book, probe_usable, held, cuda, lost>>

\* The probe allocates, synchronises, frees and synchronises again.
ProbeSucceeds(t) ==
  /\ At(t, "probing")
  /\ \E p \in Pointers : Obtainable(p, call[t].stream)
  /\ probe_once' = "done"
  /\ Drained(call[t].stream)
  /\ Goto(t, "probe")
  /\ UNCHANGED <<book, probe_usable, held, lost>>

ProbeFails(t) ==
  /\ At(t, "probing")
  /\ probe_once' = "done"
  /\ probe_usable' = FALSE
  /\ Goto(t, "probe")
  /\ UNCHANGED <<book, held, cuda, lost>>

\* (mutant) probe_usable_ is read without waiting for call_once
PassProbeEarly(t) ==
  /\ At(t, "probe")
  /\ probe_once # "no"
  /\ IF probe_usable THEN Goto(t, "malloc") ELSE Return(t)
  /\ UNCHANGED <<book, probe, held, cuda, lost>>

PassProbe(t) ==
  /\ At(t, "probe")
  /\ probe_once = "done"
  /\ IF probe_usable THEN Goto(t, "malloc") ELSE Return(t)
  /\ UNCHANGED <<book, probe, held, cuda, lost>>

\* The first attempt and the only retry; the default stream is synchronised.
MallocSucceeds(t) ==
  /\ At(t, "malloc") \/ At(t, "retry")
  /\ \E p \in Pointers :
       /\ cudaMallocFromPoolAsync(p, call[t].stream)
       /\ call' = [call EXCEPT ![t].ptr = p,
                               ![t].pc = IF call[t].stream = Default THEN "sync" ELSE "insert"]
  /\ UNCHANGED <<book, probe, held, lost>>

\* (mutant) the retry is repeated until it succeeds
MallocRetries(t) ==
  /\ At(t, "malloc") \/ At(t, "retry")
  /\ Goto(t, "retry")
  /\ UNCHANGED <<book, probe, held, cuda, lost>>

MallocFails(t) ==
  /\ \/ At(t, "malloc") /\ Goto(t, "retry")
     \/ At(t, "retry") /\ Return(t)
  /\ UNCHANGED <<book, probe, held, cuda, lost>>

SyncDefault(t) ==
  /\ At(t, "sync")
  /\ Drained(Default)
  /\ Goto(t, "insert")
  /\ UNCHANGED <<book, probe, held, lost>>

\* The bookkeeping of DoAlloc, under mutex_; emplace leaves an entry that is
\* already there as it is.
Insert(t) ==
  LET p == call[t].ptr
      s == call[t].stream
  IN /\ At(t, "insert")
     /\ alloc_map' = IF Mapped(p) THEN alloc_map
                     ELSE [alloc_map EXCEPT ![p] = [bytes |-> call[t].size, stream |-> s]]
     /\ stream_map' = [stream_map EXCEPT ![s] = @ \cup {p}]
     /\ in_use_bytes' = in_use_bytes + call[t].size
     /\ held' = held \cup {p}
     /\ Return(t)
     /\ UNCHANGED <<probe, cuda, lost>>

-----------------------------------------------------------------------------
(* DoFree. *)

\* (mutant) the block goes back to the pool before it is taken from the map
FreeFirst(t, p) ==
  /\ At(t, "idle")
  /\ p \in held
  /\ held' = held \ {p}
  /\ used' = used \ {p}
  /\ call' = [call EXCEPT ![t] = [Idle EXCEPT !.pc = "erase", !.ptr = p]]
  /\ UNCHANGED <<book, probe, work, releasing, valid, lost>>

BeginFree(t, p) ==
  /\ At(t, "idle")
  /\ p \in held
  /\ held' = held \ {p}
  /\ call' = [call EXCEPT ![t] = [Idle EXCEPT !.pc = "erase", !.ptr = p]]
  /\ UNCHANGED <<book, probe, cuda, lost>>

Unlist(p, s) == [stream_map EXCEPT ![s] = @ \ {p}]

\* (mutant) the requested size was added, a rounded one is taken off unclamped
InUseLessRounded(sz) == in_use_bytes - 2 * ((sz + 1) \div 2)

InUseLess(sz) == IF sz <= in_use_bytes THEN in_use_bytes - sz ELSE 0

\* The bookkeeping of DoFree, under mutex_; a pointer that is not in the map
\* is ignored.
Erase(t) ==
  LET p == call[t].ptr
      s == alloc_map[p].stream
  IN /\ At(t, "erase")
     /\ IF Mapped(p)
        THEN /\ alloc_map' = [alloc_map EXCEPT ![p] = Unmapped]
             /\ stream_map' = Unlist(p, s)
             /\ in_use_bytes' = InUseLess(alloc_map[p].bytes)
             /\ call' = [call EXCEPT ![t].pc = "free", ![t].stream = s]
        ELSE Return(t) /\ UNCHANGED book
     /\ UNCHANGED <<probe, held, cuda, lost>>

\* cudaFreeAsync on the recorded stream, outside the lock.
FreeOnStream(t) ==
  /\ At(t, "free")
  /\ call[t].stream \in valid
  /\ cudaFreeAsync(call[t].ptr, call[t].stream)
  /\ Return(t)
  /\ UNCHANGED <<book, probe, held, lost>>

\* (mutant) the retry takes the default stream without asking for the error
FreeElsewhere(t) ==
  /\ At(t, "free")
  /\ Goto(t, "refree")
  /\ UNCHANGED <<book, probe, held, cuda, lost>>

\* cudaErrorInvalidResourceHandle: the stream is gone.
FreeFindsNoStream(t) ==
  /\ At(t, "free")
  /\ call[t].stream \notin valid
  /\ Goto(t, "refree")
  /\ UNCHANGED <<book, probe, held, cuda, lost>>

FreeOnDefault(t) ==
  /\ At(t, "refree")
  /\ cudaFreeAsync(call[t].ptr, Default)
  /\ Return(t)
  /\ UNCHANGED <<book, probe, held, lost>>

\* Any other error, or an error of the retry, is logged and that is all.
FreeFails(t) ==
  /\ \/ At(t, "refree")
     \/ At(t, "free") /\ call[t].stream \in valid
  /\ lost' = lost \cup {call[t].ptr}
  /\ Return(t)
  /\ UNCHANGED <<book, probe, held, cuda>>

-----------------------------------------------------------------------------
AllocStep(t) ==
  \/ EnterProbe(t) \/ ProbeSucceeds(t) \/ ProbeFails(t) \/ PassProbe(t)
  \/ MallocSucceeds(t) \/ MallocFails(t) \/ SyncDefault(t) \/ Insert(t)

FreeStep(t) ==
  Erase(t) \/ FreeOnStream(t) \/ FreeFindsNoStream(t) \/ FreeOnDefault(t) \/ FreeFails(t)

Call(t) ==
  \/ \E size \in Sizes, s \in AllStreams : BeginAlloc(t, size, s)
  \/ \E p \in Pointers : BeginFree(t, p)

Environment ==
  \/ \E s \in AllStreams \cup {Gone} : StreamProgress(s)
  \/ \E p \in Pointers : Enqueue(p)
  \/ \E s \in Streams : DestroyStream(s) \/ CreateStream(s)

Next ==
  \/ \E t \in Threads : Call(t) \/ AllocStep(t) \/ FreeStep(t)
  \/ Environment

\* A thread that is in a call is scheduled again.
Fairness == \A t \in Threads : WF_vars(AllocStep(t) \/ FreeStep(t))

Spec == Init /\ [][Next]_vars
FairSpec == Spec /\ Fairness
=============================================================================
