--------------------------- MODULE MempoolProofs ---------------------------
(***************************************************************************)
(* Proofs about CudaMempoolAllocator, for any number of threads, blocks    *)
(* and streams.                                                            *)
(***************************************************************************)
EXTENDS MempoolProperties, FoldLemmas, TLAPS

(* What the locals of a call are at each place; without it TypeOK is not   *)
(* inductive: Insert writes call[t].ptr and call[t].size into the books.   *)
LocalsOK ==
  \A t \in Threads :
    /\ call[t].pc \in {"sync", "insert", "erase", "free", "refree"} => call[t].ptr \in Pointers
    /\ Allocating(t) => call[t].size > 0

TypeInv == TypeOK /\ LocalsOK

LEMMA InitTypeInv == Init => TypeInv
  BY MempoolConstants DEF Init, TypeInv, TypeOK, LocalsOK, Idle, Unmapped, AllStreams, Places,
     Allocating

LEMMA TypeInvStep == TypeInv /\ [Next]_vars => TypeInv'
<1> SUFFICES ASSUME TypeInv /\ [Next]_vars PROVE TypeInv'
  OBVIOUS
<1> USE MempoolConstants DEF TypeInv, TypeOK, LocalsOK, AllStreams, Places, Allocating, At, Goto, Return, Idle,
      book, probe, cuda
<1>1. ASSUME NEW t \in Threads, NEW size \in Sizes, NEW s \in AllStreams, BeginAlloc(t, size, s) PROVE TypeInv'
  BY <1>1 DEF BeginAlloc
<1>2. ASSUME NEW t \in Threads, EnterProbe(t) PROVE TypeInv'
  BY <1>2 DEF EnterProbe
<1>3. ASSUME NEW t \in Threads, ProbeSucceeds(t) PROVE TypeInv'
  BY <1>3 DEF ProbeSucceeds, Drained
<1>4. ASSUME NEW t \in Threads, ProbeFails(t) PROVE TypeInv'
  BY <1>4 DEF ProbeFails
<1>5. ASSUME NEW t \in Threads, PassProbe(t) PROVE TypeInv'
  BY <1>5, SMTT(30) DEF PassProbe
<1>6. ASSUME NEW t \in Threads, MallocSucceeds(t) PROVE TypeInv'
  BY <1>6 DEF MallocSucceeds, cudaMallocFromPoolAsync
<1>7. ASSUME NEW t \in Threads, MallocFails(t) PROVE TypeInv'
  BY <1>7 DEF MallocFails
<1>8. ASSUME NEW t \in Threads, SyncDefault(t) PROVE TypeInv'
  BY <1>8 DEF SyncDefault, Drained
<1>9. ASSUME NEW t \in Threads, Insert(t) PROVE TypeInv'
  BY <1>9 DEF Insert, Mapped
<1>10. ASSUME NEW t \in Threads, NEW p \in Pointers, BeginFree(t, p) PROVE TypeInv'
  BY <1>10 DEF BeginFree
<1>11. ASSUME NEW t \in Threads, Erase(t) PROVE TypeInv'
  <2>1. call[t].ptr \in Pointers
    BY <1>11 DEF Erase
  <2>2. alloc_map[call[t].ptr].stream \in AllStreams /\ alloc_map[call[t].ptr].bytes \in Nat
    BY <2>1
  <2>3. /\ alloc_map' \in [Pointers -> [bytes : Nat, stream : AllStreams]]
        /\ stream_map' \in [AllStreams -> SUBSET Pointers]
        /\ in_use_bytes' \in Nat
    BY <2>1, <2>2, <1>11 DEF Erase, Unmapped, Unlist, InUseLess
  <2>4. call'[t] \in [pc : Places, ptr : Pointers \cup {NullPtr}, size : Nat, stream : AllStreams]
    BY <2>1, <2>2, <1>11 DEF Erase
  <2>5. /\ call' \in [Threads -> [pc : Places, ptr : Pointers \cup {NullPtr},
                                 size : Nat, stream : AllStreams]]
        /\ \A u \in Threads : u # t => call'[u] = call[u]
    BY <2>4, <1>11 DEF Erase
  <2>6. call'[t].ptr \in Pointers \/ call'[t].pc = "idle"
    BY <2>1, <1>11 DEF Erase
  <2>7. call'[t].pc \in {"idle", "free"}
    BY <1>11 DEF Erase
  <2>8. LocalsOK'
    BY <2>5, <2>6, <2>7
  <2> QED
    BY <2>3, <2>5, <2>8, <1>11 DEF Erase
<1>12. ASSUME NEW t \in Threads, FreeOnStream(t) PROVE TypeInv'
  BY <1>12 DEF FreeOnStream, cudaFreeAsync
<1>13. ASSUME NEW t \in Threads, FreeFindsNoStream(t) PROVE TypeInv'
  BY <1>13 DEF FreeFindsNoStream
<1>14. ASSUME NEW t \in Threads, FreeOnDefault(t) PROVE TypeInv'
  BY <1>14 DEF FreeOnDefault, cudaFreeAsync
<1>15. ASSUME NEW t \in Threads, FreeFails(t) PROVE TypeInv'
  BY <1>15 DEF FreeFails
<1>16. ASSUME NEW s \in AllStreams \cup {Gone}, StreamProgress(s) PROVE TypeInv'
  BY <1>16 DEF StreamProgress, Drained
<1>17. ASSUME NEW p \in Pointers, Enqueue(p) PROVE TypeInv'
  BY <1>17 DEF Enqueue
<1>18. ASSUME NEW s \in Streams, DestroyStream(s) PROVE TypeInv'
  BY <1>18 DEF DestroyStream, Orphan
<1>19. ASSUME NEW s \in Streams, CreateStream(s) PROVE TypeInv'
  BY <1>19 DEF CreateStream
<1>20. CASE UNCHANGED vars
  BY <1>20 DEF vars, book, probe, cuda
<1> QED
  BY <1>1, <1>2, <1>3, <1>4, <1>5, <1>6, <1>7, <1>8, <1>9, <1>10, <1>11, <1>12,
     <1>13, <1>14, <1>15, <1>16, <1>17, <1>18, <1>19, <1>20 DEF Next, Call, AllocStep, FreeStep, Environment

(* Every variable of the allocator keeps its type, in every behaviour. *)
THEOREM TypeCorrect == Spec => []TypeOK
<1>1. Spec => []TypeInv
  BY InitTypeInv, TypeInvStep, PTL DEF Spec
<1>2. TypeInv => TypeOK
  BY DEF TypeInv
<1> QED
  BY <1>1, <1>2, PTL

-----------------------------------------------------------------------------
(* The books.  The three statements are inductive only together: that the  *)
(* block Erase looks up is mapped needs MappedPointersReachable, and that  *)
(* Insert meets no entry of its address needs PoolAccounted.               *)
BookInv == TypeInv /\ Books

LEMMA InitBooks == Init => Books
  BY MempoolConstants DEF Init, Books, PoolAccounted, MappedPointersReachable, StreamMapExact,
     Carries, Passed, InFlight, Mapped, Unmapped, Idle

\* A step that moves no block from one place to another keeps the books.
LEMMA BooksFrame ==
  ASSUME Books, UNCHANGED <<alloc_map, stream_map, held, used, lost>>,
         \A t \in Threads, p \in Pointers :
           (Carries(t, p)' <=> Carries(t, p)) /\ (Passed(t, p)' <=> Passed(t, p))
  PROVE  Books'
<1>1. \A p \in Pointers : Mapped(p)' <=> Mapped(p)
  BY DEF Mapped
<1>2. PoolAccounted'
  BY <1>1 DEF Books, PoolAccounted
<1>3. MappedPointersReachable'
  BY <1>1 DEF Books, MappedPointersReachable
<1>4. StreamMapExact'
  BY <1>1 DEF Books, StreamMapExact, Mapped
<1> QED
  BY <1>2, <1>3, <1>4 DEF Books

\* The steps that change the place of a thread only.
Walk(t) == EnterProbe(t) \/ ProbeSucceeds(t) \/ ProbeFails(t) \/ PassProbe(t) \/ MallocFails(t)
           \/ SyncDefault(t) \/ FreeFindsNoStream(t)

LEMMA WalkKeepsBooks ==
  ASSUME BookInv, NEW t \in Threads,
         Walk(t) \/ \E size \in Sizes, s \in AllStreams : BeginAlloc(t, size, s)
  PROVE  Books'
<1>1. UNCHANGED <<alloc_map, stream_map, held, used, lost>>
  BY DEF Walk, BeginAlloc, EnterProbe, ProbeSucceeds, ProbeFails, PassProbe, MallocFails,
     SyncDefault, FreeFindsNoStream, Drained, book, cuda
<1>2. \A u \in Threads : u # t => call'[u] = call[u]
  BY DEF BookInv, TypeInv, TypeOK, Walk, BeginAlloc, EnterProbe, ProbeSucceeds, ProbeFails,
     PassProbe, MallocFails, SyncDefault, FreeFindsNoStream, Goto, Return
<1>3. /\ call[t].pc # "erase" /\ call'[t].pc # "erase"
      /\ call'[t].pc \in {"sync", "insert", "free", "refree"} <=>
           call[t].pc \in {"sync", "insert", "free", "refree"}
      /\ call[t].pc \in {"sync", "insert", "free", "refree"} => call'[t].ptr = call[t].ptr
  BY DEF BookInv, TypeInv, TypeOK, Walk, BeginAlloc, EnterProbe, ProbeSucceeds, ProbeFails,
     PassProbe, MallocFails, SyncDefault, FreeFindsNoStream, Goto, Return, At, Idle
<1>4. \A u \in Threads, p \in Pointers :
         (Carries(u, p)' <=> Carries(u, p)) /\ (Passed(u, p)' <=> Passed(u, p))
  BY <1>2, <1>3 DEF Carries, Passed, InFlight
<1> QED
  BY <1>1, <1>4, BooksFrame DEF BookInv

LEMMA EnvironmentKeepsBooks ==
  ASSUME BookInv, Environment
  PROVE  Books'
<1>1. UNCHANGED <<alloc_map, stream_map, held, used, lost, call>>
  BY DEF Environment, StreamProgress, Drained, Enqueue, DestroyStream, CreateStream, book
<1> QED
  BY <1>1, BooksFrame DEF BookInv, Carries, Passed, InFlight

LEMMA MallocKeepsBooks ==
  ASSUME BookInv, NEW t \in Threads, MallocSucceeds(t)
  PROVE  Books'
<1> USE DEF BookInv, TypeInv, TypeOK, Books
<1>1. PICK p \in Pointers : cudaMallocFromPoolAsync(p, call[t].stream)
                           /\ call' = [call EXCEPT ![t].ptr = p,
                                ![t].pc = IF call[t].stream = Default THEN "sync" ELSE "insert"]
  BY DEF MallocSucceeds
<1>2. p \notin used /\ used' = used \cup {p}
  BY <1>1 DEF cudaMallocFromPoolAsync, Obtainable
<1>3. UNCHANGED <<alloc_map, stream_map, held, lost>>
  BY DEF MallocSucceeds, book
<1>4. call[t].pc \in {"malloc", "retry"}
  BY DEF MallocSucceeds, At
<1>5. \A u \in Threads, q \in Pointers :
         /\ Carries(u, q)' <=> IF u = t THEN q = p ELSE Carries(u, q)
         /\ ~Carries(t, q)
         /\ Passed(u, q)' <=> Passed(u, q)
  BY <1>1, <1>4 DEF Carries, Passed, InFlight
<1>6. \A q \in Pointers : Mapped(q)' <=> Mapped(q)
  BY <1>3 DEF Mapped
<1>7. PoolAccounted'
  BY <1>2, <1>3, <1>5, <1>6 DEF PoolAccounted
<1>8. MappedPointersReachable'
  BY <1>3, <1>5, <1>6 DEF MappedPointersReachable
<1>9. StreamMapExact'
  BY <1>3, <1>6 DEF StreamMapExact
<1> QED
  BY <1>7, <1>8, <1>9

LEMMA InsertKeepsBooks ==
  ASSUME BookInv, NEW t \in Threads, Insert(t)
  PROVE  Books'
<1> DEFINE p == call[t].ptr
           s == call[t].stream
<1> USE DEF BookInv, TypeInv, TypeOK, Books
<1>1. p \in Pointers /\ s \in AllStreams /\ call[t].size \in Nat /\ call[t].size > 0 /\ Carries(t, p)
  BY DEF Insert, At, LocalsOK, Allocating, Carries, InFlight
<1>2. ~Mapped(p) /\ p \in used /\ p \notin held
  BY <1>1 DEF PoolAccounted, MappedPointersReachable
<1>3. /\ alloc_map' = [alloc_map EXCEPT ![p] = [bytes |-> call[t].size, stream |-> s]]
      /\ stream_map' = [stream_map EXCEPT ![s] = @ \cup {p}]
      /\ held' = held \cup {p} /\ used' = used /\ lost' = lost
      /\ call' = [call EXCEPT ![t] = Idle]
  BY <1>2 DEF Insert, Return, cuda
<1>4. \A q \in Pointers : /\ Mapped(q)' <=> q = p \/ Mapped(q)
                          /\ alloc_map'[q].stream = IF q = p THEN s ELSE alloc_map[q].stream
  BY <1>1, <1>3 DEF Mapped
<1>5. \A u \in Threads, q \in Pointers :
         /\ Carries(u, q)' <=> u # t /\ Carries(u, q)
         /\ Passed(u, q)' <=> Passed(u, q)
  <2>1. call[t].pc = "insert" /\ \A u \in Threads : call'[u] = IF u = t THEN Idle ELSE call[u]
    BY <1>3 DEF Insert, At
  <2> QED
    BY <2>1 DEF Carries, Passed, InFlight, Idle
<1>6. \A q \in Pointers : Carries(t, q) => q = p
  BY DEF Carries
<1>7. PoolAccounted'
  BY <1>1, <1>2, <1>3, <1>4, <1>5, <1>6 DEF PoolAccounted
<1>8. MappedPointersReachable'
  BY <1>1, <1>2, <1>3, <1>4, <1>5 DEF MappedPointersReachable
<1>9. StreamMapExact'
  BY <1>1, <1>2, <1>3, <1>4 DEF StreamMapExact
<1> QED
  BY <1>7, <1>8, <1>9

LEMMA BeginFreeKeepsBooks ==
  ASSUME BookInv, NEW t \in Threads, NEW p \in Pointers, BeginFree(t, p)
  PROVE  Books'
<1> USE DEF BookInv, TypeInv, TypeOK, Books
<1>1. /\ p \in held /\ held' = held \ {p} /\ UNCHANGED <<alloc_map, stream_map, used, lost>>
      /\ call[t].pc = "idle"
      /\ \A u \in Threads : call'[u] = IF u = t THEN [Idle EXCEPT !.pc = "erase", !.ptr = p] ELSE call[u]
  BY DEF BeginFree, At, book, cuda
<1>2. \A u \in Threads, q \in Pointers :
         /\ Carries(u, q)' <=> Carries(u, q)
         /\ Passed(u, q)' <=> IF u = t THEN q = p ELSE Passed(u, q)
         /\ ~Passed(t, q)
  BY <1>1 DEF Carries, Passed, InFlight, Idle
<1>3. \A q \in Pointers : Mapped(q)' <=> Mapped(q)
  BY <1>1 DEF Mapped
<1>4. PoolAccounted'
  BY <1>1, <1>2, <1>3 DEF PoolAccounted
<1>5. MappedPointersReachable'
  BY <1>1, <1>2, <1>3 DEF MappedPointersReachable
<1>6. StreamMapExact'
  BY <1>1, <1>3 DEF StreamMapExact
<1> QED
  BY <1>4, <1>5, <1>6

LEMMA EraseKeepsBooks ==
  ASSUME BookInv, NEW t \in Threads, Erase(t)
  PROVE  Books'
<1> DEFINE p == call[t].ptr
           s == alloc_map[p].stream
<1> USE DEF BookInv, TypeInv, TypeOK, Books
<1>1. p \in Pointers /\ Passed(t, p) /\ call[t].pc = "erase"
  BY DEF Erase, At, LocalsOK, Passed
<1>2. Mapped(p) /\ p \notin held /\ p \in used /\ p \notin lost /\ s \in AllStreams
  BY <1>1 DEF MappedPointersReachable, PoolAccounted
<1>3. /\ alloc_map' = [alloc_map EXCEPT ![p] = Unmapped]
      /\ stream_map' = [stream_map EXCEPT ![s] = @ \ {p}]
      /\ UNCHANGED <<held, used, lost>>
      /\ call' = [call EXCEPT ![t].pc = "free", ![t].stream = s]
  BY <1>2 DEF Erase, Unlist, cuda
<1>4. \A q \in Pointers : /\ Mapped(q)' <=> q # p /\ Mapped(q)
                          /\ q # p => alloc_map'[q] = alloc_map[q]
  BY <1>1, <1>3 DEF Mapped, Unmapped
<1>5. \A u \in Threads, q \in Pointers :
         /\ Carries(u, q)' <=> IF u = t THEN q = p ELSE Carries(u, q)
         /\ Passed(u, q)' <=> u # t /\ Passed(u, q)
         /\ ~Carries(t, q)
         /\ Passed(t, q) => q = p
  BY <1>1, <1>3 DEF Carries, Passed, InFlight
<1>6. PoolAccounted'
  BY <1>1, <1>2, <1>3, <1>4, <1>5 DEF PoolAccounted
<1>7. MappedPointersReachable'
  BY <1>1, <1>2, <1>3, <1>4, <1>5 DEF MappedPointersReachable
<1>8. StreamMapExact'
  BY <1>1, <1>2, <1>3, <1>4 DEF StreamMapExact
<1> QED
  BY <1>6, <1>7, <1>8

\* The end of DoFree: the block goes back to the pool, or is lost.
LEMMA ReleaseKeepsBooks ==
  ASSUME BookInv, NEW t \in Threads, FreeOnStream(t) \/ FreeOnDefault(t) \/ FreeFails(t)
  PROVE  Books'
<1> DEFINE p == call[t].ptr
<1> USE DEF BookInv, TypeInv, TypeOK, Books
<1>1. p \in Pointers /\ Carries(t, p) /\ call[t].pc \in {"free", "refree"}
  BY DEF FreeOnStream, FreeOnDefault, FreeFails, At, LocalsOK, Carries, InFlight
<1>2. UNCHANGED <<alloc_map, stream_map, held>>
  BY DEF FreeOnStream, FreeOnDefault, FreeFails, book
<1>3. \/ used' = used \ {p} /\ lost' = lost
      \/ used' = used /\ lost' = lost \cup {p}
  BY DEF FreeOnStream, FreeOnDefault, FreeFails, cudaFreeAsync, cuda
<1>4. \A q \in Pointers : Mapped(q)' <=> Mapped(q)
  BY <1>2 DEF Mapped
<1>5. \A u \in Threads, q \in Pointers :
         /\ Carries(u, q)' <=> u # t /\ Carries(u, q)
         /\ Passed(u, q)' <=> Passed(u, q)
         /\ Carries(t, q) => q = p
  <2>1. \A u \in Threads : call'[u] = IF u = t THEN Idle ELSE call[u]
    BY DEF FreeOnStream, FreeOnDefault, FreeFails, Return
  <2> QED
    BY <1>1, <2>1 DEF Carries, Passed, InFlight, Idle
<1>6. PoolAccounted'
  BY <1>1, <1>3, <1>4, <1>5 DEF PoolAccounted
<1>7. MappedPointersReachable'
  BY <1>2, <1>4, <1>5 DEF MappedPointersReachable
<1>8. StreamMapExact'
  BY <1>2, <1>4 DEF StreamMapExact
<1> QED
  BY <1>6, <1>7, <1>8

LEMMA BooksStep == BookInv /\ [Next]_vars => Books'
<1> SUFFICES ASSUME BookInv, [Next]_vars PROVE Books'
  OBVIOUS
<1>1. CASE UNCHANGED vars
  BY <1>1, BooksFrame DEF BookInv, vars, book, cuda, Carries, Passed, InFlight
<1>2. CASE Environment
  BY <1>2, EnvironmentKeepsBooks
<1>3. ASSUME NEW t \in Threads, Call(t) \/ AllocStep(t) \/ FreeStep(t) PROVE Books'
  BY <1>3, WalkKeepsBooks, MallocKeepsBooks, InsertKeepsBooks, BeginFreeKeepsBooks,
     EraseKeepsBooks, ReleaseKeepsBooks DEF Call, AllocStep, FreeStep, Walk
<1> QED
  BY <1>1, <1>2, <1>3 DEF Next

(* Every block out of the pool is mapped, in one thread's hands or lost;   *)
(* every mapped pointer can be freed once; the index by stream is exact.   *)
THEOREM BooksCorrect == Spec => []Books
<1>1. Init => BookInv
  BY InitTypeInv, InitBooks DEF BookInv
<1>2. BookInv /\ [Next]_vars => BookInv'
  BY TypeInvStep, BooksStep DEF BookInv
<1>3. BookInv => Books
  BY DEF BookInv
<1> QED
  BY <1>1, <1>2, <1>3, PTL DEF Spec

-----------------------------------------------------------------------------
(* Stream order, when no stream is destroyed before its work has finished. *)
(* Pending work on a block is on the stream recorded for it, wherever the  *)
(* record is: in alloc_map, or in the locals of the call that carries the  *)
(* block; when DoFree falls back to the default stream there is none left. *)
WorkOnRecordedStream ==
  /\ \A w \in work : w[2] \in valid
  /\ \A w \in work : Mapped(w[1]) => w[2] = alloc_map[w[1]].stream
  /\ \A w \in work, t \in Threads :
       Carries(t, w[1]) => call[t].pc # "refree" /\ w[2] = call[t].stream
OrderInv == BookInv /\ WorkOnRecordedStream /\ OrderedFree

LEMMA InitOrder == Init => WorkOnRecordedStream /\ OrderedFree
  BY DEF Init, WorkOnRecordedStream, OrderedFree

\* A step that adds no work, takes no stream away and leaves the records alone.
LEMMA OrderFrame ==
  ASSUME WorkOnRecordedStream, work' \subseteq work, valid' = valid, alloc_map' = alloc_map,
         \A t \in Threads, w \in work :
           Carries(t, w[1])' => /\ Carries(t, w[1]) /\ call'[t].stream = call[t].stream
                                /\ call'[t].pc # "refree"
  PROVE  WorkOnRecordedStream'
  BY DEF WorkOnRecordedStream, Mapped

\* The work that remains keeps its place before the releases that remain.
LEMMA DrainKeepsOrder ==
  ASSUME OrderedFree, NEW s, Drained(s)
  PROVE  OrderedFree' /\ work' \subseteq work
  BY DEF OrderedFree, Drained, On

LEMMA QuietStepsKeepOrder ==
  ASSUME OrderInv, NEW t \in Threads,
         \/ EnterProbe(t) \/ ProbeFails(t) \/ PassProbe(t) \/ MallocFails(t) \/ FreeFails(t)
         \/ \E size \in Sizes, s \in AllStreams : BeginAlloc(t, size, s)
         \/ \E p \in Pointers : BeginFree(t, p)
  PROVE  (WorkOnRecordedStream /\ OrderedFree)'
<1> USE DEF OrderInv, BookInv, TypeInv, TypeOK
<1>1. UNCHANGED <<work, releasing, used, valid, alloc_map>>
  BY DEF EnterProbe, ProbeFails, PassProbe, MallocFails, FreeFails, BeginAlloc, BeginFree, book, cuda
<1>2. /\ \A u \in Threads : u # t => call'[u] = call[u]
      /\ call'[t].pc \notin {"sync", "insert", "free", "refree"}
  <2>1. CASE EnterProbe(t) \/ ProbeFails(t) \/ PassProbe(t)
    BY <2>1 DEF EnterProbe, ProbeFails, PassProbe, Goto, Return, Idle
  <2>2. CASE MallocFails(t) \/ FreeFails(t)
    BY <2>2 DEF MallocFails, FreeFails, Goto, Return, Idle
  <2>3. CASE \E size \in Sizes, s \in AllStreams : BeginAlloc(t, size, s)
    BY <2>3 DEF BeginAlloc, Idle
  <2>4. CASE \E p \in Pointers : BeginFree(t, p)
    <3>1. PICK p \in Pointers : call' = [call EXCEPT ![t] = [Idle EXCEPT !.pc = "erase", !.ptr = p]]
      BY <2>4 DEF BeginFree
    <3>2. call'[t] = [Idle EXCEPT !.pc = "erase", !.ptr = p]
      BY <3>1
    <3>3. call'[t].pc = "erase"
      BY <3>2 DEF Idle
    <3> QED
      BY <3>1, <3>3
  <2> QED
    BY <2>1, <2>2, <2>3, <2>4
<1>3. \A u \in Threads, w \in work :
         Carries(u, w[1])' => /\ Carries(u, w[1]) /\ call'[u].stream = call[u].stream
                              /\ call'[u].pc # "refree"
  BY <1>2 DEF Carries, InFlight, WorkOnRecordedStream
<1>4. WorkOnRecordedStream'
  BY <1>1, <1>3, OrderFrame
<1> QED
  BY <1>1, <1>4 DEF OrderedFree

LEMMA SyncKeepsOrder ==
  ASSUME OrderInv, NEW t \in Threads, ProbeSucceeds(t) \/ SyncDefault(t)
  PROVE  (WorkOnRecordedStream /\ OrderedFree)'
<1> USE DEF OrderInv, BookInv, TypeInv, TypeOK
<1>1. PICK s : Drained(s)
  BY DEF ProbeSucceeds, SyncDefault
<1>2. OrderedFree' /\ work' \subseteq work /\ valid' = valid
  BY <1>1, DrainKeepsOrder DEF Drained
<1>3. alloc_map' = alloc_map
  BY DEF ProbeSucceeds, SyncDefault, book
<1>4. /\ \A u \in Threads : u # t => call'[u] = call[u]
      /\ \/ call'[t].pc = "probe"
         \/ /\ call[t].pc = "sync" /\ call'[t].pc = "insert"
            /\ call'[t].ptr = call[t].ptr /\ call'[t].stream = call[t].stream
  BY DEF ProbeSucceeds, SyncDefault, Goto, At
<1>5. \A u \in Threads, w \in work :
         Carries(u, w[1])' => /\ Carries(u, w[1]) /\ call'[u].stream = call[u].stream
                              /\ call'[u].pc # "refree"
  BY <1>4 DEF Carries, InFlight, WorkOnRecordedStream
<1> QED
  BY <1>2, <1>3, <1>5, OrderFrame

LEMMA MallocKeepsOrder ==
  ASSUME OrderInv, NEW t \in Threads, MallocSucceeds(t)
  PROVE  (WorkOnRecordedStream /\ OrderedFree)'
<1> USE DEF OrderInv, BookInv, TypeInv, TypeOK
<1>1. PICK p \in Pointers : cudaMallocFromPoolAsync(p, call[t].stream)
                           /\ call' = [call EXCEPT ![t].ptr = p,
                                ![t].pc = IF call[t].stream = Default THEN "sync" ELSE "insert"]
  BY DEF MallocSucceeds
<1>2. /\ p \notin used /\ used' = used \cup {p} /\ UNCHANGED <<work, valid, alloc_map>>
      /\ \A w \in releasing : w[1] = p => w[2] = call[t].stream
      /\ releasing' = {w \in releasing : w[1] # p}
  BY <1>1 DEF cudaMallocFromPoolAsync, Obtainable, MallocSucceeds, book
<1>3. \A w \in work : w[1] = p => w[2] = call[t].stream
  BY <1>2 DEF OrderedFree
<1>4. \A u \in Threads, q \in Pointers :
         /\ Carries(u, q)' => IF u = t THEN q = p /\ call'[u].pc # "refree"
                              ELSE Carries(u, q) /\ call'[u] = call[u]
         /\ call'[u].stream = call[u].stream
  BY <1>1 DEF Carries, InFlight
<1>5. WorkOnRecordedStream'
  BY <1>2, <1>3, <1>4 DEF WorkOnRecordedStream, Mapped
<1> QED
  BY <1>2, <1>5 DEF OrderedFree

LEMMA InsertKeepsOrder ==
  ASSUME OrderInv, NEW t \in Threads, Insert(t)
  PROVE  (WorkOnRecordedStream /\ OrderedFree)'
<1> DEFINE p == call[t].ptr
           s == call[t].stream
<1> USE DEF OrderInv, BookInv, TypeInv, TypeOK
<1>1. p \in Pointers /\ call[t].pc = "insert" /\ Carries(t, p)
  BY DEF Insert, At, LocalsOK, Carries, InFlight
<1>2. ~Mapped(p)
  BY <1>1 DEF Books, PoolAccounted
<1>3. /\ alloc_map' = [alloc_map EXCEPT ![p] = [bytes |-> call[t].size, stream |-> s]]
      /\ \A u \in Threads : call'[u] = IF u = t THEN Idle ELSE call[u]
      /\ UNCHANGED <<work, releasing, used, valid>>
  BY <1>2 DEF Insert, Return, cuda
<1>4. \A w \in work : Mapped(w[1])' => w[2] = alloc_map'[w[1]].stream
  BY <1>1, <1>3 DEF WorkOnRecordedStream, Mapped
<1>5. \A w \in work, u \in Threads : Carries(u, w[1])' => u # t /\ Carries(u, w[1])
  BY <1>3 DEF Carries, InFlight, Idle
<1>6. WorkOnRecordedStream'
  BY <1>3, <1>4, <1>5 DEF WorkOnRecordedStream
<1> QED
  BY <1>3, <1>6 DEF OrderedFree

LEMMA EraseKeepsOrder ==
  ASSUME OrderInv, NEW t \in Threads, Erase(t)
  PROVE  (WorkOnRecordedStream /\ OrderedFree)'
<1> DEFINE p == call[t].ptr
           s == alloc_map[p].stream
<1> USE DEF OrderInv, BookInv, TypeInv, TypeOK
<1>1. p \in Pointers /\ Passed(t, p)
  BY DEF Erase, At, LocalsOK, Passed
<1>2. Mapped(p)
  BY <1>1 DEF Books, MappedPointersReachable
<1>3. /\ alloc_map' = [alloc_map EXCEPT ![p] = Unmapped]
      /\ call' = [call EXCEPT ![t].pc = "free", ![t].stream = s]
      /\ UNCHANGED <<work, releasing, used, valid>>
  BY <1>2 DEF Erase, cuda
<1>4. \A w \in work : Mapped(w[1])' => w[1] # p /\ Mapped(w[1])
                                      /\ alloc_map'[w[1]] = alloc_map[w[1]]
  BY <1>1, <1>3 DEF Mapped, Unmapped
<1>5. \A w \in work, u \in Threads :
         Carries(u, w[1])' => IF u = t THEN w[1] = p /\ call'[u].pc = "free" /\ call'[u].stream = s
                              ELSE Carries(u, w[1]) /\ call'[u] = call[u]
  BY <1>3 DEF Carries, InFlight
<1>6. WorkOnRecordedStream'
  BY <1>2, <1>3, <1>4, <1>5 DEF WorkOnRecordedStream
<1> QED
  BY <1>3, <1>6 DEF OrderedFree

LEMMA FreeKeepsOrder ==
  ASSUME OrderInv, NEW t \in Threads,
         FreeOnStream(t) \/ FreeOnDefault(t) \/ FreeFindsNoStream(t)
  PROVE  (WorkOnRecordedStream /\ OrderedFree)'
<1> DEFINE p == call[t].ptr
           s == call[t].stream
<1> USE DEF OrderInv, BookInv, TypeInv, TypeOK
<1>1. p \in Pointers /\ Carries(t, p)
  BY DEF FreeOnStream, FreeOnDefault, FreeFindsNoStream, At, LocalsOK, Carries, InFlight
<1>2. UNCHANGED <<work, valid, alloc_map>>
  BY DEF FreeOnStream, FreeOnDefault, FreeFindsNoStream, cudaFreeAsync, book, cuda
<1>3. \A w \in work : w = <<w[1], w[2]>>
  OBVIOUS
<1>4. CASE FreeOnStream(t) \/ FreeOnDefault(t)
  <2>1. \A u \in Threads : call'[u] = IF u = t THEN Idle ELSE call[u]
    BY <1>4 DEF FreeOnStream, FreeOnDefault, Return
  <2>2. \A w \in work, u \in Threads : Carries(u, w[1])' => u # t /\ Carries(u, w[1])
    BY <2>1 DEF Carries, InFlight, Idle
  <2>3. WorkOnRecordedStream'
    BY <1>2, <2>1, <2>2 DEF WorkOnRecordedStream, Mapped
  <2>4. \A w \in work : w[1] = p => FreeOnStream(t) /\ w[2] = s
    BY <1>1, <1>4 DEF WorkOnRecordedStream, FreeOnDefault, At
  <2>5. /\ used' = used \ {p} /\ releasing \subseteq releasing'
        /\ FreeOnStream(t) => <<p, s>> \in releasing'
    BY <1>4 DEF FreeOnStream, FreeOnDefault, cudaFreeAsync
  <2>6. OrderedFree'
    BY <1>2, <1>3, <2>4, <2>5 DEF OrderedFree
  <2> QED
    BY <2>3, <2>6
<1>5. CASE FreeFindsNoStream(t)
  <2>1. \A w \in work : w[1] # p
    BY <1>1, <1>5 DEF WorkOnRecordedStream, FreeFindsNoStream
  <2>2. UNCHANGED <<releasing, used>> /\ call' = [call EXCEPT ![t].pc = "refree"]
    BY <1>5 DEF FreeFindsNoStream, Goto, cuda
  <2>3. \A w \in work, u \in Threads : Carries(u, w[1])' => u # t /\ Carries(u, w[1])
                                                           /\ call'[u] = call[u]
    BY <2>1, <2>2 DEF Carries, InFlight
  <2>4. WorkOnRecordedStream'
    BY <1>2, <2>3 DEF WorkOnRecordedStream, Mapped
  <2> QED
    BY <1>2, <2>2, <2>4 DEF OrderedFree
<1> QED
  BY <1>4, <1>5

LEMMA EnvironmentKeepsOrder ==
  ASSUME ~DestroyBusy, OrderInv, Environment
  PROVE  (WorkOnRecordedStream /\ OrderedFree)'
<1> USE DEF OrderInv, BookInv, TypeInv, TypeOK
<1>1. UNCHANGED <<alloc_map, call, used>>
  BY DEF Environment, StreamProgress, Drained, Enqueue, DestroyStream, CreateStream, book
<1>2. \A t \in Threads, p \in Pointers : Carries(t, p)' <=> Carries(t, p)
  BY <1>1 DEF Carries, InFlight
<1>3. ASSUME NEW s \in AllStreams \cup {Gone}, StreamProgress(s)
      PROVE  (WorkOnRecordedStream /\ OrderedFree)'
  <2>1. OrderedFree' /\ work' \subseteq work /\ valid' = valid
    BY <1>3, DrainKeepsOrder DEF StreamProgress, Drained
  <2> QED
    BY <1>1, <1>2, <2>1 DEF WorkOnRecordedStream, Mapped
<1>4. ASSUME NEW p \in Pointers, Enqueue(p)
      PROVE  (WorkOnRecordedStream /\ OrderedFree)'
  <2>1. Mapped(p) /\ p \in used /\ alloc_map[p].stream \in valid
    BY <1>4 DEF Enqueue, Books, PoolAccounted, MappedPointersReachable
  <2>2. \A t \in Threads : ~Carries(t, p)
    BY <2>1 DEF Books, PoolAccounted
  <2>3. work' = work \cup {<<p, alloc_map[p].stream>>} /\ UNCHANGED <<releasing, valid>>
    BY <1>4 DEF Enqueue
  <2>4. WorkOnRecordedStream'
    BY <1>1, <1>2, <2>1, <2>2, <2>3 DEF WorkOnRecordedStream, Mapped
  <2> QED
    BY <1>1, <2>1, <2>3, <2>4 DEF OrderedFree
<1>5. ASSUME NEW s \in Streams, DestroyStream(s)
      PROVE  (WorkOnRecordedStream /\ OrderedFree)'
  <2>1. valid' = valid \ {s} /\ On(s, work) = {} /\ On(s, releasing) = {}
    BY <1>5 DEF DestroyStream
  <2>2. work' = work /\ releasing' = releasing
    BY <1>5, <2>1 DEF DestroyStream, Orphan, On
  <2>3. \A w \in work : w[2] # s
    BY <2>1 DEF On
  <2>4. WorkOnRecordedStream'
    BY <1>1, <1>2, <2>1, <2>2, <2>3 DEF WorkOnRecordedStream, Mapped
  <2> QED
    BY <1>1, <2>2, <2>4 DEF OrderedFree
<1>6. ASSUME NEW s \in Streams, CreateStream(s)
      PROVE  (WorkOnRecordedStream /\ OrderedFree)'
  <2>1. UNCHANGED <<work, releasing>> /\ valid \subseteq valid'
    BY <1>6 DEF CreateStream
  <2>2. WorkOnRecordedStream'
    BY <1>1, <1>2, <2>1 DEF WorkOnRecordedStream, Mapped
  <2> QED
    BY <1>1, <2>1, <2>2 DEF OrderedFree
<1> QED
  BY <1>3, <1>4, <1>5, <1>6 DEF Environment

(* If streams are destroyed only when their work has finished, no block    *)
(* goes back to the pool ahead of work on it: whatever DoFree's race with  *)
(* the destruction, and even if a new stream gets the recorded handle.     *)
THEOREM FreesOrdered == ~DestroyBusy => (Spec => []OrderedFree)
<1> SUFFICES ASSUME ~DestroyBusy PROVE Spec => []OrderedFree
  OBVIOUS
<1>1. Init => OrderInv
  BY InitTypeInv, InitBooks, InitOrder DEF OrderInv, BookInv
<1>2. OrderInv /\ [Next]_vars => OrderInv'
  <2> SUFFICES ASSUME OrderInv, [Next]_vars PROVE OrderInv'
    OBVIOUS
  <2>1. BookInv'
    BY TypeInvStep, BooksStep DEF OrderInv, BookInv
  <2>2. CASE UNCHANGED vars
    BY <2>1, <2>2 DEF OrderInv, WorkOnRecordedStream, OrderedFree, Carries, InFlight, Mapped,
       vars, book, cuda
  <2>3. CASE Environment
    BY <2>1, <2>3, EnvironmentKeepsOrder DEF OrderInv
  <2>4. ASSUME NEW t \in Threads, Call(t) \/ AllocStep(t) \/ FreeStep(t)
        PROVE  (WorkOnRecordedStream /\ OrderedFree)'
    BY <2>4, QuietStepsKeepOrder, SyncKeepsOrder, MallocKeepsOrder, InsertKeepsOrder,
       EraseKeepsOrder, FreeKeepsOrder DEF Call, AllocStep, FreeStep
  <2> QED
    BY <2>1, <2>2, <2>3, <2>4 DEF Next, OrderInv
<1>3. OrderInv => OrderedFree
  BY DEF OrderInv
<1> QED
  BY <1>1, <1>2, <1>3, PTL DEF Spec

-----------------------------------------------------------------------------
(* in_use_bytes_.  DoFree takes off exactly what DoAlloc added, because    *)
(* Insert meets no entry and Erase finds its entry (Books).                *)
Bytes == [p \in Pointers |-> alloc_map[p].bytes]
InUseInv == BookInv /\ InUseExact

LEMMA BytesType == TypeInv => Bytes \in [Pointers -> Nat] /\ Bytes \in [Pointers -> Int]
  BY DEF TypeInv, TypeOK, Bytes

LEMMA InitInUse == Init => InUseExact
<1> SUFFICES ASSUME Init PROVE InUseExact
  OBVIOUS
<1>1. Bytes \in [Pointers -> Int] /\ \A p \in Pointers : Bytes[p] = 0
  BY DEF Init, Bytes, Unmapped
<1>2. SumFunction(Bytes) = 0
  BY <1>1, MempoolConstants, SumOfZeros
<1> QED
  BY <1>2 DEF InUseExact, Bytes, Init

LEMMA InsertKeepsInUse ==
  ASSUME InUseInv, TypeInv', NEW t \in Threads, Insert(t)
  PROVE  InUseExact'
<1> DEFINE p == call[t].ptr
<1>1. p \in Pointers /\ Carries(t, p)
  BY DEF Insert, At, InUseInv, BookInv, TypeInv, LocalsOK, Carries, InFlight
<1>2. ~Mapped(p)
  BY <1>1 DEF InUseInv, BookInv, Books, PoolAccounted
<1>3. /\ alloc_map' = [alloc_map EXCEPT ![p] = [bytes |-> call[t].size, stream |-> call[t].stream]]
      /\ in_use_bytes' = in_use_bytes + call[t].size
  BY <1>2 DEF Insert
<1>4. /\ Bytes[p] = 0 /\ Bytes'[p] = call[t].size
      /\ \A q \in Pointers : q # p => Bytes'[q] = Bytes[q]
  BY <1>1, <1>2, <1>3 DEF Bytes, Mapped, InUseInv, BookInv, TypeInv, TypeOK
<1>5. Bytes \in [Pointers -> Int] /\ Bytes' \in [Pointers -> Int]
  BY BytesType DEF InUseInv, BookInv, TypeInv, TypeOK, Bytes
<1>6. SumFunction(Bytes') = SumFunction(Bytes) - Bytes[p] + Bytes'[p]
  BY <1>1, <1>4, <1>5, MempoolConstants, SumExcept
<1> QED
  BY <1>3, <1>4, <1>6 DEF InUseInv, BookInv, TypeInv, TypeOK, InUseExact, Bytes

LEMMA EraseKeepsInUse ==
  ASSUME InUseInv, TypeInv', NEW t \in Threads, Erase(t)
  PROVE  InUseExact'
<1> DEFINE p == call[t].ptr
<1>1. p \in Pointers /\ Passed(t, p)
  BY DEF Erase, At, InUseInv, BookInv, TypeInv, LocalsOK, Passed
<1>2. Mapped(p)
  BY <1>1 DEF InUseInv, BookInv, Books, MappedPointersReachable
<1>3. /\ alloc_map' = [alloc_map EXCEPT ![p] = Unmapped]
      /\ in_use_bytes' = InUseLess(alloc_map[p].bytes)
  BY <1>2 DEF Erase
<1>4. /\ Bytes[p] = alloc_map[p].bytes /\ Bytes'[p] = 0
      /\ \A q \in Pointers : q # p => Bytes'[q] = Bytes[q]
  BY <1>1, <1>3 DEF Bytes, Unmapped, InUseInv, BookInv, TypeInv, TypeOK
<1>5. /\ Bytes \in [Pointers -> Nat] /\ Bytes \in [Pointers -> Int]
      /\ Bytes' \in [Pointers -> Int]
  BY BytesType DEF InUseInv, BookInv, TypeInv, TypeOK, Bytes
<1>6. SumFunction(Bytes') = SumFunction(Bytes) - Bytes[p] + Bytes'[p]
  BY <1>1, <1>4, <1>5, MempoolConstants, SumExcept
<1>7. SumFunction(Bytes) \in Nat /\ Bytes[p] <= SumFunction(Bytes)
  BY <1>1, <1>5, MempoolConstants, SumBounds
<1>8. in_use_bytes = SumFunction(Bytes)
  BY DEF InUseInv, InUseExact, Bytes
<1>9. in_use_bytes' = in_use_bytes - Bytes[p]
  BY <1>3, <1>4, <1>7, <1>8 DEF InUseLess
<1>10. Bytes[p] \in Int
  BY <1>1, <1>5
<1>11. in_use_bytes' = SumFunction(Bytes')
  BY <1>4, <1>6, <1>7, <1>8, <1>9, <1>10
<1> QED
  BY <1>11 DEF InUseExact, Bytes

LEMMA InUseStep == InUseInv /\ BookInv' /\ [Next]_vars => InUseExact'
<1> SUFFICES ASSUME InUseInv, BookInv', [Next]_vars PROVE InUseExact'
  OBVIOUS
<1>1. ASSUME UNCHANGED <<alloc_map, in_use_bytes>> PROVE InUseExact'
  BY <1>1 DEF InUseInv, InUseExact
<1>2. CASE UNCHANGED vars
  BY <1>1, <1>2 DEF vars, book
<1>3. CASE Environment
  BY <1>1, <1>3 DEF Environment, StreamProgress, Enqueue, DestroyStream, CreateStream, book
<1>4. ASSUME NEW t \in Threads, Call(t) \/ AllocStep(t) \/ FreeStep(t) PROVE InUseExact'
  <2>1. CASE Insert(t)
    BY <2>1, InsertKeepsInUse DEF BookInv
  <2>2. CASE Erase(t)
    BY <2>2, EraseKeepsInUse DEF BookInv
  <2>3. CASE ~Insert(t) /\ ~Erase(t)
    BY <1>1, <1>4, <2>3 DEF Call, AllocStep, FreeStep, BeginAlloc, BeginFree, EnterProbe,
       ProbeSucceeds, ProbeFails, PassProbe, MallocSucceeds, MallocFails, SyncDefault,
       FreeOnStream, FreeFindsNoStream, FreeOnDefault, FreeFails, book
  <2> QED
    BY <2>1, <2>2, <2>3
<1> QED
  BY <1>2, <1>3, <1>4 DEF Next

(* The counter of bytes in use is exactly the sum of the mapped sizes, at  *)
(* any moment: the clamp at zero in DoFree never hides a difference.       *)
THEOREM InUseCorrect == Spec => []InUseExact
<1>1. Init => InUseInv
  BY InitTypeInv, InitBooks, InitInUse DEF InUseInv, BookInv
<1>2. InUseInv /\ [Next]_vars => InUseInv'
  BY TypeInvStep, BooksStep, InUseStep DEF InUseInv, BookInv
<1>3. InUseInv => InUseExact
  BY DEF InUseInv
<1> QED
  BY <1>1, <1>2, <1>3, PTL DEF Spec

-----------------------------------------------------------------------------
(* The probe.  A thread gets past EnsureProbedOnce only after a probe that *)
(* has finished and found the pool usable, and only one thread probes.     *)
ProbeGate ==
  \A t \in Threads :
    /\ call[t].pc = "probing" =>
         probe_once = "running" /\ \A u \in Threads : call[u].pc = "probing" => u = t
    /\ call[t].pc \in {"malloc", "retry"} => probe_once = "done" /\ probe_usable
GateInv == TypeInv /\ ProbeGate

LEMMA InitGate == Init => ProbeGate
  BY DEF Init, ProbeGate, Idle

LEMMA GateStep == GateInv /\ [Next]_vars => ProbeGate'
<1> SUFFICES ASSUME GateInv, [Next]_vars PROVE ProbeGate'
  OBVIOUS
<1> USE DEF GateInv, TypeInv, TypeOK, ProbeGate, At, Goto, Return, Idle
<1>1. CASE UNCHANGED vars
  BY <1>1 DEF vars, probe
<1>2. CASE Environment
  BY <1>2 DEF Environment, StreamProgress, Enqueue, DestroyStream, CreateStream, probe
<1>3. ASSUME NEW t \in Threads, Call(t) PROVE ProbeGate'
  <2>1. UNCHANGED probe /\ \A u \in Threads : u # t => call'[u] = call[u]
    BY <1>3 DEF Call, BeginAlloc, BeginFree
  <2>2. call'[t].pc \in {"idle", "probe", "erase"}
    <3>1. CASE \E size \in Sizes, s \in AllStreams : BeginAlloc(t, size, s)
      BY <3>1 DEF BeginAlloc
    <3>2. CASE \E p \in Pointers : BeginFree(t, p)
      <4>1. PICK p \in Pointers : call' = [call EXCEPT ![t] = [Idle EXCEPT !.pc = "erase", !.ptr = p]]
        BY <3>2 DEF BeginFree
      <4>2. call'[t] = [Idle EXCEPT !.pc = "erase", !.ptr = p]
        BY <4>1
      <4> QED
        BY <4>2
    <3> QED
      BY <1>3, <3>1, <3>2 DEF Call
  <2> QED
    BY <2>1, <2>2 DEF probe
<1>4. ASSUME NEW t \in Threads, EnterProbe(t) PROVE ProbeGate'
  BY <1>4 DEF EnterProbe
<1>5. ASSUME NEW t \in Threads, ProbeSucceeds(t) PROVE ProbeGate'
  BY <1>5 DEF ProbeSucceeds
<1>6. ASSUME NEW t \in Threads, ProbeFails(t) PROVE ProbeGate'
  BY <1>6 DEF ProbeFails
<1>7. ASSUME NEW t \in Threads, PassProbe(t) PROVE ProbeGate'
  BY <1>7 DEF PassProbe, probe
<1>8. ASSUME NEW t \in Threads,
             MallocSucceeds(t) \/ MallocFails(t) \/ SyncDefault(t) \/ Insert(t) \/ FreeStep(t)
      PROVE  ProbeGate'
  <2>1. UNCHANGED probe /\ \A u \in Threads : u # t => call'[u] = call[u]
    BY <1>8 DEF MallocSucceeds, MallocFails, SyncDefault, Insert, FreeStep, Erase, FreeOnStream,
       FreeFindsNoStream, FreeOnDefault, FreeFails
  <2>2. \/ call'[t].pc \in {"idle", "sync", "insert", "free", "refree"}
        \/ call[t].pc = "malloc" /\ call'[t].pc = "retry"
    <3>1. CASE MallocSucceeds(t)
      <4>1. PICK p \in Pointers :
               call' = [call EXCEPT ![t].ptr = p,
                          ![t].pc = IF call[t].stream = Default THEN "sync" ELSE "insert"]
        BY <3>1 DEF MallocSucceeds
      <4> QED
        BY <4>1
    <3>2. CASE MallocFails(t) \/ SyncDefault(t) \/ Insert(t) \/ Erase(t)
      BY <3>2 DEF MallocFails, SyncDefault, Insert, Erase
    <3>3. CASE FreeOnStream(t) \/ FreeFindsNoStream(t) \/ FreeOnDefault(t) \/ FreeFails(t)
      BY <3>3 DEF FreeOnStream, FreeFindsNoStream, FreeOnDefault, FreeFails
    <3> QED
      BY <1>8, <3>1, <3>2, <3>3 DEF FreeStep
  <2> QED
    BY <2>1, <2>2 DEF probe
<1> QED
  BY <1>1, <1>2, <1>3, <1>4, <1>5, <1>6, <1>7, <1>8 DEF Next, AllocStep

\* Only a cudaMallocFromPoolAsync takes a block out of the pool.
LEMMA UsedGrowsInMalloc ==
  ASSUME GateInv, [Next]_vars
  PROVE  used' \subseteq used \/ (probe_once = "done" /\ probe_usable)
<1>1. CASE UNCHANGED vars
  BY <1>1 DEF vars, cuda
<1>2. CASE Environment
  BY <1>2 DEF Environment, StreamProgress, Drained, Enqueue, DestroyStream, CreateStream
<1>3. ASSUME NEW t \in Threads, Call(t)
      PROVE  used' \subseteq used
  BY <1>3 DEF Call, BeginAlloc, BeginFree, cuda
<1>4. ASSUME NEW t \in Threads, AllocStep(t)
      PROVE  used' \subseteq used \/ (probe_once = "done" /\ probe_usable)
  <2>1. CASE MallocSucceeds(t)
    BY <2>1 DEF MallocSucceeds, At, GateInv, ProbeGate
  <2>2. CASE ~MallocSucceeds(t)
    BY <1>4, <2>2 DEF AllocStep, EnterProbe, ProbeSucceeds, ProbeFails, PassProbe, MallocFails,
       SyncDefault, Insert, Drained, cuda
  <2> QED
    BY <2>1, <2>2
<1>5. ASSUME NEW t \in Threads, FreeStep(t)
      PROVE  used' \subseteq used
  BY <1>5 DEF FreeStep, Erase, FreeOnStream, FreeFindsNoStream, FreeOnDefault, FreeFails,
     cudaFreeAsync, cuda
<1> QED
  BY <1>1, <1>2, <1>3, <1>4, <1>5 DEF Next

(* No step of any thread takes a block out of the pool unless a probe has  *)
(* finished and succeeded: std::call_once makes the others wait for it.    *)
THEOREM PoolProbedFirst == Spec => NothingFromUnusablePool
<1>1. Init => GateInv
  BY InitTypeInv, InitGate DEF GateInv
<1>2. GateInv /\ [Next]_vars => GateInv'
  BY TypeInvStep, GateStep DEF GateInv
<1>3. GateInv /\ [Next]_vars => [used' \subseteq used \/ (probe_once = "done" /\ probe_usable)]_vars
  BY UsedGrowsInMalloc
<1> QED
  BY <1>1, <1>2, <1>3, PTL DEF Spec, NothingFromUnusablePool
=============================================================================
