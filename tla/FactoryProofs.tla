--------------------------- MODULE FactoryProofs ---------------------------
(***************************************************************************)
(* Proofs about the objects the sessions of a process share, for any       *)
(* number of sessions, devices and objects, and about the warm-up of CUDA  *)
(* graphs, for any number of annotation ids.                               *)
(***************************************************************************)
EXTENDS FactoryProperties, CudaGraph, TLAPS

LEMMA NoObject == 0 \in Objects
  BY FactoryAssumption DEF Objects

\* What a session is made.
LEMMA NewSessionType == \A d \in Devices : NewSession(d) \in SessionRecord
  BY NoObject, FactoryAssumption DEF NewSession, SessionRecord, Memory, Pcs, Calls

LEMMA InitTypes == Init => TypeOK
<1> SUFFICES ASSUME Init PROVE TypeOK
  OBVIOUS
<1>1. PICK on \in [Sessions -> Devices] : session = [s \in Sessions |-> NewSession(on[s])]
  BY DEF Init
<1>2. session \in [Sessions -> SessionRecord]
  BY <1>1, NewSessionType
<1> QED
  BY <1>2, NoObject, FactoryAssumption DEF Init, NoAdapter, TypeOK

\* The types but the session's.
SharedTypes ==
  /\ arena \in [Devices -> Objects]
  /\ mempool \in [Devices -> Objects]
  /\ adapter \in [Devices -> [self : Objects, arena : Objects]]
  /\ lazy \in [Slots -> Objects]
  /\ disabled \subseteq Devices
  /\ owner \in Sessions \cup {NoSession}
  /\ made \in [Kinds -> Objects]

LEMMA FreshObject ==
  ASSUME SharedTypes, NEW k \in Kinds, CanMake(k)
  PROVE  Fresh(k) \in Objects /\ (Made(k) => made' \in [Kinds -> Objects])
  BY FactoryAssumption DEF SharedTypes, CanMake, Fresh, Made, Objects

LEMMA SlotType ==
  ASSUME TypeOK, NEW s \in Sessions, NEW k \in LazyKinds
  PROVE  Slot(s, k) \in Slots
  BY FactoryAssumption DEF TypeOK, SessionRecord, Slot, Slots, Device

LEMMA SessionSet ==
  ASSUME TypeOK, NEW s \in Sessions, SharedTypes', \E r \in SessionRecord : Set(s, r)
  PROVE  TypeOK'
  BY DEF TypeOK, SharedTypes, Set

LEMMA TypesStep == TypeOK /\ [Next]_vars => TypeOK'
<1> SUFFICES ASSUME TypeOK, [Next]_vars PROVE TypeOK'
  OBVIOUS
<1>a. ASSUME NEW s \in Sessions PROVE session[s] \in SessionRecord /\ Device(s) \in Devices
  BY DEF TypeOK, SessionRecord, Device
<1>b. SharedTypes
  BY DEF TypeOK, SharedTypes
<1>1. ASSUME NEW s \in Sessions, NEW sync \in BOOLEAN, CreateEp(s, sync) PROVE TypeOK'
  <2>1. [session[s] EXCEPT !.sync = sync, !.pc = IF sync THEN "adapter" ELSE "setup"] \in SessionRecord
    BY <1>a DEF SessionRecord, Pcs
  <2> QED
    BY <1>1, <1>b, <2>1, SessionSet DEF CreateEp, SharedTypes
<1>2. ASSUME NEW s \in Sessions, GetOrCreateDeviceArena(s) PROVE TypeOK'
  <2>1. /\ [session[s] EXCEPT !.arena = arena[Device(s)]] \in SessionRecord
        /\ CanMake("arena") => [session[s] EXCEPT !.arena = Fresh("arena")] \in SessionRecord
        /\ [session[s] EXCEPT !.pc = "setup"] \in SessionRecord
    BY <1>a, <1>b, NoObject, FreshObject DEF SessionRecord, SharedTypes, Pcs, Kinds
  <2>2. SharedTypes'
    BY <1>2, <1>a, <1>b, NoObject, FreshObject, FactoryAssumption
       DEF GetOrCreateDeviceArena, SharedTypes, Kinds
  <2> QED
    BY <1>2, <2>1, <2>2, SessionSet DEF GetOrCreateDeviceArena, Goto
<1>3. ASSUME NEW s \in Sessions, GetOrCreateSyncGpuAllocator(s) PROVE TypeOK'
  <2>1. /\ [session[s] EXCEPT !.adapter = adapter[Device(s)].self, !.arena = 0, !.pc = "setup"] \in SessionRecord
        /\ CanMake("adapter") =>
             [session[s] EXCEPT !.adapter = Fresh("adapter"), !.arena = 0, !.pc = "setup"] \in SessionRecord
    BY <1>a, <1>b, NoObject, FreshObject DEF SessionRecord, SharedTypes, Pcs, Calls, Kinds
  <2>a. session[s].arena \in Objects
    BY <1>a DEF SessionRecord
  <2>2. SharedTypes'
    BY <1>3, <2>a, <1>a, <1>b, FreshObject, SMTT(30) DEF GetOrCreateSyncGpuAllocator, SharedTypes, Kinds
  <2> QED
    BY <1>3, <1>a, <2>1, <2>2, NewSessionType, SessionSet DEF GetOrCreateSyncGpuAllocator, Goto, Dropped
<1>4. ASSUME NEW s \in Sessions, CreateAllocator(s) PROVE TypeOK'
  <2>1. /\ [session[s] EXCEPT !.arena = arena[Device(s)], !.todo = @ \ {"allocator"}] \in SessionRecord
        /\ [session[s] EXCEPT !.pc = "mempool"] \in SessionRecord
    BY <1>a, <1>b, NoObject, FreshObject DEF SessionRecord, SharedTypes, Pcs, Calls, Device
  <2>2. SharedTypes'
    BY <1>4, <1>a, <1>b, NoObject, FreshObject, FactoryAssumption DEF CreateAllocator, SharedTypes
  <2> QED
    BY <1>4, <1>a, <2>1, <2>2, NewSessionType, SessionSet DEF CreateAllocator, Goto, Dropped
<1>5. ASSUME NEW s \in Sessions, CreateMempool(s) PROVE TypeOK'
  <2>1. [session[s] EXCEPT !.pc = "arena"] \in SessionRecord
    BY <1>a, <1>b, NoObject, FreshObject DEF SessionRecord, SharedTypes, Pcs, Calls, Device
  <2>2. SharedTypes'
    BY <1>5, <1>a, <1>b, NoObject, FreshObject, FactoryAssumption DEF CreateMempool, SharedTypes, Kinds
  <2> QED
    BY <1>5, <1>a, <2>1, <2>2, NewSessionType, SessionSet DEF CreateMempool, Goto, Dropped
<1>6. ASSUME NEW s \in Sessions, CreateArena(s) PROVE TypeOK'
  <2>1. CanMake("arena") => [session[s] EXCEPT !.arena = Fresh("arena"), !.pc = "setup",
                                             !.todo = @ \ {"allocator"}] \in SessionRecord
    BY <1>a, <1>b, NoObject, FreshObject DEF SessionRecord, SharedTypes, Pcs, Calls, Kinds
  <2>2. SharedTypes'
    BY <1>6, <1>a, <1>b, NoObject, FreshObject, FactoryAssumption DEF CreateArena, SharedTypes, Kinds
  <2> QED
    BY <1>6, <1>a, <2>1, <2>2, NewSessionType, SessionSet DEF CreateArena, Goto, Dropped
<1>7. ASSUME NEW s \in Sessions, NEW k \in LazyKinds, FindLazy(s, k) PROVE TypeOK'
  <2>1. /\ [session[s] EXCEPT !.lazy[k] = lazy[Slot(s, k)], !.todo = @ \ {k}] \in SessionRecord
        /\ [session[s] EXCEPT !.pc = k] \in SessionRecord
    BY <1>a, <1>b, SlotType DEF SessionRecord, SharedTypes, Pcs
  <2>2. SharedTypes'
    BY <1>7, <1>a, <1>b, NoObject, FreshObject, FactoryAssumption DEF FindLazy, SharedTypes
  <2> QED
    BY <1>7, <1>a, <2>1, <2>2, NewSessionType, SessionSet DEF FindLazy, Goto, Dropped
<1>8. ASSUME NEW s \in Sessions, NEW k \in LazyKinds, StoreLazy(s, k) PROVE TypeOK'
  <2>1. CanMake(k) =>
          [session[s] EXCEPT !.lazy[k] = Fresh(k), !.todo = @ \ {k}, !.pc = "setup"] \in SessionRecord
    BY <1>a, <1>b, NoObject, FreshObject DEF SessionRecord, SharedTypes, Pcs, Calls, Kinds
  <2>2. SharedTypes'
    BY <1>8, <1>a, <1>b, NoObject, FreshObject, FactoryAssumption, SMTT(30)
       DEF StoreLazy, SharedTypes, Kinds, Slot, Slots
  <2> QED
    BY <1>8, <1>a, <2>1, <2>2, NewSessionType, SessionSet DEF StoreLazy, Goto, Dropped
<1>9. ASSUME NEW s \in Sessions, Ready(s) PROVE TypeOK'
  <2>1. [session[s] EXCEPT !.pc = "ready"] \in SessionRecord
    BY <1>a, <1>b, NoObject, FreshObject DEF SessionRecord, SharedTypes, Pcs, Calls, Device
  <2>2. SharedTypes'
    BY <1>9, <1>a, <1>b, NoObject, FreshObject, FactoryAssumption DEF Ready, SharedTypes
  <2> QED
    BY <1>9, <1>a, <2>1, <2>2, NewSessionType, SessionSet DEF Ready, Goto, Dropped
<1>10. ASSUME NEW s \in Sessions, FetchPool(s) PROVE TypeOK'
  <2>1. /\ \A p \in Objects : [session[s] EXCEPT !.pool = p, !.pc = "allocate"] \in SessionRecord
        /\ (IF UsesAdapter(s) THEN 0 ELSE GetActiveMempoolForDevice(Device(s))) \in Objects
    BY <1>a, <1>b, NoObject, FreshObject DEF SessionRecord, SharedTypes, Pcs, Calls, GetActiveMempoolForDevice, Device
  <2>2. SharedTypes'
    BY <1>10, <1>a, <1>b, NoObject, FreshObject, FactoryAssumption DEF FetchPool, SharedTypes
  <2> QED
    BY <1>10, <1>a, <2>1, <2>2, NewSessionType, SessionSet DEF FetchPool, Goto, Dropped
<1>11. ASSUME NEW s \in Sessions, AllocateFromPool(s) PROVE TypeOK'
  <2>a. [from |-> "mempool", object |-> session[s].pool] \in Memory
    BY <1>a DEF SessionRecord, Memory
  <2>1. /\ [session[s] EXCEPT !.memory = [from |-> "mempool", object |-> session[s].pool],
                                 !.pool = 0, !.pc = "ready"] \in SessionRecord
        /\ [session[s] EXCEPT !.pc = "latch"] \in SessionRecord
    BY <2>a, <1>a, <1>b, NoObject, FreshObject DEF SessionRecord, SharedTypes, Pcs, Calls, Device
  <2>2. SharedTypes'
    BY <1>11, <1>a, <1>b, NoObject, FreshObject, FactoryAssumption DEF AllocateFromPool, SharedTypes
  <2> QED
    BY <1>11, <1>a, <2>1, <2>2, NewSessionType, SessionSet DEF AllocateFromPool, Goto, Dropped
<1>12. ASSUME NEW s \in Sessions, NoteAsyncMempoolFailure(s) PROVE TypeOK'
  <2>1. [session[s] EXCEPT !.pool = 0, !.pc = "allocate"] \in SessionRecord
    BY <1>a, <1>b, NoObject, FreshObject DEF SessionRecord, SharedTypes, Pcs, Calls, Device
  <2>2. SharedTypes'
    BY <1>12, <1>a, <1>b, NoObject, FreshObject, FactoryAssumption DEF NoteAsyncMempoolFailure, SharedTypes
  <2> QED
    BY <1>12, <1>a, <2>1, <2>2, NewSessionType, SessionSet DEF NoteAsyncMempoolFailure, Goto, Dropped
<1>13. ASSUME NEW s \in Sessions, AllocateFromArena(s) PROVE TypeOK'
  <2>a. [from |-> "arena", object |-> session[s].arena] \in Memory
    BY <1>a DEF SessionRecord, Memory
  <2>1. /\ [session[s] EXCEPT !.memory = [from |-> "arena", object |-> session[s].arena],
                                 !.pc = "ready"] \in SessionRecord
        /\ [session[s] EXCEPT !.pc = "ready"] \in SessionRecord
    BY <2>a, <1>a, <1>b, NoObject, FreshObject DEF SessionRecord, SharedTypes, Pcs, Calls, Device
  <2>2. SharedTypes'
    BY <1>13, <1>a, <1>b, NoObject, FreshObject, FactoryAssumption DEF AllocateFromArena, SharedTypes
  <2> QED
    BY <1>13, <1>a, <2>1, <2>2, NewSessionType, SessionSet DEF AllocateFromArena, Goto, Dropped
<1>14. ASSUME NEW s \in Sessions, ReturnMemory(s) PROVE TypeOK'
  <2>a. [from |-> "none", object |-> 0] \in Memory
    BY NoObject DEF Memory
  <2>1. [session[s] EXCEPT !.memory = [from |-> "none", object |-> 0]] \in SessionRecord
    BY <2>a, <1>a, <1>b, NoObject, FreshObject DEF SessionRecord, SharedTypes, Pcs, Calls, Device
  <2>2. SharedTypes'
    BY <1>14, <1>a, <1>b, NoObject, FreshObject, FactoryAssumption DEF ReturnMemory, SharedTypes
  <2> QED
    BY <1>14, <1>a, <2>1, <2>2, NewSessionType, SessionSet DEF ReturnMemory, Goto, Dropped
<1>15. ASSUME NEW s \in Sessions, FetchPoolToShrink(s) PROVE TypeOK'
  <2>1. [session[s] EXCEPT !.pool = mempool[Device(s)], !.pc = "shrink"] \in SessionRecord
    BY <1>a, <1>b, NoObject, FreshObject DEF SessionRecord, SharedTypes, Pcs, Calls, Device
  <2>2. SharedTypes'
    BY <1>15, <1>a, <1>b, NoObject, FreshObject, FactoryAssumption DEF FetchPoolToShrink, SharedTypes
  <2> QED
    BY <1>15, <1>a, <2>1, <2>2, NewSessionType, SessionSet DEF FetchPoolToShrink, Goto, Dropped
<1>16. ASSUME NEW s \in Sessions, ShrinkPool(s) PROVE TypeOK'
  <2>1. [session[s] EXCEPT !.pool = 0, !.pc = "ready"] \in SessionRecord
    BY <1>a, <1>b, NoObject, FreshObject DEF SessionRecord, SharedTypes, Pcs, Calls, Device
  <2>2. SharedTypes'
    BY <1>16, <1>a, <1>b, NoObject, FreshObject, FactoryAssumption DEF ShrinkPool, SharedTypes
  <2> QED
    BY <1>16, <1>a, <2>1, <2>2, NewSessionType, SessionSet DEF ShrinkPool, Goto, Dropped
<1>17. ASSUME NEW s \in Sessions, ReleaseEp(s) PROVE TypeOK'
  BY <1>17, <1>a, <1>b, NewSessionType, SessionSet DEF ReleaseEp, Dropped, SharedTypes
<1>18. CASE UNCHANGED vars
  BY <1>18 DEF TypeOK, vars
<1> QED
  BY <1>1, <1>2, <1>3, <1>4, <1>5, <1>6, <1>7, <1>8, <1>9, <1>10, <1>11, <1>12, <1>13, <1>14,
     <1>15, <1>16, <1>17, <1>18 DEF Next, Setup, Call

(* Every variable of the factory and of its sessions keeps its type. *)
THEOREM TypeCorrect == Spec => []TypeOK
  BY InitTypes, TypesStep, PTL DEF Spec

-----------------------------------------------------------------------------
(* What holds of a session by itself.  While it holds the mutex between the  *)
(* locks of a creation, its device has no arena, so nobody else has come     *)
(* further than the start of its own creation; a session that runs has had   *)
(* its calls, so its device has an arena and CreateMempool cannot be under   *)
(* way; and one that does not run has no memory and no mempool in its hands. *)
Running(s) == session[s].pc \in {"ready", "allocate", "latch", "shrink"}
Creating(s) == At(s, "mempool") \/ At(s, "arena")

LockHeld(s) == Creating(s) => owner = s /\ arena[Device(s)] = 0
CallsDone(s) == Running(s) => session[s].todo = {}
QuietUntilReady(s) == ~Running(s) => session[s].pool = 0 /\ session[s].memory.from = "none"
ArenaThere(s) == "allocator" \notin session[s].todo => arena[Device(s)] # 0
ArenaValid(s) == session[s].arena \in {0, arena[Device(s)]}
AdapterValid(s) == session[s].adapter \in {0, adapter[Device(s)].self}
PoolValid(s) ==
  /\ session[s].pool \in {0, mempool[Device(s)]}
  /\ session[s].memory.from = "mempool" => session[s].memory.object = mempool[Device(s)]

Sound(s) == /\ LockHeld(s) /\ CallsDone(s) /\ QuietUntilReady(s) /\ ArenaThere(s)
            /\ ArenaValid(s) /\ AdapterValid(s) /\ PoolValid(s)
SharedInv == TypeOK /\ \A s \in Sessions : Sound(s)

LEMMA SoundIsValid == SharedInv => HandedOutStaysValid
  BY DEF SharedInv, Sound, ArenaValid, AdapterValid, PoolValid, HandedOutStaysValid

LEMMA NewIsSound ==
  ASSUME NEW s \in Sessions, \E d \in Devices : session[s] = NewSession(d)
  PROVE  Sound(s)
  BY FactoryAssumption DEF NewSession, Sound, LockHeld, CallsDone, QuietUntilReady, ArenaThere, ArenaValid,
     AdapterValid, PoolValid, Running, Creating, At, Calls

LEMMA BackToNew ==
  ASSUME NEW s \in Sessions, \E d \in Devices : session'[s] = NewSession(d)
  PROVE  Sound(s)'
  BY FactoryAssumption DEF NewSession, Sound, LockHeld, CallsDone, QuietUntilReady, ArenaThere, ArenaValid,
     AdapterValid, PoolValid, Running, Creating, At, Calls

LEMMA InitSound == Init => SharedInv
  BY InitTypes, NewIsSound DEF Init, SharedInv

\* A step of one session leaves the others sound if it leaves the objects alone.
LEMMA OthersSound ==
  ASSUME SharedInv, NEW s \in Sessions, NEW r, Set(s, r), UNCHANGED <<arena, mempool, adapter, owner>>,
         Sound(s)'
  PROVE  \A t \in Sessions : Sound(t)'
<1> SUFFICES ASSUME NEW t \in Sessions, t # s PROVE Sound(t)'
  OBVIOUS
<1>1. session'[t] = session[t]
  BY DEF SharedInv, TypeOK, Set
<1> QED
  BY <1>1 DEF SharedInv, Sound, LockHeld, CallsDone, QuietUntilReady, ArenaThere, ArenaValid,
     AdapterValid, PoolValid, Running, Creating, At, Device

\* The steps that leave the objects and the mutex alone.
LEMMA QuietStepsKeepSound ==
  ASSUME SharedInv, NEW s \in Sessions,
         \/ \E sync \in BOOLEAN : CreateEp(s, sync)
         \/ \E k \in LazyKinds : FindLazy(s, k) \/ StoreLazy(s, k)
         \/ Ready(s) \/ Call(s) \/ ReleaseEp(s)
  PROVE  \A t \in Sessions : Sound(t)'
<1> USE FactoryAssumption DEF SharedInv, Set, Goto
<1>a. session[s] \in SessionRecord /\ Device(s) \in Devices /\ Sound(s)
  BY DEF TypeOK, SessionRecord, Device
<1>1. ASSUME NEW sync \in BOOLEAN, CreateEp(s, sync) PROVE Sound(s)'
  BY <1>1, <1>a DEF CreateEp, TypeOK, SessionRecord, Sound, LockHeld, CallsDone,
     QuietUntilReady, ArenaThere, ArenaValid, AdapterValid, PoolValid, Running, Creating, At, Device
<1>2. ASSUME NEW k \in LazyKinds, FindLazy(s, k) PROVE Sound(s)'
  <2>a. \/ session'[s] = [session[s] EXCEPT !.lazy[k] = lazy[Slot(s, k)], !.todo = @ \ {k}]
        \/ session'[s] = [session[s] EXCEPT !.pc = k]
    BY <1>2, <1>a DEF FindLazy, TypeOK
  <2>1. /\ session'[s].device = session[s].device /\ session'[s].pool = session[s].pool
        /\ session'[s].memory = session[s].memory /\ session'[s].arena = session[s].arena
        /\ session'[s].adapter = session[s].adapter
    BY <2>a, <1>a DEF SessionRecord
  <2>b. session[s].pc = "setup"
    BY <1>2 DEF FindLazy, At
  <2>2. /\ session'[s].pc \in {"setup", k}
        /\ session'[s].todo \in {session[s].todo, session[s].todo \ {k}}
    BY <2>a, <2>b, <1>a DEF SessionRecord
  <2>3. k # "allocator" /\ ~Running(s)
    BY <1>2 DEF FindLazy, Running, At
  <2>4. UNCHANGED <<arena, mempool, adapter, owner>>
    BY <1>2 DEF FindLazy
  <2>5. ~Running(s)' /\ ~Creating(s)'
    BY <2>2 DEF Running, Creating, At
  <2> QED
    BY <1>a, <2>1, <2>2, <2>3, <2>4, <2>5 DEF Sound, LockHeld, CallsDone, QuietUntilReady, ArenaThere,
       ArenaValid, AdapterValid, PoolValid, Device
<1>3. ASSUME Ready(s) PROVE Sound(s)'
  BY <1>3, <1>a DEF Ready, TypeOK, SessionRecord, Sound, LockHeld, CallsDone,
     QuietUntilReady, ArenaThere, ArenaValid, AdapterValid, PoolValid, Running, Creating, At, Device
<1>4. ASSUME FetchPool(s) PROVE Sound(s)'
  BY <1>4, <1>a DEF FetchPool, GetActiveMempoolForDevice, TypeOK, SessionRecord, Sound, LockHeld, CallsDone,
     QuietUntilReady, ArenaThere, ArenaValid, AdapterValid, PoolValid, Running, Creating, At, Device
<1>5. ASSUME AllocateFromPool(s) PROVE Sound(s)'
  <2>a. \/ session'[s] = [session[s] EXCEPT !.memory = [from |-> "mempool", object |-> session[s].pool],
                                          !.pool = 0, !.pc = "ready"]
        \/ session'[s] = [session[s] EXCEPT !.pc = "latch"]
    BY <1>5, <1>a DEF AllocateFromPool, TypeOK
  <2>1. /\ session'[s].device = session[s].device /\ session'[s].todo = session[s].todo
        /\ session'[s].arena = session[s].arena /\ session'[s].adapter = session[s].adapter
        /\ session'[s].pc \in {"ready", "latch"} /\ session'[s].pool \in {0, session[s].pool}
    BY <2>a, <1>a DEF SessionRecord
  <2>2. \/ session'[s].memory = session[s].memory
        \/ session'[s].memory = [from |-> "mempool", object |-> session[s].pool]
    BY <2>a, <1>a DEF SessionRecord
  <2>3. Running(s) /\ (session[s].pool # 0) /\ UNCHANGED <<arena, mempool, adapter, owner>>
    BY <1>5 DEF AllocateFromPool, Running, At
  <2> QED
    BY <1>a, <2>1, <2>2, <2>3 DEF Sound, LockHeld, CallsDone,
       QuietUntilReady, ArenaThere, ArenaValid, AdapterValid, PoolValid, Running, Creating, At, Device
<1>6. ASSUME NoteAsyncMempoolFailure(s) PROVE Sound(s)'
  BY <1>6, <1>a DEF NoteAsyncMempoolFailure, TypeOK, SessionRecord, Sound, LockHeld, CallsDone,
     QuietUntilReady, ArenaThere, ArenaValid, AdapterValid, PoolValid, Running, Creating, At, Device
<1>7. ASSUME AllocateFromArena(s) PROVE Sound(s)'
  <2>a. \/ session'[s] = [session[s] EXCEPT !.memory = [from |-> "arena", object |-> session[s].arena],
                                          !.pc = "ready"]
        \/ session'[s] = [session[s] EXCEPT !.pc = "ready"]
    BY <1>7, <1>a DEF AllocateFromArena, TypeOK
  <2>1. /\ session'[s].device = session[s].device /\ session'[s].todo = session[s].todo
        /\ session'[s].arena = session[s].arena /\ session'[s].adapter = session[s].adapter
        /\ session'[s].pc \in {"ready", "latch"} /\ session'[s].pool \in {0, session[s].pool}
    BY <2>a, <1>a DEF SessionRecord
  <2>2. \/ session'[s].memory = session[s].memory
        \/ session'[s].memory = [from |-> "arena", object |-> session[s].arena]
    BY <2>a, <1>a DEF SessionRecord
  <2>3. Running(s) /\ (session[s].pool = 0) /\ UNCHANGED <<arena, mempool, adapter, owner>>
    BY <1>7 DEF AllocateFromArena, Running, At
  <2> QED
    BY <1>a, <2>1, <2>2, <2>3 DEF Sound, LockHeld, CallsDone,
       QuietUntilReady, ArenaThere, ArenaValid, AdapterValid, PoolValid, Running, Creating, At, Device
<1>8. ASSUME ReturnMemory(s) PROVE Sound(s)'
  BY <1>8, <1>a DEF ReturnMemory, TypeOK, SessionRecord, Sound, LockHeld, CallsDone,
     QuietUntilReady, ArenaThere, ArenaValid, AdapterValid, PoolValid, Running, Creating, At, Device
<1>9. ASSUME FetchPoolToShrink(s) PROVE Sound(s)'
  BY <1>9, <1>a DEF FetchPoolToShrink, TypeOK, SessionRecord, Sound, LockHeld, CallsDone,
     QuietUntilReady, ArenaThere, ArenaValid, AdapterValid, PoolValid, Running, Creating, At, Device
<1>10. ASSUME ShrinkPool(s) PROVE Sound(s)'
  BY <1>10, <1>a DEF ShrinkPool, TypeOK, SessionRecord, Sound, LockHeld, CallsDone,
     QuietUntilReady, ArenaThere, ArenaValid, AdapterValid, PoolValid, Running, Creating, At, Device
<1>11. ASSUME NEW k \in LazyKinds, StoreLazy(s, k) PROVE Sound(s)'
  <2>1. CASE Dropped(s)
    BY <2>1, <1>a, BackToNew DEF Dropped, TypeOK
  <2>2. CASE ~Dropped(s)
    <3>a. session'[s] = [session[s] EXCEPT !.lazy[k] = Fresh(k), !.todo = @ \ {k}, !.pc = "setup"]
      BY <1>11, <2>2, <1>a DEF StoreLazy, TypeOK
    <3>1. /\ session'[s].device = session[s].device /\ session'[s].pool = session[s].pool
          /\ session'[s].memory = session[s].memory /\ session'[s].arena = session[s].arena
          /\ session'[s].adapter = session[s].adapter /\ session'[s].pc = "setup"
          /\ session'[s].todo = session[s].todo \ {k}
      BY <3>a, <1>a DEF SessionRecord
    <3>2. k # "allocator" /\ ~Running(s) /\ UNCHANGED <<arena, mempool, adapter, owner>>
      BY <1>11 DEF StoreLazy, Running, At
    <3> QED
      BY <1>a, <3>1, <3>2 DEF Sound, LockHeld, CallsDone,
       QuietUntilReady, ArenaThere, ArenaValid, AdapterValid, PoolValid, Running, Creating, At, Device
  <2> QED
    BY <2>1, <2>2
<1>12. ASSUME ReleaseEp(s) PROVE Sound(s)'
  BY <1>12, <1>a, BackToNew DEF ReleaseEp, Dropped, TypeOK
<1>13. UNCHANGED <<arena, mempool, adapter, owner>> /\ \E r : Set(s, r)
  BY DEF CreateEp, FindLazy, StoreLazy, Ready, Call, ReleaseEp, Dropped, FetchPool, AllocateFromPool,
     NoteAsyncMempoolFailure, AllocateFromArena, ReturnMemory, FetchPoolToShrink, ShrinkPool
<1>14. Sound(s)'
  BY <1>1, <1>2, <1>3, <1>4, <1>5, <1>6, <1>7, <1>8, <1>9, <1>10, <1>11, <1>12 DEF Call
<1> QED
  BY <1>13, <1>14, OthersSound

\* An arena is stored where there was none, by the session that holds the mutex
\* or while nobody does.
LEMMA ArenaStoredKeepsOthers ==
  ASSUME SharedInv, NEW s \in Sessions, NEW r, Set(s, r), UNCHANGED <<mempool, adapter>>,
         (owner = NoSession /\ UNCHANGED owner) \/ owner = s,
         NEW n, arena' = [arena EXCEPT ![Device(s)] = n], n # 0, arena[Device(s)] = 0,
         NEW t \in Sessions, t # s
  PROVE  Sound(t)'
<1>1. session'[t] = session[t] /\ session[t] \in SessionRecord /\ ~Creating(t)
  BY FactoryAssumption DEF SharedInv, TypeOK, Set, Sound, LockHeld
<1>2. Device(t) \in Devices /\ Sound(t)
  BY <1>1 DEF SessionRecord, Device, SharedInv
<1>3. arena'[Device(t)] \in {n, arena[Device(t)]} /\ (Device(t) = Device(s) => arena'[Device(t)] = n)
  BY <1>2 DEF SharedInv, TypeOK
<1>4. Device(t)' = Device(t) /\ ~Creating(t)'
  BY <1>1 DEF Device, Creating, At
<1> QED
  BY <1>1, <1>2, <1>3, <1>4 DEF Sound, LockHeld, CallsDone, QuietUntilReady, ArenaThere, ArenaValid,
       AdapterValid, PoolValid, Running, Creating, At, Device

LEMMA GetArenaKeepsSound ==
  ASSUME SharedInv, NEW s \in Sessions, GetOrCreateDeviceArena(s)
  PROVE  \A t \in Sessions : Sound(t)'
<1> USE FactoryAssumption DEF SharedInv, Set, Goto
<1>a. session[s] \in SessionRecord /\ Device(s) \in Devices /\ Sound(s)
  BY DEF TypeOK, SessionRecord, Device
<1>b. owner = NoSession /\ session[s].pc = "adapter" /\ session[s].arena = 0
      /\ UNCHANGED <<mempool, adapter, owner>>
  BY DEF GetOrCreateDeviceArena, At
<1>1. CASE UNCHANGED arena
  <2>1. \E r : Set(s, r)
    BY DEF GetOrCreateDeviceArena
  <2>2. \/ session'[s] = [session[s] EXCEPT !.arena = arena[Device(s)]]
        \/ session'[s] = [session[s] EXCEPT !.pc = "setup"]
        \/ arena' = [arena EXCEPT ![Device(s)] = Fresh("arena")] /\ arena[Device(s)] = 0
    BY <1>a DEF GetOrCreateDeviceArena, TypeOK
  <2>3. Fresh("arena") # 0
    BY DEF TypeOK, Fresh, Kinds, Objects
  <2>4. \/ session'[s] = [session[s] EXCEPT !.arena = arena[Device(s)]]
        \/ session'[s] = [session[s] EXCEPT !.pc = "setup"]
    BY <1>1, <1>a, <2>2, <2>3 DEF TypeOK
  <2>5. Sound(s)'
    BY <1>1, <1>a, <1>b, <2>4 DEF SessionRecord, Sound, LockHeld, CallsDone, QuietUntilReady, ArenaThere, ArenaValid,
       AdapterValid, PoolValid, Running, Creating, At, Device
  <2> QED
    BY <1>1, <1>b, <2>1, <2>5, OthersSound
<1>2. CASE arena' # arena
  <2>1. /\ arena' = [arena EXCEPT ![Device(s)] = Fresh("arena")] /\ arena[Device(s)] = 0
        /\ Set(s, [session[s] EXCEPT !.arena = Fresh("arena")])
    BY <1>2 DEF GetOrCreateDeviceArena
  <2>2. Fresh("arena") # 0
    BY DEF TypeOK, Fresh, Kinds, Objects
  <2>3. /\ session'[s] = [session[s] EXCEPT !.arena = Fresh("arena")]
        /\ arena'[Device(s)] = Fresh("arena")
    BY <1>a, <2>1 DEF TypeOK
  <2>4. Sound(s)'
    BY <1>a, <1>b, <2>2, <2>3 DEF SessionRecord, Sound, LockHeld, CallsDone, QuietUntilReady, ArenaThere, ArenaValid,
       AdapterValid, PoolValid, Running, Creating, At, Device
  <2>5. \A t \in Sessions : t # s => Sound(t)'
    BY <1>b, <2>1, <2>2, ArenaStoredKeepsOthers
  <2> QED
    BY <2>4, <2>5
<1> QED
  BY <1>1, <1>2

LEMMA GetAdapterKeepsSound ==
  ASSUME SharedInv, NEW s \in Sessions, GetOrCreateSyncGpuAllocator(s)
  PROVE  \A t \in Sessions : Sound(t)'
<1> USE FactoryAssumption DEF SharedInv, Set
<1>a. \A t \in Sessions : session[t] \in SessionRecord /\ Device(t) \in Devices /\ Sound(t)
  BY DEF TypeOK, SessionRecord, Device
<1> DEFINE self == IF adapter[Device(s)].self # 0 THEN adapter[Device(s)].self ELSE Fresh("adapter")
<1>1. /\ session' = [session EXCEPT ![s] =
                       [session[s] EXCEPT !.adapter = self, !.arena = 0, !.pc = "setup"]]
      /\ session[s].pc = "adapter" /\ UNCHANGED <<arena, mempool, owner>>
      /\ IF adapter[Device(s)].self # 0 THEN UNCHANGED adapter
         ELSE adapter' = [adapter EXCEPT ![Device(s)] = [self |-> self, arena |-> session[s].arena]]
  BY DEF GetOrCreateSyncGpuAllocator, At
<1>2. \A t \in Sessions : adapter'[Device(t)].self
                             \in {self, adapter[Device(t)].self} /\
                           (Device(t) = Device(s) => adapter'[Device(t)].self = self)
  BY <1>a, <1>1 DEF TypeOK
<1>3. \A t \in Sessions : Device(t) # Device(s) => adapter'[Device(t)] = adapter[Device(t)]
  BY <1>a, <1>1 DEF TypeOK
<1>4. session'[s] = [session[s] EXCEPT !.adapter = self, !.arena = 0, !.pc = "setup"]
  BY <1>a, <1>1 DEF TypeOK
<1>5. Sound(s)'
  BY <1>a, <1>1, <1>2, <1>4 DEF SessionRecord, Sound, LockHeld, CallsDone, QuietUntilReady, ArenaThere, ArenaValid,
       AdapterValid, PoolValid, Running, Creating, At, Device
<1>6. ASSUME NEW t \in Sessions, t # s PROVE Sound(t)'
  <2>1. session'[t] = session[t]
    BY <1>1, <1>6 DEF TypeOK
  <2>2. session[t].adapter \in {0, adapter'[Device(t)].self}
    BY <1>a, <1>2, <1>3 DEF Sound, AdapterValid
  <2> QED
    BY <1>a, <1>1, <2>1, <2>2, ZenonT(40) DEF Sound, LockHeld, CallsDone, QuietUntilReady, ArenaThere, ArenaValid,
       AdapterValid, PoolValid, Running, Creating, At, Device
<1> QED
  BY <1>5, <1>6

\* The mutex changes hands, and a mempool is replaced where there is no arena
\* yet, so that nobody has come to use one.
LEMMA PoolStoredKeepsOthers ==
  ASSUME SharedInv, NEW s \in Sessions, NEW r, Set(s, r), UNCHANGED <<arena, adapter>>,
         owner = NoSession \/ owner = s, 
         NEW n, \/ UNCHANGED mempool
                \/ mempool' = [mempool EXCEPT ![Device(s)] = n] /\ arena[Device(s)] = 0,
         NEW t \in Sessions, t # s
  PROVE  Sound(t)'
<1>1. session'[t] = session[t] /\ session[t] \in SessionRecord /\ ~Creating(t)
  BY FactoryAssumption DEF SharedInv, TypeOK, Set, Sound, LockHeld
<1>2. Device(t) \in Devices /\ Sound(t)
  BY <1>1 DEF SessionRecord, Device, SharedInv
<1>3. Device(t)' = Device(t) /\ ~Creating(t)'
  BY <1>1 DEF Device, Creating, At
<1>4. PoolValid(t)'
  <2>1. CASE mempool'[Device(t)] = mempool[Device(t)]
    BY <1>1, <1>2, <1>3, <2>1 DEF Sound, PoolValid
  <2>2. CASE arena[Device(t)] = 0
    <3>1. ~Running(t)
      BY <1>2, <2>2 DEF Sound, CallsDone, ArenaThere
    <3> QED
      BY <1>1, <1>2, <3>1 DEF Sound, QuietUntilReady, PoolValid
  <2> QED
    BY <1>2, <2>1, <2>2 DEF SharedInv, TypeOK
<1> QED
  BY <1>1, <1>2, <1>3, <1>4 DEF Sound, LockHeld, CallsDone, QuietUntilReady, ArenaThere, ArenaValid,
       AdapterValid, Running, Creating, At, Device

LEMMA CreateAllocatorKeepsSound ==
  ASSUME SharedInv, NEW s \in Sessions, CreateAllocator(s)
  PROVE  \A t \in Sessions : Sound(t)'
<1> USE FactoryAssumption DEF SharedInv, Set, Goto
<1>a. session[s] \in SessionRecord /\ Device(s) \in Devices /\ Sound(s)
  BY DEF TypeOK, SessionRecord, Device
<1>b. owner = NoSession /\ session[s].pc = "setup" /\ UNCHANGED <<arena, mempool, adapter>>
  BY DEF CreateAllocator, At
<1>1. \/ /\ session'[s] = [session[s] EXCEPT !.arena = arena[Device(s)], !.todo = @ \ {"allocator"}]
         /\ arena[Device(s)] # 0 /\ UNCHANGED owner
      \/ /\ session'[s] = [session[s] EXCEPT !.pc = "mempool"]
         /\ arena[Device(s)] = 0 /\ owner' = s
  BY <1>a DEF CreateAllocator, TypeOK
<1>2. Sound(s)'
  <2>1. CASE arena[Device(s)] # 0
    <3>1. /\ session'[s].device = session[s].device /\ session'[s].pool = session[s].pool
          /\ session'[s].memory = session[s].memory /\ session'[s].arena = arena[Device(s)]
          /\ session'[s].adapter = session[s].adapter /\ session'[s].pc = "setup"
      BY <1>a, <1>b, <1>1, <2>1 DEF SessionRecord
    <3> QED
      BY <1>a, <1>b, <2>1, <3>1 DEF Sound, LockHeld, CallsDone, QuietUntilReady, ArenaThere, ArenaValid,
         AdapterValid, PoolValid, Running, Creating, At, Device
  <2>2. CASE arena[Device(s)] = 0
    BY <1>a, <1>b, <1>1, <2>2 DEF SessionRecord, Sound, LockHeld, CallsDone, QuietUntilReady, ArenaThere,
       ArenaValid, AdapterValid, PoolValid, Running, Creating, At, Device
  <2> QED
    BY <2>1, <2>2
<1>3. \E r : Set(s, r)
  BY DEF CreateAllocator
<1>4. \A t \in Sessions : t # s => Sound(t)'
  BY <1>b, <1>3, PoolStoredKeepsOthers
<1> QED
  BY <1>2, <1>4

LEMMA CreateMempoolKeepsSound ==
  ASSUME SharedInv, NEW s \in Sessions, CreateMempool(s)
  PROVE  \A t \in Sessions : Sound(t)'
<1> USE FactoryAssumption DEF SharedInv, Set, Goto
<1>a. session[s] \in SessionRecord /\ Device(s) \in Devices /\ Sound(s)
  BY DEF TypeOK, SessionRecord, Device
<1>b. /\ owner = s /\ session[s].pc = "mempool" /\ UNCHANGED <<arena, adapter>>
      /\ arena[Device(s)] = 0
  BY <1>a DEF CreateMempool, At, Sound, LockHeld, Creating
<1>1. \/ session'[s] = NewSession(Device(s))
      \/ session'[s] = [session[s] EXCEPT !.pc = "arena"] /\ UNCHANGED owner
  BY <1>a DEF CreateMempool, TypeOK, Dropped
<1>c. \/ UNCHANGED mempool
      \/ mempool' = [mempool EXCEPT ![Device(s)] = Fresh("mempool")]
  BY DEF CreateMempool
<1>2. Sound(s)'
  <2>1. CASE session'[s] = NewSession(Device(s))
    BY <1>a, <2>1, BackToNew
  <2>2. CASE session'[s] = [session[s] EXCEPT !.pc = "arena"] /\ UNCHANGED owner
    <3>1. session[s].pool = 0 /\ session[s].memory.from = "none" /\ "none" # "mempool"
      BY <1>a, <1>b DEF Sound, QuietUntilReady, Running
    <3> QED
      BY <1>a, <1>b, <2>2, <3>1 DEF SessionRecord, Sound, LockHeld, CallsDone, QuietUntilReady, ArenaThere,
         ArenaValid, AdapterValid, PoolValid, Running, Creating, At, Device
  <2> QED
    BY <1>1, <2>1, <2>2
<1>3. \E r : Set(s, r)
  BY DEF CreateMempool, Dropped
<1>4. \A t \in Sessions : t # s => Sound(t)'
  BY <1>b, <1>c, <1>3, PoolStoredKeepsOthers
<1> QED
  BY <1>2, <1>4

LEMMA CreateArenaKeepsSound ==
  ASSUME SharedInv, NEW s \in Sessions, CreateArena(s)
  PROVE  \A t \in Sessions : Sound(t)'
<1> USE FactoryAssumption DEF SharedInv, Set, Goto
<1>a. session[s] \in SessionRecord /\ Device(s) \in Devices /\ Sound(s)
  BY DEF TypeOK, SessionRecord, Device
<1>b. /\ owner = s /\ session[s].pc = "arena" /\ UNCHANGED <<mempool, adapter>>
      /\ arena[Device(s)] = 0
  BY <1>a DEF CreateArena, At, Sound, LockHeld, Creating
<1>1. \E r : Set(s, r)
  BY DEF CreateArena, Dropped
<1>2. CASE Dropped(s) /\ UNCHANGED arena
  <2>1. Sound(s)'
    BY <1>a, <1>2, BackToNew DEF Dropped, TypeOK
  <2>2. \A t \in Sessions : t # s => Sound(t)'
    BY <1>b, <1>1, <1>2, PoolStoredKeepsOthers
  <2> QED
    BY <2>1, <2>2
<1>3. CASE ~(Dropped(s) /\ UNCHANGED arena)
  <2>1. /\ session' = [session EXCEPT ![s] = [session[s] EXCEPT !.arena = Fresh("arena"), !.pc = "setup",
                                            !.todo = @ \ {"allocator"}]]
        /\ arena' = [arena EXCEPT ![Device(s)] = Fresh("arena")]
    BY <1>3 DEF CreateArena
  <2>2. Fresh("arena") # 0
    BY DEF TypeOK, Fresh, Kinds, Objects
  <2>3. /\ session'[s] = [session[s] EXCEPT !.arena = Fresh("arena"), !.pc = "setup",
                                            !.todo = @ \ {"allocator"}]
        /\ arena'[Device(s)] = Fresh("arena")
    BY <1>a, <2>1 DEF TypeOK
  <2>4. Sound(s)'
    BY <1>a, <1>b, <2>2, <2>3 DEF SessionRecord, Sound, LockHeld, CallsDone, QuietUntilReady, ArenaThere,
       ArenaValid, AdapterValid, PoolValid, Running, Creating, At, Device
  <2>5. \A t \in Sessions : t # s => Sound(t)'
    BY <1>b, <1>1, <2>1, <2>2, ArenaStoredKeepsOthers
  <2> QED
    BY <2>4, <2>5
<1> QED
  BY <1>2, <1>3

LEMMA SoundStep == SharedInv /\ [Next]_vars => SharedInv'
<1> SUFFICES ASSUME SharedInv, [Next]_vars PROVE SharedInv'
  OBVIOUS
<1>1. TypeOK'
  BY TypesStep DEF SharedInv
<1>2. CASE UNCHANGED vars
  BY <1>1, <1>2 DEF vars, SharedInv, Sound, LockHeld, CallsDone, QuietUntilReady, ArenaThere, ArenaValid,
       AdapterValid, PoolValid, Running, Creating, At, Device
<1>3. ASSUME NEW s \in Sessions, Setup(s) \/ Call(s) \/ ReleaseEp(s) PROVE \A t \in Sessions : Sound(t)'
  BY <1>3, QuietStepsKeepSound, GetArenaKeepsSound, GetAdapterKeepsSound, CreateAllocatorKeepsSound,
     CreateMempoolKeepsSound, CreateArenaKeepsSound DEF Setup
<1> QED
  BY <1>1, <1>2, <1>3 DEF Next, SharedInv

LEMMA AlwaysSound == Spec => []SharedInv
  BY InitSound, SoundStep, PTL DEF Spec

(* No session ever uses an object of the factory that another session's call *)
(* has destroyed: the mutex covers the whole creation of an arena, and a     *)
(* mempool is only replaced while no session of the device has finished its  *)
(* own setup.                                                                *)
THEOREM HandedOutValid == Spec => []HandedOutStaysValid
  BY AlwaysSound, SoundIsValid, PTL

-----------------------------------------------------------------------------
(* What a session that asked for synchronous allocation holds, and what the  *)
(* adapter of a device borrows. The mempool pointer of a compute call is the *)
(* one that matters: ShrinkPool holds one too, and allocates nothing with it.*)
Synchronous(s) ==
  /\ At(s, "new") => session[s].adapter = 0
  /\ At(s, "adapter") => session[s].sync /\ session[s].adapter = 0
  /\ UsesAdapter(s) =>
       /\ session[s].sync /\ session[s].memory.from # "mempool"
       /\ At(s, "allocate") \/ At(s, "latch") => session[s].pool = 0

Borrowed(d) == adapter[d].self # 0 => adapter[d].arena = arena[d] /\ arena[d] # 0

SyncInv == /\ SharedInv
           /\ \A s \in Sessions : Synchronous(s)
           /\ \A d \in Devices : Borrowed(d)

LEMMA SyncIsSynchronous == SyncInv => SyncStaysSynchronous
<1> SUFFICES ASSUME SyncInv, NEW s \in Sessions, UsesAdapter(s)
             PROVE  /\ session[s].sync
                    /\ session[s].memory.from # "mempool"
                    /\ adapter[Device(s)].arena = arena[Device(s)]
  BY DEF SyncStaysSynchronous
<1>1. Device(s) \in Devices /\ AdapterValid(s)
  BY DEF SyncInv, SharedInv, Sound, TypeOK, SessionRecord, Device
<1> QED
  BY <1>1 DEF SyncInv, Synchronous, Borrowed, AdapterValid, UsesAdapter

LEMMA InitSynchronous == Init => SyncInv
<1> SUFFICES ASSUME Init PROVE SyncInv
  OBVIOUS
<1>1. \A d \in Devices : Borrowed(d)
  BY DEF Init, NoAdapter, Borrowed
<1>2. ASSUME NEW s \in Sessions PROVE Synchronous(s)
  BY DEF Init, NewSession, Synchronous, UsesAdapter, At
<1> QED
  BY <1>1, <1>2, InitSound DEF SyncInv

LEMMA NewIsSynchronous ==
  ASSUME NEW s \in Sessions, \E d : session'[s] = NewSession(d)
  PROVE  Synchronous(s)'
  BY DEF NewSession, Synchronous, UsesAdapter, At

LEMMA StepKeepsSynchronous ==
  ASSUME SyncInv, NEW s \in Sessions, Setup(s) \/ Call(s) \/ ReleaseEp(s)
  PROVE  Synchronous(s)'
<1> USE FactoryAssumption DEF SyncInv, SharedInv, Set, Goto
<1>a. session[s] \in SessionRecord /\ Device(s) \in Devices /\ Synchronous(s) /\ Sound(s)
  BY DEF TypeOK, SessionRecord, Device
<1>b. Dropped(s) => Synchronous(s)'
  BY <1>a, NewIsSynchronous DEF Dropped, TypeOK
<1>1. ASSUME NEW sync \in BOOLEAN, CreateEp(s, sync) PROVE Synchronous(s)'
  BY <1>1, <1>a DEF CreateEp, TypeOK, SessionRecord, Synchronous, UsesAdapter, At
<1>2. ASSUME GetOrCreateDeviceArena(s) PROVE Synchronous(s)'
  <2>1. \/ session'[s] = [session[s] EXCEPT !.pc = "setup"]
        \/ session'[s] = [session[s] EXCEPT !.arena = arena[Device(s)]]
        \/ session'[s] = [session[s] EXCEPT !.arena = Fresh("arena")]
    BY <1>2, <1>a DEF GetOrCreateDeviceArena, TypeOK
  <2> QED
    BY <1>a, <2>1 DEF SessionRecord, Synchronous, UsesAdapter, At
<1>3. ASSUME GetOrCreateSyncGpuAllocator(s) PROVE Synchronous(s)'
  <2>1. \E a : session'[s] = [session[s] EXCEPT !.adapter = a, !.arena = 0, !.pc = "setup"]
    BY <1>3, <1>a DEF GetOrCreateSyncGpuAllocator, TypeOK
  <2>2. session[s].sync /\ session[s].memory.from = "none"
    BY <1>3, <1>a DEF GetOrCreateSyncGpuAllocator, At, Synchronous, Sound, QuietUntilReady, Running
  <2> QED
    BY <1>a, <2>1, <2>2 DEF SessionRecord, Synchronous, UsesAdapter, At
<1>4. ASSUME CreateAllocator(s) PROVE Synchronous(s)'
  <2>1. \/ session'[s] = [session[s] EXCEPT !.pc = "mempool"]
        \/ session'[s] = [session[s] EXCEPT !.arena = arena[Device(s)], !.todo = @ \ {"allocator"}]
    BY <1>4, <1>a DEF CreateAllocator, TypeOK
  <2>2. /\ session'[s].adapter = session[s].adapter /\ session'[s].sync = session[s].sync
        /\ session'[s].memory = session[s].memory /\ session'[s].pool = session[s].pool
        /\ session'[s].pc \in {"mempool", session[s].pc}
    BY <1>a, <2>1 DEF SessionRecord
  <2> QED
    BY <1>a, <2>2 DEF Synchronous, UsesAdapter, At
<1>5. ASSUME CreateMempool(s) PROVE Synchronous(s)'
  <2>1. session'[s] = [session[s] EXCEPT !.pc = "arena"] \/ Dropped(s)
    BY <1>5, <1>a DEF CreateMempool, TypeOK
  <2> QED
    BY <1>a, <1>b, <2>1 DEF SessionRecord, Synchronous, UsesAdapter, At
<1>6. ASSUME CreateArena(s) PROVE Synchronous(s)'
  <2>1. \/ Dropped(s)
        \/ session'[s] = [session[s] EXCEPT !.arena = Fresh("arena"), !.pc = "setup",
                                            !.todo = @ \ {"allocator"}]
    BY <1>6, <1>a DEF CreateArena, TypeOK
  <2>2. ASSUME ~Dropped(s)
        PROVE  /\ session'[s].adapter = session[s].adapter /\ session'[s].sync = session[s].sync
               /\ session'[s].memory = session[s].memory /\ session'[s].pc = "setup"
    BY <1>a, <2>1, <2>2 DEF SessionRecord
  <2> QED
    BY <1>a, <1>b, <2>2 DEF Synchronous, UsesAdapter, At
<1>7. ASSUME NEW k \in LazyKinds, FindLazy(s, k) PROVE Synchronous(s)'
  <2>1. \/ session'[s] = [session[s] EXCEPT !.pc = k]
        \/ session'[s] = [session[s] EXCEPT !.lazy[k] = lazy[Slot(s, k)], !.todo = @ \ {k}]
    BY <1>7, <1>a DEF FindLazy, TypeOK
  <2>2. k \notin {"new", "adapter", "allocate", "latch"}
    OBVIOUS
  <2>3. /\ session'[s].adapter = session[s].adapter /\ session'[s].sync = session[s].sync
        /\ session'[s].memory = session[s].memory /\ session'[s].pool = session[s].pool
        /\ session'[s].pc \in {k, session[s].pc}
    BY <1>a, <2>1 DEF SessionRecord
  <2> QED
    BY <1>a, <2>2, <2>3 DEF Synchronous, UsesAdapter, At
<1>8. ASSUME NEW k \in LazyKinds, StoreLazy(s, k) PROVE Synchronous(s)'
  <2>1. \/ Dropped(s)
        \/ session'[s] = [session[s] EXCEPT !.lazy[k] = Fresh(k), !.todo = @ \ {k}, !.pc = "setup"]
    BY <1>8, <1>a DEF StoreLazy, TypeOK
  <2>2. ASSUME ~Dropped(s)
        PROVE  /\ session'[s].adapter = session[s].adapter /\ session'[s].sync = session[s].sync
               /\ session'[s].memory = session[s].memory /\ session'[s].pc = "setup"
    BY <1>a, <2>1, <2>2 DEF SessionRecord
  <2> QED
    BY <1>a, <1>b, <2>2 DEF Synchronous, UsesAdapter, At
<1>9. ASSUME Ready(s) PROVE Synchronous(s)'
  BY <1>9, <1>a DEF Ready, TypeOK, SessionRecord, Synchronous, UsesAdapter, At
<1>10. ASSUME FetchPool(s) PROVE Synchronous(s)'
  BY <1>10, <1>a DEF FetchPool, TypeOK, SessionRecord, Synchronous, UsesAdapter, At
<1>11. ASSUME AllocateFromPool(s) PROVE Synchronous(s)'
  <2>1. \/ session'[s] = [session[s] EXCEPT !.memory = [from |-> "mempool", object |-> session[s].pool],
                                          !.pool = 0, !.pc = "ready"]
        \/ session'[s] = [session[s] EXCEPT !.pc = "latch"]
    BY <1>11, <1>a DEF AllocateFromPool, TypeOK
  <2>2. ~UsesAdapter(s)
    BY <1>11, <1>a DEF AllocateFromPool, Synchronous
  <2>3. session'[s].adapter = session[s].adapter /\ session'[s].pc \in {"ready", "latch"}
    BY <1>a, <2>1 DEF SessionRecord
  <2> QED
    BY <2>2, <2>3 DEF Synchronous, UsesAdapter, At
<1>12. ASSUME NoteAsyncMempoolFailure(s) PROVE Synchronous(s)'
  BY <1>12, <1>a DEF NoteAsyncMempoolFailure, TypeOK, SessionRecord, Synchronous, UsesAdapter, At
<1>13. ASSUME AllocateFromArena(s) PROVE Synchronous(s)'
  <2>1. \/ session'[s] = [session[s] EXCEPT !.memory = [from |-> "arena", object |-> session[s].arena],
                                          !.pc = "ready"]
        \/ session'[s] = [session[s] EXCEPT !.pc = "ready"]
    BY <1>13, <1>a DEF AllocateFromArena, TypeOK
  <2>2. /\ session'[s].adapter = session[s].adapter /\ session'[s].sync = session[s].sync
        /\ session'[s].pc = "ready"
        /\ \/ session'[s].memory = session[s].memory
           \/ session'[s].memory = [from |-> "arena", object |-> session[s].arena]
    BY <1>a, <2>1 DEF SessionRecord
  <2> QED
    BY <1>a, <2>2 DEF Synchronous, UsesAdapter, At
<1>14. ASSUME ReturnMemory(s) PROVE Synchronous(s)'
  BY <1>14, <1>a DEF ReturnMemory, TypeOK, SessionRecord, Synchronous, UsesAdapter, At
<1>15. ASSUME FetchPoolToShrink(s) PROVE Synchronous(s)'
  BY <1>15, <1>a DEF FetchPoolToShrink, TypeOK, SessionRecord, Synchronous, UsesAdapter, At
<1>16. ASSUME ShrinkPool(s) PROVE Synchronous(s)'
  BY <1>16, <1>a DEF ShrinkPool, TypeOK, SessionRecord, Synchronous, UsesAdapter, At
<1>17. ASSUME ReleaseEp(s) PROVE Synchronous(s)'
  BY <1>17, <1>b DEF ReleaseEp
<1> QED
  BY <1>1, <1>2, <1>3, <1>4, <1>5, <1>6, <1>7, <1>8, <1>9, <1>10, <1>11, <1>12, <1>13, <1>14,
     <1>15, <1>16, <1>17 DEF Setup, Call

\* An adapter borrows the arena its maker just got, which is never replaced.
LEMMA StepKeepsBorrowed ==
  ASSUME SyncInv, NEW s \in Sessions, Setup(s) \/ Call(s) \/ ReleaseEp(s), NEW d \in Devices
  PROVE  Borrowed(d)'
<1> USE FactoryAssumption DEF SyncInv, SharedInv
<1>a. session[s] \in SessionRecord /\ Device(s) \in Devices /\ Borrowed(d) /\ Sound(s)
  BY DEF TypeOK, SessionRecord, Device
<1>1. CASE UNCHANGED <<arena, adapter>>
  BY <1>1, <1>a DEF Borrowed
<1>2. CASE GetOrCreateDeviceArena(s) \/ CreateArena(s)
  <2>1. UNCHANGED adapter /\ \/ UNCHANGED arena
                             \/ arena[Device(s)] = 0 /\ \E n : arena' = [arena EXCEPT ![Device(s)] = n]
    BY <1>2, <1>a DEF GetOrCreateDeviceArena, CreateArena, Sound, LockHeld, Creating
  <2> QED
    BY <1>a, <2>1 DEF Borrowed, TypeOK
<1>3. CASE GetOrCreateSyncGpuAllocator(s)
  <2>1. /\ UNCHANGED arena /\ session[s].arena # 0
        /\ \/ UNCHANGED adapter
           \/ \E n : adapter' = [adapter EXCEPT ![Device(s)] = [self |-> n, arena |-> session[s].arena]]
    BY <1>3 DEF GetOrCreateSyncGpuAllocator
  <2>2. session[s].arena = arena[Device(s)]
    BY <1>a, <2>1 DEF Sound, ArenaValid
  <2> QED
    BY <1>a, <2>1, <2>2 DEF Borrowed, TypeOK
<1> QED
  BY <1>1, <1>2, <1>3 DEF Setup, CreateEp, CreateAllocator, CreateMempool, FindLazy, StoreLazy, Ready,
     Call, FetchPool, AllocateFromPool, NoteAsyncMempoolFailure, AllocateFromArena, ReturnMemory,
     FetchPoolToShrink, ShrinkPool, ReleaseEp

\* A step changes the session of its thread alone.
LEMMA OthersUnchanged ==
  ASSUME TypeOK, NEW s \in Sessions, Setup(s) \/ Call(s) \/ ReleaseEp(s), NEW t \in Sessions, t # s
  PROVE  session'[t] = session[t]
<1>1. \E r : session' = [session EXCEPT ![s] = r]
  BY DEF Setup, CreateEp, GetOrCreateDeviceArena, GetOrCreateSyncGpuAllocator, CreateAllocator,
     CreateMempool, CreateArena, FindLazy, StoreLazy, Ready, Call, FetchPool, AllocateFromPool,
     NoteAsyncMempoolFailure, AllocateFromArena, ReturnMemory, FetchPoolToShrink, ShrinkPool, ReleaseEp,
     Set, Goto, Dropped
<1> QED
  BY <1>1 DEF TypeOK

LEMMA SyncStep == SyncInv /\ [Next]_vars => SyncInv'
<1> SUFFICES ASSUME SyncInv, [Next]_vars PROVE SyncInv'
  OBVIOUS
<1>1. SharedInv'
  BY SoundStep DEF SyncInv
<1>2. CASE UNCHANGED vars
  BY <1>1, <1>2 DEF vars, SyncInv, Synchronous, Borrowed, UsesAdapter, At
<1>3. ASSUME NEW s \in Sessions, Setup(s) \/ Call(s) \/ ReleaseEp(s), NEW t \in Sessions
      PROVE  Synchronous(t)'
  <2>1. CASE t = s
    BY <1>3, <2>1, StepKeepsSynchronous
  <2>2. CASE t # s
    BY <1>3, <2>2, OthersUnchanged DEF SyncInv, SharedInv, Synchronous, UsesAdapter, At
  <2> QED
    BY <2>1, <2>2
<1> QED
  BY <1>1, <1>2, <1>3, StepKeepsBorrowed DEF Next, SyncInv

LEMMA AlwaysSynchronous == Spec => []SyncInv
  BY InitSynchronous, SyncStep, PTL DEF Spec

(* A session that has the synchronous adapter gets none of its context       *)
(* memory from a mempool, though other sessions of the device may have made  *)
(* one, and its adapter borrows the one arena of the device.                 *)
THEOREM SyncStays == Spec => []SyncStaysSynchronous
  BY AlwaysSynchronous, SyncIsSynchronous, PTL

-----------------------------------------------------------------------------
\* What a session's graphs may be.
GraphRecord ==
  [count : [Ids -> Nat], captured : SUBSET Ids, capturing : Ids \cup {Skip}, regular : Nat]

\* The run that binds counts for the session and not for the id: until the
\* session has had MinRuns regular runs, it has had one more than any id.
Warm(g) ==
  /\ \A id \in Ids : g.regular >= MinRuns \/ g.regular > g.count[id] \/ (g.regular = 0 /\ g.count[id] = 0)
  /\ g.capturing # Skip => g.regular >= MinRuns /\ g.count[g.capturing] >= MinRuns
  /\ \A id \in g.captured : g.count[id] >= MinRuns

GraphInv == /\ graph \in [GraphSessions -> GraphRecord]
            /\ \A s \in GraphSessions : Warm(graph[s])

LEMMA NewGraphIsWarm == NewGraph \in GraphRecord /\ Warm(NewGraph)
  BY CudaGraphAssumption DEF NewGraph, GraphRecord, Warm

LEMMA InitGraphs == GraphInit => GraphInv
  BY NewGraphIsWarm DEF GraphInit, GraphInv

LEMMA GraphSet ==
  ASSUME GraphInv, NEW s \in GraphSessions, NEW g \in GraphRecord, Warm(g), SetGraph(s, g)
  PROVE  GraphInv'
  BY DEF GraphInv, SetGraph

LEMMA RanRegularly ==
  ASSUME NEW g \in GraphRecord
  PROVE  /\ Ran(g) = [g EXCEPT !.regular = Ran(g).regular]
         /\ Ran(g).regular \in Nat /\ (Ran(g).regular > g.regular \/ Ran(g).regular >= MinRuns)
         /\ Ran(g) \in GraphRecord
  BY CudaGraphAssumption DEF Ran, GraphRecord, AtMost

LEMMA RunKeepsWarm ==
  ASSUME GraphInv, NEW s \in GraphSessions, NEW id \in Ids \cup {Skip}, HandleCudaGraphStart(s, id)
  PROVE  GraphInv'
<1> DEFINE g == graph[s]
           r == Ran(g).regular
<1>a. g \in GraphRecord /\ Warm(g) /\ g.capturing = Skip
  BY DEF GraphInv, HandleCudaGraphStart
<1>b. r \in Nat /\ (r > g.regular \/ r >= MinRuns) /\ Ran(g) = [g EXCEPT !.regular = r]
  BY <1>a, RanRegularly
<1>c. Skip \notin Ids /\ MinRuns \in Nat /\ MinRuns > 0
  BY CudaGraphAssumption
<1> HIDE DEF r
<1>1. CASE Rebind(s, id)
  <2> DEFINE c == IF id = Skip THEN g.count ELSE [g.count EXCEPT ![id] = 0]
             k == IF IsGraphCaptured(s, id) THEN {} ELSE g.captured
             h == [g EXCEPT !.regular = r, !.count = c, !.captured = k]
  <2>1. SetGraph(s, h)
    BY <1>1, <1>a, <1>b DEF Rebind, GraphRecord
  <2>2. c \in [Ids -> Nat] /\ \A i \in Ids : c[i] = (IF i = id THEN 0 ELSE g.count[i])
    BY <1>a, <1>c DEF GraphRecord
  <2>3. k \in SUBSET Ids /\ k \subseteq g.captured /\ id \notin k
    BY <1>a, <1>c DEF GraphRecord, IsGraphCaptured
  <2> HIDE DEF c, k
  <2>4. /\ h \in GraphRecord /\ h.count = c /\ h.captured = k /\ h.regular = r
        /\ h.capturing = g.capturing
    BY <1>a, <1>b, <2>2, <2>3 DEF GraphRecord
  <2> HIDE DEF h
  <2>5. Warm(h)
    BY <1>a, <1>b, <1>c, <2>2, <2>3, <2>4 DEF GraphRecord, Warm
  <2> QED
    BY <2>1, <2>4, <2>5, GraphSet
<1>2. CASE g.regular > 0 /\ Capture(s, id)
  <2>1. id \in Ids /\ g.count[id] + 1 >= MinRuns
    BY <1>2 DEF Capture, IsGraphCaptureAllowed
  <2> DEFINE c == Counted(s, id)
             h == [g EXCEPT !.count = c, !.captured = {}, !.capturing = id]
  <2>2. SetGraph(s, h)
    BY <1>2, <1>a DEF Capture, GraphRecord
  <2>3. c \in [Ids -> Nat] /\ c[id] = MinRuns /\ \A i \in Ids : i # id => c[i] = g.count[i]
    BY <1>a, <1>c, <2>1 DEF GraphRecord, AtMost, Counted
  <2>4. g.regular >= MinRuns
    BY <1>a, <1>c, <1>2, <2>1 DEF Warm, GraphRecord
  <2> HIDE DEF c
  <2>5. /\ h \in GraphRecord /\ h.count = c /\ h.captured = {} /\ h.capturing = id
        /\ h.regular = g.regular
    BY <1>a, <2>1, <2>3 DEF GraphRecord
  <2> HIDE DEF h
  <2>6. h.regular >= MinRuns /\ h.count[id] >= MinRuns
    BY <1>c, <2>3, <2>4, <2>5
  <2>7. Warm(h)
    BY <2>5, <2>6 DEF Warm
  <2> QED
    BY <2>2, <2>5, <2>7, GraphSet
<1>3. CASE g.regular > 0 /\ RunRegularly(s, id)
  <2> DEFINE c == Counted(s, id)
             h == [g EXCEPT !.regular = r, !.count = c]
  <2>a. Ran(g).count = g.count
    BY <1>a, <1>b DEF GraphRecord
  <2>b. h = [Ran(g) EXCEPT !.count = c]
    BY <1>a, <1>b DEF GraphRecord
  <2>1. SetGraph(s, h)
    BY <1>3, <2>a, <2>b DEF RunRegularly
  <2>2. c \in [Ids -> Nat] /\ \A i \in Ids : c[i] \in {g.count[i], AtMost(g.count[i] + 1, MinRuns)}
    BY <1>a, <1>c DEF GraphRecord, AtMost, Counted
  <2> HIDE DEF c
  <2>3. /\ h \in GraphRecord /\ h.count = c /\ h.captured = g.captured /\ h.regular = r
        /\ h.capturing = Skip
    BY <1>a, <1>b, <2>2 DEF GraphRecord
  <2>4. \A i \in Ids : c[i] <= g.count[i] + 1 /\ (g.count[i] >= MinRuns => c[i] >= MinRuns)
    BY <1>a, <1>c, <2>2 DEF GraphRecord, AtMost
  <2>5. \A i \in Ids : r >= MinRuns \/ r > c[i]
    BY <1>a, <1>b, <1>c, <1>3, <2>2, <2>4 DEF GraphRecord, Warm
  <2> HIDE DEF h
  <2>6. /\ \A i \in Ids : h.regular >= MinRuns \/ h.regular > h.count[i]
        /\ \A i \in h.captured : h.count[i] >= MinRuns
    BY <1>a, <2>3, <2>4, <2>5 DEF GraphRecord, Warm
  <2>7. Warm(h)
    BY <2>3, <2>6 DEF Warm
  <2> QED
    BY <2>1, <2>3, <2>7, GraphSet
<1>4. CASE UNCHANGED graph
  BY <1>4 DEF GraphInv
<1> QED
  BY <1>1, <1>2, <1>3, <1>4 DEF HandleCudaGraphStart, Replay

LEMMA CaptureEndKeepsWarm ==
  ASSUME GraphInv, NEW s \in GraphSessions, CaptureEnd(s)
  PROVE  GraphInv'
<1> DEFINE g == graph[s]
<1>a. g \in GraphRecord /\ Warm(g) /\ g.capturing # Skip
  BY DEF GraphInv, CaptureEnd
<1>1. /\ [g EXCEPT !.captured = @ \cup {g.capturing}, !.capturing = Skip] \in GraphRecord
      /\ Warm([g EXCEPT !.captured = @ \cup {g.capturing}, !.capturing = Skip])
  BY <1>a DEF GraphRecord, Warm
<1>2. [g EXCEPT !.capturing = Skip] \in GraphRecord /\ Warm([g EXCEPT !.capturing = Skip])
  BY <1>a DEF GraphRecord, Warm
<1> QED
  BY <1>1, <1>2, GraphSet DEF CaptureEnd

LEMMA GraphStep == GraphInv /\ [GraphNext]_allVars => GraphInv'
<1> SUFFICES ASSUME GraphInv, [GraphNext]_allVars PROVE GraphInv'
  OBVIOUS
<1>1. CASE UNCHANGED graph
  BY <1>1 DEF GraphInv
<1>2. ASSUME NEW s \in Sessions, Released(s) PROVE GraphInv'
  BY <1>2, NewGraphIsWarm DEF Released, GraphInv
<1> QED
  BY <1>1, <1>2, RunKeepsWarm, CaptureEndKeepsWarm DEF GraphNext, allVars

LEMMA WarmGraphs == GraphInv => GraphsAreWarm
  BY DEF GraphInv, Warm, GraphsAreWarm

(* Whatever annotation ids the runs of a session name, and whenever it       *)
(* re-binds: no graph is captured before the warm-up the code counts, and no *)
(* graph of an id outlives the count of it.                                  *)
THEOREM CapturedWarm == GraphSpec => []GraphsAreWarm
  BY InitGraphs, GraphStep, WarmGraphs, PTL DEF GraphSpec

LEMMA GraphStepIsFactoryStep == [GraphNext]_allVars => [Next]_vars
  BY DEF GraphNext, Next, allVars, vars, HandleCudaGraphStart, CaptureEnd

(* The sessions that capture graphs are sessions of the factory: what is     *)
(* proved of Spec holds while graphs are captured, too.                      *)
THEOREM GraphsLeaveFactoryAlone == GraphSpec => Spec
<1>1. GraphInit => Init
  BY DEF GraphInit
<1> QED
  BY <1>1, GraphStepIsFactoryStep, PTL DEF GraphSpec, Spec

(* No capture step of any session invalidates what another was handed.       *)
THEOREM HandedOutValidWithGraphs == GraphSpec => [](HandedOutStaysValid /\ SyncStaysSynchronous)
  BY GraphsLeaveFactoryAlone, HandedOutValid, SyncStays, PTL
=============================================================================
