------------------------------- MODULE Factory -------------------------------
(***************************************************************************)
(* The shared objects of TensorrtRtxExecutionProviderFactory: the arena,   *)
(* the CUDA mempool, the synchronous TensorRT allocator and the pinned     *)
(* arena of each device, the data transfer and the kernel registry.  They  *)
(* are created on first use by the sessions of the process, each of which  *)
(* is a thread here.  A step is what the code does under one lock, or the  *)
(* code between two of them.                                               *)
(*                                                                         *)
(* An object is the number it got when it was made, 0 is "none": storing   *)
(* an object where there is one destroys the old one (unique_ptr), and a   *)
(* pointer is good as long as its number is the stored one.                *)
(***************************************************************************)
EXTENDS Naturals, FiniteSets

CONSTANTS
  Sessions,    \* sessions, each with a thread
  Devices,     \* CUDA devices with memory infos
  NoSession,   \* the owner of a free mutex
  AnyDevice,   \* the device of the objects that belong to none
  LazyKinds,   \* of "pinned", "transfer" and "registry", those the sessions ask for
  MaxObjects   \* bound: objects of one kind ever made per device

ASSUME FactoryAssumption ==
  /\ MaxObjects \in Nat \ {0}
  /\ LazyKinds \subseteq {"pinned", "transfer", "registry"}
  /\ NoSession \notin Sessions
  /\ AnyDevice \notin Devices

VARIABLES
  arena,     \* device_allocators
  mempool,   \* device_mempool_allocators
  adapter,   \* sync_gpu_allocators_: [self, arena], the arena it borrows
  lazy,      \* pinned_allocators, data_transfer_impl, kernel_registry_, which no lock guards
  disabled,  \* mempool_runtime_disabled_
  owner,     \* the session that holds device_arena_mutex_, or NoSession
  made,      \* objects made so far, by kind
  session    \* what each session's thread does and holds

vars == <<arena, mempool, adapter, lazy, disabled, owner, made, session>>

Kinds == {"arena", "mempool", "adapter"} \cup LazyKinds
Calls == {"allocator"} \cup LazyKinds

(* The pinned arena is per device, the others are one for the process.       *)
Slots == ({"pinned"} \X Devices) \cup ({"transfer", "registry"} \X {AnyDevice})
NoAdapter == [self |-> 0, arena |-> 0]

(* What a session is before CreateEp. `pool` is the mempool pointer its      *)
(* compute call has fetched, `memory` the context memory it keeps, and the   *)
(* object it came from.                                                      *)
NewSession(d) ==
  [device |-> d, sync |-> FALSE, pc |-> "new", todo |-> Calls,
   arena |-> 0, adapter |-> 0, pool |-> 0,
   lazy |-> [k \in LazyKinds |-> 0],
   memory |-> [from |-> "none", object |-> 0]]

Init ==
  /\ arena = [d \in Devices |-> 0]
  /\ mempool = [d \in Devices |-> 0]
  /\ adapter = [d \in Devices |-> NoAdapter]
  /\ lazy = [slot \in Slots |-> 0]
  /\ disabled = {}
  /\ owner = NoSession
  /\ made = [k \in Kinds |-> 0]
  /\ \E on \in [Sessions -> Devices] : session = [s \in Sessions |-> NewSession(on[s])]

-----------------------------------------------------------------------------
Device(s) == session[s].device
At(s, where) == session[s].pc = where
Set(s, r) == session' = [session EXCEPT ![s] = r]
Goto(s, where) == Set(s, [session[s] EXCEPT !.pc = where])
Fresh(k) == made[k] + 1
Made(k) == made' = [made EXCEPT ![k] = @ + 1]
CanMake(k) == made[k] < MaxObjects
Slot(s, k) == <<k, IF k = "pinned" THEN Device(s) ELSE AnyDevice>>

(* A call of its initialisation fails: ORT drops the session, and the        *)
(* application makes another one.                                            *)
Dropped(s) == Set(s, NewSession(Device(s)))

(* The constructor of the EP: with nv_use_sync_gpu_allocator it asks the     *)
(* factory for the adapter, before ORT may have asked for an allocator.      *)
CreateEp(s, sync) ==
  /\ At(s, "new")
  /\ Set(s, [session[s] EXCEPT !.sync = sync, !.pc = IF sync THEN "adapter" ELSE "setup"])
  /\ UNCHANGED <<arena, mempool, adapter, lazy, disabled, owner, made>>

(* GetOrCreateDeviceArena, all of it under device_arena_mutex_.              *)
GetOrCreateDeviceArena(s) ==
  /\ At(s, "adapter") /\ owner = NoSession /\ session[s].arena = 0
  /\ LET d == Device(s)
     IN \/ /\ arena[d] # 0
           /\ Set(s, [session[s] EXCEPT !.arena = arena[d]])
           /\ UNCHANGED <<arena, made>>
        \/ /\ arena[d] = 0 /\ CanMake("arena")
           /\ arena' = [arena EXCEPT ![d] = Fresh("arena")]
           /\ Made("arena")
           /\ Set(s, [session[s] EXCEPT !.arena = Fresh("arena")])
        \/ /\ arena[d] = 0                       \* CreateBfcArenaForDevice fails: a warning
           /\ Goto(s, "setup")
           /\ UNCHANGED <<arena, made>>
  /\ UNCHANGED <<mempool, adapter, lazy, disabled, owner>>

(* The rest of GetOrCreateSyncGpuAllocator, under sync_gpu_allocators_mutex_. *)
GetOrCreateSyncGpuAllocator(s) ==
  /\ At(s, "adapter") /\ session[s].arena # 0
  /\ LET d == Device(s)
         found == adapter[d].self # 0
         self == IF found THEN adapter[d].self ELSE Fresh("adapter")
     IN /\ found \/ CanMake("adapter")
        /\ IF found THEN UNCHANGED <<adapter, made>>
           ELSE /\ adapter' = [adapter EXCEPT ![d] = [self |-> self, arena |-> session[s].arena]]
                /\ Made("adapter")
        /\ Set(s, [session[s] EXCEPT !.adapter = self, !.arena = 0, !.pc = "setup"])
  /\ UNCHANGED <<arena, mempool, lazy, disabled, owner>>

-----------------------------------------------------------------------------
(* CreateAllocator for the device memory.  The mutex is held from here to    *)
(* CreateArena, so that only the mempool can be seen in between.             *)
(* (mutant) A creation does not look whether the arena is there.             *)
AlwaysCreates(s) ==
  /\ At(s, "setup") /\ "allocator" \in session[s].todo /\ owner = NoSession
  /\ owner' = s /\ Goto(s, "mempool")
  /\ UNCHANGED <<arena, mempool, adapter, lazy, disabled, made>>

CreateAllocator(s) ==
  /\ At(s, "setup") /\ "allocator" \in session[s].todo /\ owner = NoSession
  /\ IF arena[Device(s)] # 0
     THEN /\ Set(s, [session[s] EXCEPT !.arena = arena[Device(s)], !.todo = @ \ {"allocator"}])
          /\ UNCHANGED owner
     ELSE owner' = s /\ Goto(s, "mempool")
  /\ UNCHANGED <<arena, mempool, adapter, lazy, disabled, made>>

(* CudaMempoolAllocator::Create and its publication under                    *)
(* mempool_state_mutex_: an error, no usable pool (or no driver in a         *)
(* sandbox), or a pool, which replaces one a failed call has left.           *)
CreateMempool(s) ==
  /\ At(s, "mempool")
  /\ \/ /\ Dropped(s) /\ owner' = NoSession
        /\ UNCHANGED <<mempool, made>>
     \/ /\ Goto(s, "arena")
        /\ UNCHANGED <<mempool, made, owner>>
     \/ /\ CanMake("mempool")
        /\ mempool' = [mempool EXCEPT ![Device(s)] = Fresh("mempool")]
        /\ Made("mempool") /\ Goto(s, "arena")
        /\ UNCHANGED owner
  /\ UNCHANGED <<arena, adapter, lazy, disabled>>

(* CreateBfcArenaForDevice, which fails only when it runs out of memory.     *)
CreateArena(s) ==
  /\ At(s, "arena")
  /\ owner' = NoSession
  /\ \/ /\ Dropped(s) /\ UNCHANGED <<arena, made>>
     \/ /\ CanMake("arena")
        /\ arena' = [arena EXCEPT ![Device(s)] = Fresh("arena")]
        /\ Made("arena")
        /\ Set(s, [session[s] EXCEPT !.arena = Fresh("arena"), !.pc = "setup",
                                     !.todo = @ \ {"allocator"}])
  /\ UNCHANGED <<mempool, adapter, lazy, disabled>>

-----------------------------------------------------------------------------
(* CreateAllocator for pinned memory, CreateDataTransfer and                 *)
(* GetKernelRegistryForEp: looked up and created with no lock.               *)
FindLazy(s, k) ==
  /\ At(s, "setup") /\ k \in session[s].todo
  /\ IF lazy[Slot(s, k)] # 0
     THEN Set(s, [session[s] EXCEPT !.lazy[k] = lazy[Slot(s, k)], !.todo = @ \ {k}])
     ELSE Goto(s, k)
  /\ UNCHANGED <<arena, mempool, adapter, lazy, disabled, owner, made>>

(* The data transfer has nothing to fail; a kernel or an arena has.           *)
MayFail == {"pinned", "registry"}

StoreLazy(s, k) ==
  /\ At(s, k)
  /\ \/ /\ k \in MayFail /\ Dropped(s) /\ UNCHANGED <<lazy, made>>
     \/ /\ CanMake(k)
        /\ lazy' = [lazy EXCEPT ![Slot(s, k)] = Fresh(k)]
        /\ Made(k)
        /\ Set(s, [session[s] EXCEPT !.lazy[k] = Fresh(k), !.todo = @ \ {k}, !.pc = "setup"])
  /\ UNCHANGED <<arena, mempool, adapter, disabled, owner>>

(* ORT runs a session once all its calls have succeeded.                     *)
Ready(s) ==
  /\ At(s, "setup") /\ session[s].todo = {}
  /\ Goto(s, "ready")
  /\ UNCHANGED <<arena, mempool, adapter, lazy, disabled, owner, made>>

-----------------------------------------------------------------------------
(* GetActiveMempoolForDevice; IsAsyncMempoolEnabledForDevice asks the same.  *)
IsAsyncMempoolEnabledForDevice(d) == mempool[d] # 0 /\ d \notin disabled
GetActiveMempoolForDevice(d) == IF IsAsyncMempoolEnabledForDevice(d) THEN mempool[d] ELSE 0

UsesAdapter(s) == session[s].adapter # 0                  \* IsSyncGpuAllocatorEnabled

(* (mutant) The adapter only serves TensorRT's own requests. *)
FetchAnyPool(s) ==
  /\ At(s, "ready") /\ session[s].memory.from = "none"
  /\ Set(s, [session[s] EXCEPT !.pool = GetActiveMempoolForDevice(Device(s)), !.pc = "allocate"])
  /\ UNCHANGED <<arena, mempool, adapter, lazy, disabled, owner, made>>

(* The part of a compute call that gets context memory, if it has none.      *)
FetchPool(s) ==
  /\ At(s, "ready") /\ session[s].memory.from = "none"
  /\ Set(s, [session[s] EXCEPT
       !.pool = IF UsesAdapter(s) THEN 0 ELSE GetActiveMempoolForDevice(Device(s)),
       !.pc = "allocate"])
  /\ UNCHANGED <<arena, mempool, adapter, lazy, disabled, owner, made>>

AllocateFromPool(s) ==
  /\ At(s, "allocate") /\ session[s].pool # 0
  /\ \/ Set(s, [session[s] EXCEPT !.memory = [from |-> "mempool", object |-> session[s].pool],
                                  !.pool = 0, !.pc = "ready"])
     \/ Goto(s, "latch")
  /\ UNCHANGED <<arena, mempool, adapter, lazy, disabled, owner, made>>

NoteAsyncMempoolFailure(s) ==
  /\ At(s, "latch")
  /\ disabled' = disabled \cup {Device(s)}
  /\ Set(s, [session[s] EXCEPT !.pool = 0, !.pc = "allocate"])
  /\ UNCHANGED <<arena, mempool, adapter, lazy, owner, made>>

AllocateFromArena(s) ==
  /\ At(s, "allocate") /\ session[s].pool = 0
  /\ \/ Set(s, [session[s] EXCEPT !.memory = [from |-> "arena", object |-> session[s].arena],
                                  !.pc = "ready"])
     \/ Goto(s, "ready")                                       \* the call fails
  /\ UNCHANGED <<arena, mempool, adapter, lazy, disabled, owner, made>>

(* The end of a call with transient memory, or the session gives it back.    *)
ReturnMemory(s) ==
  /\ At(s, "ready") /\ session[s].memory.from # "none"
  /\ Set(s, [session[s] EXCEPT !.memory = [from |-> "none", object |-> 0]])
  /\ UNCHANGED <<arena, mempool, adapter, lazy, disabled, owner, made>>

(* ShrinkCudaMempoolAllocators at the end of a run that asks for it: the     *)
(* pointer is copied under the lock and used after it.                       *)
FetchPoolToShrink(s) ==
  /\ At(s, "ready")
  /\ mempool[Device(s)] # 0
  /\ Set(s, [session[s] EXCEPT !.pool = mempool[Device(s)], !.pc = "shrink"])
  /\ UNCHANGED <<arena, mempool, adapter, lazy, disabled, owner, made>>

ShrinkPool(s) ==
  /\ At(s, "shrink")
  /\ Set(s, [session[s] EXCEPT !.pool = 0, !.pc = "ready"])
  /\ UNCHANGED <<arena, mempool, adapter, lazy, disabled, owner, made>>

(* ReleaseEp; ReleaseAllocator does nothing, the objects are the factory's.  *)
(* The thread may go on to make another session.                             *)
ReleaseEp(s) ==
  /\ At(s, "ready") /\ session[s].memory.from = "none"
  /\ Dropped(s)
  /\ UNCHANGED <<arena, mempool, adapter, lazy, disabled, owner, made>>

-----------------------------------------------------------------------------
Setup(s) ==
  \/ \E sync \in BOOLEAN : CreateEp(s, sync)
  \/ GetOrCreateDeviceArena(s) \/ GetOrCreateSyncGpuAllocator(s)
  \/ CreateAllocator(s) \/ CreateMempool(s) \/ CreateArena(s)
  \/ \E k \in LazyKinds : FindLazy(s, k) \/ StoreLazy(s, k)
  \/ Ready(s)

Call(s) ==
  \/ FetchPool(s) \/ AllocateFromPool(s) \/ NoteAsyncMempoolFailure(s) \/ AllocateFromArena(s)
  \/ ReturnMemory(s) \/ FetchPoolToShrink(s) \/ ShrinkPool(s)

Next == \E s \in Sessions : Setup(s) \/ Call(s) \/ ReleaseEp(s)

Spec == Init /\ [][Next]_vars
=============================================================================
