-------------------------- MODULE FactoryProperties --------------------------
(***************************************************************************)
(* What the sessions of one process may count on while they share the      *)
(* objects of the factory.                                                 *)
(***************************************************************************)
EXTENDS Factory

Pcs == {"new", "adapter", "setup", "mempool", "arena", "ready", "allocate", "latch", "shrink"}
           \cup LazyKinds

\* The numbers of objects, 0 that of none.
Objects == 0..MaxObjects

Memory == [from : {"none", "arena", "mempool"}, object : Objects]

SessionRecord ==
  [device : Devices, sync : BOOLEAN, pc : Pcs, todo : SUBSET Calls,
   arena : Objects, adapter : Objects, pool : Objects,
   lazy : [LazyKinds -> Objects],
   memory : Memory]

(* Every variable has its type. *)
TypeOK ==
  /\ arena \in [Devices -> Objects]
  /\ mempool \in [Devices -> Objects]
  /\ adapter \in [Devices -> [self : Objects, arena : Objects]]
  /\ lazy \in [Slots -> Objects]
  /\ disabled \subseteq Devices
  /\ owner \in Sessions \cup {NoSession}
  /\ made \in [Kinds -> Objects]
  /\ session \in [Sessions -> SessionRecord]

(* The arena, the adapter and the mempool a session points at, the mempool   *)
(* it has fetched and not used yet, and the one its context memory came from *)
(* are the objects the factory holds: no session ever uses one that another  *)
(* session's call destroyed.  device_arena_mutex_ and the early return of    *)
(* CreateAllocator are what it rests on.                                     *)
HandedOutStaysValid ==
  \A s \in Sessions :
    LET d == Device(s)
    IN /\ session[s].arena \in {0, arena[d]}
       /\ session[s].adapter \in {0, adapter[d].self}
       /\ session[s].pool \in {0, mempool[d]}
       /\ session[s].memory.from = "mempool" => session[s].memory.object = mempool[d]

(* A session that asked for synchronous allocation and has the adapter gets  *)
(* its memory from the arena the adapter borrows, and never from the mempool *)
(* another session had created (docs/technical-notes.md: no allocation path  *)
(* can reach cudaMallocAsync).                                               *)
SyncStaysSynchronous ==
  \A s \in Sessions :
    UsesAdapter(s) =>
      /\ session[s].sync
      /\ session[s].memory.from # "mempool"
      /\ adapter[Device(s)].arena = arena[Device(s)]

-----------------------------------------------------------------------------
(* "Use the one that was previously created" (line 1795), and the same of    *)
(* the data transfer (1856) and the kernel registry (978): what a session    *)
(* was given is still the factory's, whoever else is being set up.           *)
SharedObjectsStable ==
  \A s \in Sessions, k \in LazyKinds :
    session[s].lazy[k] \in {0, lazy[Slot(s, k)]}
=============================================================================
