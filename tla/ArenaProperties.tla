-------------------------- MODULE ArenaProperties --------------------------
(***************************************************************************)
(* What ArenaImpl must guarantee to its clients and to itself.             *)
(***************************************************************************)
EXTENDS Arena

Handles == 1 .. Len(arena.chunks)
Linked == {arena.handles[p] : p \in Addresses} \ {None}
Regions == arena.regions
Units(p, n) == {q \in Addresses : p <= q /\ q < p + n}

\* The size a client really holds at p.
Granted(p) == IF p \in DOMAIN reserved THEN reserved[p] ELSE arena.chunks[arena.handles[p]].size

ChunkType == [size : Nat, used : BOOLEAN, ptr : Addresses \cup {Null},
              prev : 0 .. Len(arena.chunks), next : 0 .. Len(arena.chunks),
              bin : Bins \cup {NoBin}, stream : Streams \cup {NoStream}, sync : 0 .. MaxSync]

(* Types of the state of ArenaImpl (ep_arena.h:660-685). *)
TypeOK ==
  /\ \A h \in Handles : arena.chunks[h] \in ChunkType
  /\ arena.freeList \in 0 .. Len(arena.chunks)
  /\ arena.bins \in [Bins -> SUBSET Handles]
  /\ \A r \in Regions : /\ r.ptr \in Addresses /\ r.size \in 1 .. DeviceBytes /\ r.id \in Int
  /\ arena.handles \in [Addresses -> 0 .. Len(arena.chunks)]
  /\ DOMAIN arena.streamChunks \subseteq Streams
  /\ \A s \in DOMAIN arena.streamChunks : arena.streamChunks[s] \subseteq Handles
  /\ arena.fault \in BOOLEAN
  /\ curr_region_allocation_bytes \in Nat
  /\ stats \in [total : Int, inUse : Int, extensions : Int]
  /\ DOMAIN reserved \subseteq Addresses \cup {Null}
  /\ DOMAIN device \subseteq Addresses
  /\ DOMAIN live \subseteq Addresses

\* The handles on the free list, which runs through Chunk::next.
FreeListed == ToSet(Following(arena, arena.freeList))

(* The chunks of a region tile it from end to end: the chunk at the region's *)
(* base has no predecessor, every chunk's successor starts where it ends and *)
(* points back, and the handle table finds each by its address.  Every entry *)
(* of chunks_ is either in a region's list or on the free list: no handle is *)
(* lost or on both.  (Chunk::prev/next, ep_arena.h:271-278; SplitChunk,      *)
(* Merge, AllocateChunk, DeallocateChunk.)                                   *)
ChunksTileRegions ==
  /\ TypeOK
  /\ Linked \cup FreeListed = Handles /\ Linked \cap FreeListed = {}
  /\ \A r \in Regions : /\ arena.handles[r.ptr] # None
                        /\ arena.chunks[arena.handles[r.ptr]].prev = None
  /\ \A h \in Linked :
       LET c == arena.chunks[h] IN
       /\ c.ptr # Null /\ c.size > 0 /\ arena.handles[c.ptr] = h
       /\ \E r \in Regions :
            /\ r.ptr <= c.ptr /\ c.ptr + c.size <= r.ptr + r.size
            /\ IF c.ptr + c.size = r.ptr + r.size THEN c.next = None
               ELSE /\ c.next # None /\ c.next = arena.handles[c.ptr + c.size]
                    /\ arena.chunks[c.next].prev = h

(* A chunk is in a bin exactly when it is free, and in the bin of its       *)
(* current size, so that the search cannot miss it (InsertFreeChunkIntoBin, *)
(* FindChunkPtr); two free neighbours of one stream are never left apart    *)
(* (Coalesce, and the second half of ResetChunksUsingStream).               *)
FreeChunksFiled ==
  /\ \A h \in Handles, b \in Bins :
       h \in arena.bins[b] <=> /\ h \in Linked /\ ~arena.chunks[h].used
                               /\ b = BinNumForSize(arena.chunks[h].size)
  /\ \A h \in Linked : ~arena.chunks[h].used =>
       LET n == arena.chunks[h].next IN
       n # None /\ ~arena.chunks[n].used => arena.chunks[n].stream # arena.chunks[h].stream

(* No two clients ever hold overlapping memory, nobody holds less than it   *)
(* asked for, and what is held lies inside one block the arena obtained     *)
(* from the device and has not given back.                                  *)
LiveMemoryDisjoint ==
  /\ \A p \in DOMAIN live :
       /\ live[p] <= Granted(p)
       /\ \E q \in DOMAIN device : q <= p /\ p + Granted(p) <= q + device[q]
  /\ \A p, q \in DOMAIN live : p < q => p + Granted(p) <= q

(* The statistics agree with the memory: what Alloc, Reserve, Free, Extend  *)
(* and Shrink add and subtract balances, relative to the values the         *)
(* counters had in the beginning.                                           *)
SumOver(S, f(_)) == SumFunction([x \in S |-> f(x)])
StatsBalance(total, inUse, extensions) ==
  /\ stats.total = total + SumOver(DOMAIN device, LAMBDA p : device[p])
  /\ stats.inUse = inUse + SumOver(DOMAIN live, Granted)
  /\ stats.extensions = extensions + Cardinality(Regions)
StatsBalanced == \E t, u, e \in Garbage : StatsBalance(t, u, e)

(* Every block obtained from the device is a region or a reservation, so    *)
(* the destructor (ep_arena.cc:77-93) gives everything back.                *)
NoDeviceLeak ==
  \A p \in DOMAIN device :
    \/ \E r \in Regions : r.ptr = p /\ r.size = device[p]
    \/ p \in DOMAIN reserved

(* No ENFORCE_EP on chunks, bins or handles fires for a client that frees   *)
(* each pointer once (the region constructor's check of the size, ep_arena.h*)
(* 368, is a branch of AllocExtend: NoDeviceLeak is about what it strands). *)
NoEnforceFires == ~arena.fault

(* A request is served from the smallest free chunk that fits, over all     *)
(* bins, and the device is asked only when there is none: the best-fit      *)
(* promise that the bins' size classes and the search order implement.  It  *)
(* wastes neither max_dead_bytes_per_chunk bytes nor as much as it asked    *)
(* for ("In any case don't waste more than max_dead_bytes_per_chunk bytes   *)
(* on padding this alloc", ep_arena.cc:431), and an extension that          *)
(* succeeded always serves the request it was made for ("Failed to find a   *)
(* free memory block despite calling Extend" is never thrown).              *)
FreeFor(bytes) == {h \in Linked : /\ ~arena.chunks[h].used
                                  /\ arena.chunks[h].stream = NoStream
                                  /\ arena.chunks[h].size >= RoundedBytes(bytes)}
FitsTightly(need, got) == got < 2 * need /\ Larger(got - need, 0) < Larger(MaxDead, 1)
BestFitOrExtend ==
  [][/\ \A p \in DOMAIN live' \ (DOMAIN live \cup DOMAIN reserved') :
          LET free == FreeFor(live'[p]) IN
          /\ FitsTightly(RoundedBytes(live'[p]), arena'.chunks[arena'.handles[p]].size)
          /\ IF device' # device THEN free = {}
             ELSE \E h \in free :
                    /\ arena.chunks[h].ptr = p
                    /\ \A g \in free : arena.chunks[h].size <= arena.chunks[g].size
     /\ Regions # arena'.regions /\ ~Shrink => DOMAIN live' # DOMAIN live]_vars

(* Shrink releases every region that holds no live memory except the first, *)
(* releases no region that does, and touches no client's memory; no other   *)
(* call gives a region back ("keep the first region to preserve the user's  *)
(* chosen initial allocation", ep_arena.cc:49-50).                          *)
ShrinkExact ==
  [][IF Shrink
     THEN /\ \A r \in Regions :
               LET held == \E p \in DOMAIN live : p \in Units(r.ptr, r.size)
               IN held \/ (~SameAsRequested /\ r.id = 0) <=> r \in arena'.regions
          /\ live' = live
     ELSE Regions \subseteq arena'.regions]_vars

(* The arena implements ArenaSpec: seen from the device and the clients it  *)
(* is a pool that hands out disjoint parts of blocks it owns.               *)
Abstract == INSTANCE ArenaSpec WITH
  Cells <- Addresses,
  owned <- {Units(p, device[p]) : p \in DOMAIN device},
  held <- {Units(p, Granted(p)) : p \in DOMAIN live}
ImplementsArenaSpec == Abstract!AbstractSpec
=============================================================================
