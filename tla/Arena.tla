------------------------------- MODULE Arena -------------------------------
(***************************************************************************)
(* ArenaImpl (src/ep_arena.h, ep_arena.cc): the best-fit-with-         *)
(* coalescing arena that stands between ONNX Runtime (and TensorRT RTX, by *)
(* way of GpuSyncAllocator) and cudaMalloc.                                *)
(*                                                                         *)
(* Every public operation runs under ArenaImpl::lock_, so each action is   *)
(* one whole operation.  The private helpers are operators on the record   *)
(* `arena', named as in the code; they are composed exactly as the code    *)
(* calls them.  Sizes and addresses are in bytes and Unit stands for       *)
(* kMinAllocationSize.                                                     *)
(***************************************************************************)
EXTENDS Integers, Sequences, FiniteSets, Functions, SequencesExt

CONSTANTS
  Unit,           \* kMinAllocationSize (256)
  NumBins,        \* kNumBins (21)
  Word,           \* 2^64: the modulus of size_t
  MaxMem,         \* ArenaConfig::max_mem
  SameAsRequested,\* arena_extend_strategy = kSameAsRequested
  InitialChunk,   \* initial_chunk_size_bytes
  MaxDead,        \* max_dead_bytes_per_chunk
  InitialGrowth,  \* initial_growth_chunk_size_bytes
  MaxPow2,        \* max_power_of_two_extend_bytes
  BackNum, BackDen,  \* kBackpedalFactor = BackNum / BackDen
  GiveUp,         \* the 8K under which Extend stops trying
  DeviceBytes,    \* memory the device can hand out
  DeviceCap,      \* kMaxAllowedAllocationSize (256GB)
  Garbage,        \* values an uninitialised AllocatorStats counter may hold
  Sizes,          \* request sizes of Alloc and AllocOnStream
  ReserveSizes,   \* request sizes of Reserve
  Streams,        \* OrtSyncStreams passed to AllocOnStream
  NoStream,       \* nullptr
  MaxSync         \* bound on the streams' sync ids

ASSUME ArenaConstants ==
  /\ {Unit, NumBins, Word, BackDen, InitialChunk} \subseteq Nat \ {0}
  /\ {MaxMem, MaxDead, InitialGrowth, MaxPow2, BackNum, GiveUp, DeviceBytes,
      DeviceCap, MaxSync} \subseteq Nat
  /\ SameAsRequested \in BOOLEAN
  /\ MaxMem < Word
  \* ten percent of the 8K at which Extend gives up is more than a unit
  /\ BackNum < BackDen /\ GiveUp * (BackDen - BackNum) >= Unit * BackDen
  /\ Garbage \subseteq Nat
  /\ Sizes \subseteq Nat \ {0} /\ ReserveSizes \subseteq Nat \ {0}
  /\ NoStream \notin Streams

\* ArenaConfig::IsValid, which no code calls.
IsValid == InitialChunk > 0 /\ MaxDead > 0 /\ InitialGrowth > 0 /\ MaxPow2 > 0

VARIABLES
  arena,     \* chunks_, free_chunks_list_, bins, region_manager_, stream_to_chunks_
  curr_region_allocation_bytes,
  stats,     \* total_allocated_bytes, bytes_in_use, num_arena_extensions
  reserved,  \* reserved_chunks_: address -> size
  device,    \* blocks cudaMalloc handed to the arena: address -> size
  live,      \* what the clients hold: address -> requested size
  clock      \* ORT's sync ids: [id |-> per stream, wait |-> last wait of one on another]

vars == <<arena, curr_region_allocation_bytes, stats, reserved, device, live, clock>>

-----------------------------------------------------------------------------
(* Sizes and bins. *)

None == 0        \* kInvalidChunkHandle (handles start at 1)
NoBin == -1      \* kInvalidBinNum
Null == -1       \* nullptr
Addresses == {a \in 0 .. DeviceBytes - 1 : a % Unit = 0}
Bins == 0 .. NumBins - 1

\* The map f with an entry for p (a map of the code, operator[] of it).
Bind(f, p, v) == [q \in DOMAIN f \cup {p} |-> IF q = p THEN v ELSE f[q]]

Larger(a, b) == IF a > b THEN a ELSE b
Smaller(a, b) == IF a < b THEN a ELSE b

RoundedBytes(bytes) == Unit * ((bytes + Unit - 1) \div Unit)

Log2FloorNonZero[n \in Nat \ {0}] == IF n = 1 THEN 0 ELSE 1 + Log2FloorNonZero[n \div 2]

BinNumForSize(bytes) == Smaller(NumBins - 1, Log2FloorNonZero[Larger(bytes, Unit) \div Unit])

BlankChunk == [size |-> 0, used |-> FALSE, ptr |-> Null, prev |-> None, next |-> None,
               bin |-> NoBin, stream |-> NoStream, sync |-> 0]

-----------------------------------------------------------------------------
(* Helpers of ArenaImpl.  The flag `fault' records that an ENFORCE_EP of one *)
(* of them fired (on a chunk, a bin or a handle).                            *)

Enforce(a, ok) == [a EXCEPT !.fault = @ \/ ~ok]

RegionOf(a, p) == {r \in a.regions : r.ptr <= p /\ p < r.ptr + r.size}

SetHandle(a, p, h) == Enforce([a EXCEPT !.handles[p] = h], RegionOf(a, p) # {})

\* AllocateChunk: reuse the head of the free list or grow the vector.
NewHandle(a) == IF a.freeList # None THEN a.freeList ELSE Len(a.chunks) + 1
AllocateChunk(a) ==
  IF a.freeList # None
  THEN [a EXCEPT !.freeList = a.chunks[a.freeList].next]
  ELSE [a EXCEPT !.chunks = Append(@, BlankChunk)]

DeallocateChunk(a, h) ==
  LET s == a.chunks[h].stream
      index == a.streamChunks
      without == IF s \notin DOMAIN index THEN index
                 ELSE IF index[s] \ {h} = {} THEN Restrict(index, DOMAIN index \ {s})
                 ELSE [index EXCEPT ![s] = @ \ {h}]
  IN [a EXCEPT !.streamChunks = without,
               !.chunks[h] = [BlankChunk EXCEPT !.next = a.freeList],
               !.freeList = h]

DeleteChunk(a, h) == DeallocateChunk(SetHandle(a, a.chunks[h].ptr, None), h)

InsertFreeChunkIntoBin(a, h) ==
  LET c == a.chunks[h]
      b == BinNumForSize(c.size)
  IN Enforce([a EXCEPT !.bins[b] = @ \cup {h}, !.chunks[h].bin = b],
             ~c.used /\ c.bin = NoBin)

RemoveFreeChunkFromBin(a, h) ==
  LET c == a.chunks[h]
      found == c.bin # NoBin /\ h \in a.bins[c.bin]
  IN Enforce([a EXCEPT !.bins = [b \in Bins |-> IF b = c.bin THEN @[b] \ {h} ELSE @[b]],
                       !.chunks[h].bin = NoBin],
             ~c.used /\ found)

Merge(a, h1, h2) ==
  LET c1 == a.chunks[h1]
      c2 == a.chunks[h2]
      relinked == [h \in DOMAIN a.chunks |->
                     IF h = h1 THEN [c1 EXCEPT !.next = c2.next, !.size = @ + c2.size,
                                               !.sync = Larger(@, c2.sync)]
                     ELSE IF h = c2.next THEN [a.chunks[h] EXCEPT !.prev = h1]
                     ELSE a.chunks[h]]
  IN DeleteChunk(Enforce([a EXCEPT !.chunks = relinked],
                         ~c1.used /\ ~c2.used /\ c1.stream = c2.stream /\ c2.prev = h1), h2)

\* (mutant) chunks of different streams are merged
MergeableAnyStream(a, h, other) == other # None /\ ~a.chunks[other].used

\* Two neighbours may be merged when the other one is free and on the same stream.
Mergeable(a, h, other) ==
  other # None /\ ~a.chunks[other].used /\ a.chunks[other].stream = a.chunks[h].stream

MergeNext(a, h) ==
  LET n == a.chunks[h].next
  IN IF Mergeable(a, h, n) THEN Merge(RemoveFreeChunkFromBin(a, n), h, n) ELSE a

MergePrev(a, h) ==
  LET p == a.chunks[h].prev
  IN IF Mergeable(a, h, p) THEN Merge(RemoveFreeChunkFromBin(a, p), p, h) ELSE a

Coalesce(a, h) == MergePrev(MergeNext(a, h), h)

\* The handle Coalesce returns.
Reassigned(a, h) ==
  LET p == a.chunks[h].prev IN IF Mergeable(a, h, p) THEN p ELSE h

FreeAndMaybeCoalesce(a, h) ==
  LET c == a.chunks[h]
      freed == Enforce([a EXCEPT !.chunks[h].used = FALSE], c.used /\ c.bin = NoBin)
  IN InsertFreeChunkIntoBin(Coalesce(freed, h), Reassigned(freed, h))

\* (mutants) the chunk keeps its size; the next chunk keeps its predecessor
SplitKeepsSize(a, h, bytes) ==
  LET n == NewHandle(a)
      grown == AllocateChunk(a)
      c == a.chunks[h]
      rest == [c EXCEPT !.size = @ - bytes, !.ptr = @ + bytes, !.prev = h]
  IN InsertFreeChunkIntoBin(
       SetHandle([grown EXCEPT !.chunks[h].next = n, !.chunks[n] = rest], rest.ptr, n), n)
SplitForgetsNext(a, h, bytes) ==
  LET n == NewHandle(a)
      grown == AllocateChunk(a)
      c == a.chunks[h]
      rest == [c EXCEPT !.size = @ - bytes, !.ptr = @ + bytes, !.prev = h]
  IN InsertFreeChunkIntoBin(
       SetHandle([grown EXCEPT !.chunks[h] = [c EXCEPT !.size = bytes, !.next = n],
                               !.chunks[n] = rest], rest.ptr, n), n)

SplitChunk(a, h, bytes) ==
  LET n == NewHandle(a)
      grown == AllocateChunk(a)
      c == a.chunks[h]
      rest == [c EXCEPT !.size = @ - bytes, !.ptr = @ + bytes, !.prev = h, !.used = FALSE]
      relinked == [k \in DOMAIN grown.chunks |->
                     IF k = h THEN [c EXCEPT !.size = bytes, !.next = n]
                     ELSE IF k = n THEN rest
                     ELSE IF k = c.next THEN [a.chunks[k] EXCEPT !.prev = n]
                     ELSE grown.chunks[k]]
      linked == SetHandle([grown EXCEPT !.chunks = relinked], rest.ptr, n)
  IN InsertFreeChunkIntoBin(Enforce(linked, ~c.used /\ c.bin = NoBin), n)

WorthSplitting(size, rounded) == size >= 2 * rounded \/ size - rounded >= MaxDead

SplitFreeChunkFromBin(a, h, rounded) ==
  LET removed == RemoveFreeChunkFromBin(a, h)
      split == IF WorthSplitting(a.chunks[h].size, rounded)
               THEN SplitChunk(removed, h, rounded) ELSE removed
  IN [split EXCEPT !.chunks[h].used = TRUE]

-----------------------------------------------------------------------------
(* Search and extension. *)

\* A free chunk that stream s may take now.
SafeToUse(c, s) ==
  \/ c.stream = s
  \/ c.stream = NoStream
  \/ s # NoStream /\ c.sync < clock.wait[c.stream][s]

Fitting(a, rounded, s) ==
  {h \in UNION {a.bins[b] : b \in BinNumForSize(rounded) .. NumBins - 1} :
     a.chunks[h].size >= rounded /\ SafeToUse(a.chunks[h], s)}

\* (mutant) free chunks ordered by address alone
PrecedesByAddress(c, d) == c.ptr < d.ptr

\* The order FindChunkPtr visits free chunks in: by bin, then size, then address.
Precedes(c, d) ==
  \/ c.bin < d.bin
  \/ c.bin = d.bin /\ c.size < d.size
  \/ c.bin = d.bin /\ c.size = d.size /\ c.ptr < d.ptr

BestFit(a, rounded, s) ==
  CHOOSE h \in Fitting(a, rounded, s) :
    \A g \in Fitting(a, rounded, s) \ {h} : Precedes(a.chunks[h], a.chunks[g])

\* FindChunkPtr once a chunk fits: take it and put it on the caller's stream.
TakeBestFit(a, rounded, s) ==
  LET h == BestFit(a, rounded, s)
      taken == SplitFreeChunkFromBin(a, h, rounded)
  IN IF s = NoStream THEN taken
     ELSE [taken EXCEPT !.chunks[h].stream = s,
                        !.chunks[h].sync = clock.id[s],
                        !.streamChunks[s] = @ \cup {h}]

\* A first request of a stream enters it in stream_to_chunks_ and impl_to_stream_.
RegisterStream(a, s) ==
  IF s = NoStream \/ s \in DOMAIN a.streamChunks THEN a
  ELSE [a EXCEPT !.streamChunks =
          [t \in DOMAIN @ \cup {s} |-> IF t = s THEN {} ELSE a.streamChunks[t]]]

\* available_bytes in Extend, in size_t arithmetic.
Available == Unit * (((MaxMem - stats.total) % Word) \div Unit)

\* The doubling loop of get_extend_bytes (it never ends on a zero region size).
DoubledTo(bytes) ==
  LET from[curr \in Nat] == IF bytes > curr THEN from[2 * curr] ELSE curr
  IN from[curr_region_allocation_bytes]

\* get_extend_bytes: the size to ask for and the next region size.
ExtendBytes(rounded) ==
  IF SameAsRequested THEN rounded
  ELSE Smaller(IF rounded > curr_region_allocation_bytes THEN DoubledTo(rounded)
               ELSE curr_region_allocation_bytes, Available)

NextRegionBytes(rounded) ==
  LET curr == curr_region_allocation_bytes
  IN IF SameAsRequested THEN curr
     ELSE IF rounded > curr THEN DoubledTo(rounded)
     ELSE IF 2 * curr < MaxPow2 THEN 2 * curr ELSE MaxPow2

\* The back-pedalling loop goes on while the device returns nullptr, which
\* TensorrtRtxAllocator::Alloc does only for a request over the cap; for a
\* request that does not fit it throws, and the loop is left.
Attempt(first, rounded) ==
  LET Back(b) == RoundedBytes((b * BackNum) \div BackDen)
      next[b \in Nat] == IF b <= DeviceCap THEN b
                         ELSE IF Back(b) < rounded \/ Back(b) < GiveUp THEN 0
                         ELSE next[Back(b)]
  IN next[first]

DeviceFits(p, bytes) ==
  /\ p + bytes <= DeviceBytes
  /\ \A q \in DOMAIN device : p + bytes <= q \/ q + device[q] <= p

AddRegion(a, p, bytes) ==
  LET id == stats.extensions
      mapped == [a EXCEPT !.regions = @ \cup {[ptr |-> p, size |-> bytes, id |-> id]},
                          !.handles = [q \in Addresses |->
                                         IF p <= q /\ q < p + bytes THEN None ELSE @[q]]]
      h == NewHandle(mapped)
      chunk == [BlankChunk EXCEPT !.ptr = p, !.size = bytes]
      filled == [AllocateChunk(mapped) EXCEPT !.chunks[h] = chunk]
  IN InsertFreeChunkIntoBin(SetHandle(filled, p, h), h)

-----------------------------------------------------------------------------
(* The operations. *)

Init ==
  /\ arena = [chunks |-> <<>>, freeList |-> None, bins |-> [b \in Bins |-> {}],
              regions |-> {}, handles |-> [p \in Addresses |-> None],
              streamChunks |-> <<>>, fault |-> FALSE]
  /\ curr_region_allocation_bytes = RoundedBytes(Smaller(MaxMem, InitialChunk))
  \* AllocatorStats has no initialisers and the constructor sets bytes_limit only
  /\ stats \in [total : Garbage, inUse : Garbage, extensions : Garbage]
  /\ reserved = <<>>
  /\ device = <<>>
  /\ live = <<>>
  /\ clock = [id |-> [s \in Streams |-> 0],
              wait |-> [s \in Streams |-> [t \in Streams |-> 0]]]

\* The pointer of the chunk handed out goes to the caller.
HandOut(a, rounded, s, bytes) ==
  LET h == BestFit(a, rounded, s)
      taken == TakeBestFit(a, rounded, s)
  IN /\ arena' = taken
     /\ live' = Bind(live, a.chunks[h].ptr, bytes)

GrantedSize(a, rounded, s) ==
  LET h == BestFit(a, rounded, s) IN TakeBestFit(a, rounded, s).chunks[h].size

\* AllocateRawInternal when a free chunk fits.
AllocFromBin(bytes, s) ==
  LET rounded == RoundedBytes(bytes)
      a == RegisterStream(arena, s)
  IN /\ Fitting(a, rounded, s) # {}
     /\ HandOut(a, rounded, s, bytes)
     /\ stats' = [stats EXCEPT !.inUse = @ + GrantedSize(a, rounded, s)]
     /\ UNCHANGED <<curr_region_allocation_bytes, reserved, device, clock>>

\* AllocateRawInternal when Extend obtains memory.  The AllocationRegion
\* constructor enforces that the size is a multiple of Unit: if it is not, the
\* exception leaves the block allocated and counted but in no region.
AllocExtend(bytes, s) ==
  LET rounded == RoundedBytes(bytes)
      a == RegisterStream(arena, s)
      size == Attempt(ExtendBytes(rounded), rounded)
  IN /\ Fitting(a, rounded, s) = {}
     /\ rounded <= Available
     /\ size > 0
     /\ \E p \in Addresses :
          /\ DeviceFits(p, size)
          /\ device' = Bind(device, p, size)
          /\ curr_region_allocation_bytes' = NextRegionBytes(rounded)
          /\ LET extended == IF size % Unit = 0 THEN AddRegion(a, p, size) ELSE a
                 served == Fitting(extended, rounded, s) # {}
             IN /\ IF served THEN HandOut(extended, rounded, s, bytes)
                   ELSE arena' = extended /\ UNCHANGED live
                /\ stats' = [total |-> stats.total + size,
                             inUse |-> stats.inUse + IF served THEN GrantedSize(extended, rounded, s)
                                                     ELSE 0,
                             extensions |-> stats.extensions + IF size % Unit = 0 THEN 1 ELSE 0]
     /\ UNCHANGED <<reserved, clock>>

\* AllocateRawInternal when Extend finds the limit reached.
AllocOverLimit(bytes, s) ==
  LET rounded == RoundedBytes(bytes)
      a == RegisterStream(arena, s)
  IN /\ Fitting(a, rounded, s) = {}
     /\ rounded > Available
     /\ arena' = a
     /\ UNCHANGED <<curr_region_allocation_bytes, stats, reserved, device, live, clock>>

\* AllocateRawInternal when the device allocator throws, or every attempt was
\* over its cap: the region size has been advanced already.
AllocDeviceFails(bytes, s) ==
  LET rounded == RoundedBytes(bytes)
      a == RegisterStream(arena, s)
      size == Attempt(ExtendBytes(rounded), rounded)
  IN /\ Fitting(a, rounded, s) = {}
     /\ rounded <= Available
     /\ size > 0 => \A p \in Addresses : ~DeviceFits(p, size)
     /\ arena' = a
     /\ curr_region_allocation_bytes' = NextRegionBytes(rounded)
     /\ UNCHANGED <<stats, reserved, device, live, clock>>

Allocate(bytes, s) ==
  \/ AllocFromBin(bytes, s)
  \/ AllocExtend(bytes, s)
  \/ AllocOverLimit(bytes, s)
  \/ AllocDeviceFails(bytes, s)

\* Reserve goes to the device past the bins and the limit.
Reserve(bytes) ==
  /\ \/ \E p \in Addresses :
          /\ bytes <= DeviceCap /\ DeviceFits(p, bytes)
          /\ reserved' = Bind(reserved, p, bytes)
          /\ device' = Bind(device, p, bytes)
          /\ live' = Bind(live, p, bytes)
     \/ /\ bytes > DeviceCap
        /\ Null \notin DOMAIN reserved
        /\ reserved' = Bind(reserved, Null, bytes)
        /\ UNCHANGED <<device, live>>
  /\ stats' = [stats EXCEPT !.inUse = @ + bytes, !.total = @ + bytes]
  /\ UNCHANGED <<arena, curr_region_allocation_bytes, clock>>

\* (mutant) total_allocated_bytes is not taken back
FreeReservedKeepsTotal(p) ==
  /\ p \in DOMAIN reserved
  /\ stats' = [stats EXCEPT !.inUse = @ - reserved[p]]
  /\ reserved' = Restrict(reserved, DOMAIN reserved \ {p})
  /\ device' = Restrict(device, DOMAIN device \ {p})
  /\ UNCHANGED arena

FreeReserved(p) ==
  /\ p \in DOMAIN reserved
  /\ stats' = [stats EXCEPT !.inUse = @ - reserved[p], !.total = @ - reserved[p]]
  /\ reserved' = Restrict(reserved, DOMAIN reserved \ {p})
  /\ device' = Restrict(device, DOMAIN device \ {p})
  /\ UNCHANGED arena

FreeChunk(p) ==
  LET h == arena.handles[p]
  IN /\ p \notin DOMAIN reserved
     /\ h # None
     /\ stats' = [stats EXCEPT !.inUse = @ - arena.chunks[h].size]
     /\ arena' = FreeAndMaybeCoalesce(arena, h)
     /\ UNCHANGED <<reserved, device>>

\* A client frees what it holds.
Free(p) ==
  /\ FreeReserved(p) \/ FreeChunk(p)
  /\ live' = Restrict(live, DOMAIN live \ {p})
  /\ UNCHANGED <<curr_region_allocation_bytes, clock>>

-----------------------------------------------------------------------------
(* Walks over a region's chunk list. *)

\* The handles met from h on by Chunk::next.
Following(a, h) ==
  LET walk[n \in Nat] == IF n = 0 THEN h
                         ELSE LET k == walk[n - 1] IN IF k = None THEN None ELSE a.chunks[k].next
      length == CHOOSE n \in 0 .. Len(a.chunks) :
                  walk[n] = None /\ \A m \in 0 .. n - 1 : walk[m] # None
  IN [n \in 1 .. length |-> walk[n - 1]]

Chain(a, r) == Following(a, a.handles[r.ptr])

\* regions_ is kept in the order of addresses.
LastRegion(R) == CHOOSE r \in R : \A q \in R : q.ptr <= r.ptr

\* What Visit makes of a when it goes over regions in that order.
InAddressOrder(Visit(_, _), a, regions) ==
  MapThenFoldSet(LAMBDA r, b : Visit(b, r), a, LAMBDA r : r, LastRegion, regions)

\* The body of the coalescing loop for a chunk that earlier merges left in place.
CoalesceFollowers(a, h) ==
  LET MergeOnce(b, i) == IF Mergeable(b, h, b.chunks[h].next) THEN Coalesce(b, h) ELSE b
      merged == FoldLeft(MergeOnce, RemoveFreeChunkFromBin(a, h), a.chunks)
  IN IF merged.chunks[h].bin = NoBin THEN InsertFreeChunkIntoBin(merged, h) ELSE merged

\* (mutant) chunks the stream held are left apart
CoalesceNothing(a, r) == a

CoalesceRegion(a, r) ==
  LET Visit(b, h) ==
        IF b.handles[a.chunks[h].ptr] = h /\ ~b.chunks[h].used THEN CoalesceFollowers(b, h) ELSE b
  IN FoldLeft(Visit, a, Chain(a, r))

ResetChunksUsingStream(s) ==
  /\ s \in DOMAIN arena.streamChunks
  /\ LET index == arena.streamChunks
         unassigned == [arena EXCEPT
           !.chunks = [h \in DOMAIN @ |-> IF h \in index[s] THEN [@[h] EXCEPT !.stream = NoStream]
                                          ELSE @[h]],
           !.streamChunks = Restrict(index, DOMAIN index \ {s})]
     IN arena' = InAddressOrder(CoalesceRegion, unassigned, unassigned.regions)
  /\ UNCHANGED <<curr_region_allocation_bytes, stats, reserved, device, live, clock>>

\* (mutant) only the first chunk is looked at
ShrinkableByFirst(r) ==
  /\ SameAsRequested \/ r.id # 0
  /\ ~arena.chunks[Chain(arena, r)[1]].used

\* The regions Shrink gives back: all chunks free, and not the first one
\* unless the strategy is kSameAsRequested.
Shrinkable(r) ==
  /\ SameAsRequested \/ r.id # 0
  /\ \A h \in ToSet(Chain(arena, r)) : ~arena.chunks[h].used

ReleaseRegion(a, r) ==
  LET Drop(b, h) == DeleteChunk(RemoveFreeChunkFromBin(b, h), h)
      emptied == FoldLeft(Drop, a, Chain(a, r))
  IN [emptied EXCEPT !.regions = @ \ {r}]

\* (mutant) regions are dropped and their memory is not freed
ShrinkKeepsMemory ==
  LET gone == {r \in arena.regions : Shrinkable(r)}
  IN /\ arena' = InAddressOrder(ReleaseRegion, arena, gone)
     /\ stats' = [stats EXCEPT !.total = @ - SumFunction([r \in gone |-> r.size]),
                               !.extensions = @ - Cardinality(gone)]
     /\ curr_region_allocation_bytes' = InitialGrowth
     /\ UNCHANGED <<reserved, device, live, clock>>

Shrink ==
  LET gone == {r \in arena.regions : Shrinkable(r)}
  IN /\ arena' = InAddressOrder(ReleaseRegion, arena, gone)
     /\ device' = Restrict(device, DOMAIN device \ {r.ptr : r \in gone})
     /\ stats' = [stats EXCEPT !.total = @ - SumFunction([r \in gone |-> r.size]),
                               !.extensions = @ - Cardinality(gone)]
     /\ curr_region_allocation_bytes' = InitialGrowth
     /\ UNCHANGED <<reserved, live, clock>>

\* ORT's stream synchronisation: a notification bumps the producer's sync id,
\* the consumer's wait records it.
Synchronize(producer, consumer) ==
  /\ producer # consumer
  /\ clock.id[producer] < MaxSync
  /\ clock' = [clock EXCEPT !.id[producer] = @ + 1,
                            !.wait[producer][consumer] = clock.id[producer] + 1]
  /\ UNCHANGED <<arena, curr_region_allocation_bytes, stats, reserved, device, live>>

Next ==
  /\ ~arena.fault
  /\ \/ \E bytes \in Sizes, s \in Streams \cup {NoStream} : Allocate(bytes, s)
     \/ \E bytes \in ReserveSizes : Reserve(bytes)
     \/ \E p \in DOMAIN live : Free(p)
     \/ \E s \in Streams : ResetChunksUsingStream(s)
     \/ Shrink
     \/ \E s, t \in Streams : Synchronize(s, t)

Spec == Init /\ [][Next]_vars
=============================================================================
