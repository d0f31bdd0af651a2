---------------------------- MODULE ChunkProofs ----------------------------
(***************************************************************************)
(* What ArenaImpl's operations on chunks, bins, free list and regions do to *)
(* an arena of any size and any contents: lemmas about constant operators,  *)
(* with the arena's structures before and after as parameters.  An arena is *)
(* Sound when its chunks tile its regions, its free list names the unused   *)
(* records, and its free chunks are in their bins, but for a set U the      *)
(* operation under way has taken out; each lemma ...Sound says that an      *)
(* operation leads from a sound arena to a sound one, each ...Fields what   *)
(* it does to the fields.  ArenaProofs puts them together.                  *)
(***************************************************************************)
EXTENDS GpuSyncAllocator, FoldLemmas, SequenceTheorems, TLAPS

RegionSet == [ptr : Addresses, size : Nat \ {0}, id : Int]
ChunkSet(n) ==
  [size : Nat, used : BOOLEAN, ptr : Addresses \cup {Null}, prev : 0 .. n, next : 0 .. n,
   bin : Bins \cup {NoBin}, stream : Streams \cup {NoStream}, sync : 0 .. MaxSync]
Index(n) == UNION {[S -> SUBSET (1 .. n)] : S \in SUBSET Streams}
Arenas(n) ==
  [chunks : [1 .. n -> ChunkSet(n)], freeList : 0 .. n, bins : [Bins -> SUBSET (1 .. n)],
   regions : SUBSET RegionSet, handles : [Addresses -> 0 .. n], streamChunks : Index(n),
   fault : BOOLEAN]

\* Appending a chunk record adds the last handle and keeps the others.
LEMMA ChunksGrow ==
  ASSUME NEW n \in Nat, NEW X, NEW c \in [1 .. n -> X], NEW x \in X
  PROVE  /\ Len(c) = n /\ Append(c, x) \in [1 .. n + 1 -> X]
         /\ \A h \in 1 .. n : Append(c, x)[h] = c[h]
         /\ Append(c, x)[n + 1] = x
<1>1. c \in Seq(X) /\ Len(c) = n
  BY IsASeq, LenProperties
<1>2. /\ Append(c, x) \in Seq(X) /\ Len(Append(c, x)) = n + 1
      /\ \A h \in 1 .. n : Append(c, x)[h] = c[h]
      /\ Append(c, x)[n + 1] = x
  BY <1>1, AppendProperties
<1>3. Append(c, x) \in [1 .. n + 1 -> X]
  BY <1>2, LenProperties
<1> QED
  BY <1>1, <1>2, <1>3

PtrOf(a, h) == a.chunks[h].ptr
SizeOf(a, h) == a.chunks[h].size
NextOf(a, h) == a.chunks[h].next
PrevOf(a, h) == a.chunks[h].prev
Idle(a, h) == ~a.chunks[h].used
BinOf(a, h) == a.chunks[h].bin
StreamOf(a, h) == a.chunks[h].stream
SyncOf(a, h) == a.chunks[h].sync

\* What the fields of a chunk range over.
LEMMA FieldTypes ==
  ASSUME NEW n \in Nat, NEW a \in Arenas(n), NEW h \in 1 .. n
  PROVE  /\ PtrOf(a, h) \in Addresses \cup {Null} /\ SizeOf(a, h) \in Nat
         /\ NextOf(a, h) \in 0 .. n /\ PrevOf(a, h) \in 0 .. n
         /\ BinOf(a, h) \in Bins \cup {NoBin} /\ StreamOf(a, h) \in Streams \cup {NoStream}
BY DEF Arenas, ChunkSet, PtrOf, SizeOf, NextOf, PrevOf, BinOf, StreamOf

SameShape(a, b, n) ==
  /\ b.regions = a.regions /\ b.freeList = a.freeList /\ b.handles = a.handles
  /\ \A h \in 1 .. n : /\ PtrOf(b, h) = PtrOf(a, h) /\ SizeOf(b, h) = SizeOf(a, h)
                       /\ NextOf(b, h) = NextOf(a, h) /\ PrevOf(b, h) = PrevOf(a, h)
SameUse(a, b, n) ==
  \A h \in 1 .. n : (Idle(b, h) <=> Idle(a, h)) /\ StreamOf(b, h) = StreamOf(a, h)

Removed(a, R, n, h) ==
  /\ SameShape(a, R, n) /\ SameUse(a, R, n) /\ R.streamChunks = a.streamChunks
  /\ \A k \in 1 .. n : BinOf(R, k) = IF k = h THEN NoBin ELSE BinOf(a, k)
  /\ \A b \in Bins : R.bins[b] = IF b = BinOf(a, h) THEN a.bins[b] \ {h} ELSE a.bins[b]
  /\ R.fault <=> a.fault \/ ~(Idle(a, h) /\ BinOf(a, h) # NoBin /\ h \in a.bins[BinOf(a, h)])

\* RemoveFreeChunkFromBin touches the bin of one chunk only.
LEMMA RemoveFields ==
  ASSUME NEW n \in Nat, NEW a \in Arenas(n), NEW h \in 1 .. n
  PROVE  /\ RemoveFreeChunkFromBin(a, h) \in Arenas(n)
         /\ Removed(a, RemoveFreeChunkFromBin(a, h), n, h)
<1> PICK R : R = RemoveFreeChunkFromBin(a, h)
  OBVIOUS
<1> DEFINE c == a.chunks[h]
           found == c.bin # NoBin /\ h \in a.bins[c.bin]
           chunks == [a.chunks EXCEPT ![h] = [c EXCEPT !.bin = NoBin]]
           bins == [b \in Bins |-> IF b = c.bin THEN a.bins[b] \ {h} ELSE a.bins[b]]
           fault == a.fault \/ ~(~c.used /\ found)
<1>1. R = [a EXCEPT !.bins = bins, !.chunks = chunks, !.fault = fault]
  BY DEF RemoveFreeChunkFromBin, Enforce, Arenas
<1>2. c \in ChunkSet(n)
  BY DEF Arenas
<1>3. chunks \in [1 .. n -> ChunkSet(n)]
  <2>1. [c EXCEPT !.bin = NoBin] \in ChunkSet(n)
    BY <1>2 DEF ChunkSet
  <2> HIDE DEF c
  <2> QED
    BY <2>1 DEF Arenas
<1>4. bins \in [Bins -> SUBSET (1 .. n)]
  BY DEF Arenas
<1>5. fault \in BOOLEAN
  BY <1>2 DEF Arenas, ChunkSet
<1>6. /\ R.chunks = chunks /\ R.bins = bins /\ (R.fault <=> fault) /\ R.freeList = a.freeList
      /\ R.regions = a.regions /\ R.handles = a.handles /\ R.streamChunks = a.streamChunks
  BY <1>1 DEF Arenas
<1>7. R \in Arenas(n)
  <2> HIDE DEF chunks, bins, fault
  <2> QED
    BY <1>1, <1>3, <1>4, <1>5 DEF Arenas
<1>8. \A k \in 1 .. n : /\ R.chunks[k] \in ChunkSet(n)
        /\ R.chunks[k] = IF k = h THEN [c EXCEPT !.bin = NoBin] ELSE a.chunks[k]
  BY <1>6, <1>3 DEF Arenas
<1>9. SameShape(a, R, n) /\ SameUse(a, R, n)
  BY <1>6, <1>8, <1>2 DEF SameShape, SameUse, PtrOf, SizeOf, NextOf, PrevOf, Idle, StreamOf, ChunkSet
<1>10. \A k \in 1 .. n : BinOf(R, k) = IF k = h THEN NoBin ELSE BinOf(a, k)
  BY <1>8, <1>2 DEF BinOf, ChunkSet
<1> QED
  BY <1>6, <1>7, <1>9, <1>10 DEF BinOf, Idle, Removed

Inserted(a, R, n, h) ==
  /\ SameShape(a, R, n) /\ SameUse(a, R, n) /\ R.streamChunks = a.streamChunks
  /\ \A k \in 1 .. n : BinOf(R, k) = IF k = h THEN BinNumForSize(SizeOf(a, h)) ELSE BinOf(a, k)
  /\ \A b \in Bins : R.bins[b] = IF b = BinNumForSize(SizeOf(a, h)) THEN a.bins[b] \cup {h}
                                 ELSE a.bins[b]
  /\ R.fault <=> a.fault \/ ~(Idle(a, h) /\ BinOf(a, h) = NoBin)
  /\ \A k \in 1 .. n : SyncOf(R, k) = SyncOf(a, k)

\* InsertFreeChunkIntoBin touches the bin of one chunk only.
LEMMA InsertFields ==
  ASSUME NEW n \in Nat, NEW a \in Arenas(n), NEW h \in 1 .. n, BinNumForSize(SizeOf(a, h)) \in Bins
  PROVE  /\ InsertFreeChunkIntoBin(a, h) \in Arenas(n)
         /\ Inserted(a, InsertFreeChunkIntoBin(a, h), n, h)
<1> PICK R : R = InsertFreeChunkIntoBin(a, h)
  OBVIOUS
<1> DEFINE c == a.chunks[h]
           b0 == BinNumForSize(SizeOf(a, h))
           chunks == [a.chunks EXCEPT ![h] = [c EXCEPT !.bin = b0]]
           bins == [a.bins EXCEPT ![b0] = @ \cup {h}]
           fault == a.fault \/ ~(~c.used /\ c.bin = NoBin)
<1>1. R = [a EXCEPT !.bins = bins, !.chunks = chunks, !.fault = fault]
  BY DEF InsertFreeChunkIntoBin, Enforce, Arenas, SizeOf
<1>2. c \in ChunkSet(n)
  BY DEF Arenas
<1> HIDE DEF b0
<1>3. chunks \in [1 .. n -> ChunkSet(n)]
  <2>1. [c EXCEPT !.bin = b0] \in ChunkSet(n)
    BY <1>2 DEF ChunkSet, b0
  <2> HIDE DEF c
  <2> QED
    BY <2>1 DEF Arenas
<1>4. bins \in [Bins -> SUBSET (1 .. n)]
  BY DEF Arenas, b0
<1>5. fault \in BOOLEAN
  BY <1>2 DEF Arenas, ChunkSet
<1>6. /\ R.chunks = chunks /\ R.bins = bins /\ (R.fault <=> fault) /\ R.freeList = a.freeList
      /\ R.regions = a.regions /\ R.handles = a.handles /\ R.streamChunks = a.streamChunks
  BY <1>1 DEF Arenas
<1>7. R \in Arenas(n)
  <2> HIDE DEF chunks, bins, fault
  <2> QED
    BY <1>1, <1>3, <1>4, <1>5 DEF Arenas
<1>8. \A k \in 1 .. n : /\ R.chunks[k] \in ChunkSet(n)
        /\ R.chunks[k] = IF k = h THEN [c EXCEPT !.bin = b0] ELSE a.chunks[k]
  BY <1>6, <1>3 DEF Arenas
<1>9. SameShape(a, R, n) /\ SameUse(a, R, n)
  BY <1>6, <1>8, <1>2 DEF SameShape, SameUse, PtrOf, SizeOf, NextOf, PrevOf, Idle, StreamOf, ChunkSet
<1>10. \A k \in 1 .. n : BinOf(R, k) = IF k = h THEN b0 ELSE BinOf(a, k)
  BY <1>8, <1>2 DEF BinOf, ChunkSet
<1>12. \A k \in 1 .. n : SyncOf(R, k) = SyncOf(a, k)
  BY <1>8, <1>2 DEF SyncOf, ChunkSet
<1>11. \A b \in Bins : R.bins[b] = IF b = b0 THEN a.bins[b] \cup {h} ELSE a.bins[b]
  BY <1>6 DEF Arenas
<1> QED
  BY <1>6, <1>7, <1>9, <1>10, <1>11, <1>12 DEF BinOf, Idle, b0, Inserted

Deleted(a, R, n, h) ==
  /\ R.regions = a.regions /\ R.bins = a.bins /\ R.freeList = h
  /\ R.handles = [a.handles EXCEPT ![PtrOf(a, h)] = None]
  /\ \A k \in 1 .. n :
       IF k = h THEN PtrOf(R, k) = Null /\ NextOf(R, k) = a.freeList /\ BinOf(R, k) = NoBin
       ELSE /\ PtrOf(R, k) = PtrOf(a, k) /\ SizeOf(R, k) = SizeOf(a, k)
            /\ NextOf(R, k) = NextOf(a, k) /\ PrevOf(R, k) = PrevOf(a, k)
            /\ BinOf(R, k) = BinOf(a, k) /\ StreamOf(R, k) = StreamOf(a, k)
            /\ (Idle(R, k) <=> Idle(a, k))
  /\ R.fault <=> a.fault \/ RegionOf(a, PtrOf(a, h)) = {}

\* DeleteChunk blanks one chunk and puts it on the free list.
LEMMA DeleteFields ==
  ASSUME NEW n \in Nat, NEW a \in Arenas(n), NEW h \in 1 .. n
  PROVE  DeleteChunk(a, h) \in Arenas(n) /\ Deleted(a, DeleteChunk(a, h), n, h)
<1> PICK R : R = DeleteChunk(a, h)
  OBVIOUS
<1> DEFINE s == a.chunks[h].stream
           index == a.streamChunks
           without == IF s \notin DOMAIN index THEN index
                      ELSE IF index[s] \ {h} = {} THEN Restrict(index, DOMAIN index \ {s})
                      ELSE [index EXCEPT ![s] = @ \ {h}]
           blank == [BlankChunk EXCEPT !.next = a.freeList]
           chunks == [a.chunks EXCEPT ![h] = blank]
           handles == [a.handles EXCEPT ![a.chunks[h].ptr] = None]
           fault == a.fault \/ ~(RegionOf(a, a.chunks[h].ptr) # {})
<1>1. R = [a EXCEPT !.handles = handles, !.streamChunks = without, !.chunks = chunks, !.freeList = h,
                    !.fault = fault]
  BY DEF DeleteChunk, DeallocateChunk, SetHandle, Enforce, Arenas
<1>2. without \in Index(n)
  <2>1. PICK S \in SUBSET Streams : index \in [S -> SUBSET (1 .. n)]
    BY DEF Arenas, Index
  <2>2. CASE s \notin DOMAIN index
    BY <2>1, <2>2 DEF Index
  <2>3. CASE s \in DOMAIN index /\ index[s] \ {h} = {}
    <3>1. Restrict(index, DOMAIN index \ {s}) \in [S \ {s} -> SUBSET (1 .. n)]
      BY <2>1 DEF Restrict
    <3> QED
      BY <2>3, <3>1 DEF Index
  <2>4. CASE s \in DOMAIN index /\ index[s] \ {h} # {}
    <3>1. [index EXCEPT ![s] = @ \ {h}] \in [S -> SUBSET (1 .. n)]
      BY <2>1
    <3> QED
      BY <2>4, <3>1 DEF Index
  <2> QED
    BY <2>2, <2>3, <2>4
<1>3. blank \in ChunkSet(n) /\ blank.next = a.freeList /\ blank.ptr = Null /\ blank.bin = NoBin
  <2>1. a.freeList \in 0 .. n
    BY DEF Arenas
  <2>2. BlankChunk \in ChunkSet(n) /\ BlankChunk.ptr = Null /\ BlankChunk.bin = NoBin
    BY ArenaConstants DEF BlankChunk, ChunkSet, None
  <2> QED
    BY <2>1, <2>2 DEF ChunkSet
<1>4. chunks \in [1 .. n -> ChunkSet(n)]
  BY <1>3 DEF Arenas
<1>5. handles \in [Addresses -> 0 .. n] /\ fault \in BOOLEAN
  <2>1. a.handles \in [Addresses -> 0 .. n] /\ a.fault \in BOOLEAN /\ None \in 0 .. n
    BY DEF Arenas, None
  <2>2. handles \in [Addresses -> 0 .. n]
    BY <2>1
  <2>3. (RegionOf(a, a.chunks[h].ptr) # {}) \in BOOLEAN
    OBVIOUS
  <2> QED
    BY <2>1, <2>2, <2>3
<1>6. /\ R.chunks = chunks /\ R.bins = a.bins /\ (R.fault <=> fault) /\ R.freeList = h
      /\ R.regions = a.regions /\ R.handles = handles
  BY <1>1 DEF Arenas
<1>7. R \in Arenas(n)
  <2>1. h \in 0 .. n
    OBVIOUS
  <2>2. a \in [chunks : [1 .. n -> ChunkSet(n)], freeList : 0 .. n, bins : [Bins -> SUBSET (1 .. n)],
                regions : SUBSET RegionSet, handles : [Addresses -> 0 .. n],
                streamChunks : Index(n), fault : BOOLEAN]
    BY DEF Arenas
  <2> HIDE DEF chunks, without, fault, handles
  <2> QED
    BY <2>1, <2>2, <1>1, <1>2, <1>4, <1>5 DEF Arenas
<1>8. \A k \in 1 .. n : R.chunks[k] = IF k = h THEN blank ELSE a.chunks[k]
  BY <1>6, <1>4 DEF Arenas
<1>9. \A k \in 1 .. n :
              IF k = h THEN PtrOf(R, k) = Null /\ NextOf(R, k) = a.freeList /\ BinOf(R, k) = NoBin
              ELSE /\ PtrOf(R, k) = PtrOf(a, k) /\ SizeOf(R, k) = SizeOf(a, k)
                   /\ NextOf(R, k) = NextOf(a, k) /\ PrevOf(R, k) = PrevOf(a, k)
                   /\ BinOf(R, k) = BinOf(a, k) /\ StreamOf(R, k) = StreamOf(a, k)
                   /\ (Idle(R, k) <=> Idle(a, k))
  <2> HIDE DEF blank
  <2> QED
    BY <1>8, <1>3 DEF PtrOf, SizeOf, NextOf, PrevOf, BinOf, StreamOf, Idle
<1>10. R.handles = [a.handles EXCEPT ![PtrOf(a, h)] = None]
  BY <1>6 DEF PtrOf
<1>11. R.fault <=> a.fault \/ RegionOf(a, PtrOf(a, h)) = {}
  BY <1>6 DEF PtrOf
<1> HIDE DEF chunks, without, fault, handles, blank
<1> QED
  BY <1>6, <1>7, <1>9, <1>10, <1>11 DEF Deleted

Merged(a, R, n, g, h) ==
  /\ R.regions = a.regions /\ R.bins = a.bins /\ R.freeList = h
  /\ R.handles = [a.handles EXCEPT ![PtrOf(a, h)] = None]
  /\ \A k \in 1 .. n :
       IF k = h THEN PtrOf(R, k) = Null /\ NextOf(R, k) = a.freeList /\ BinOf(R, k) = NoBin
       ELSE /\ PtrOf(R, k) = PtrOf(a, k) /\ BinOf(R, k) = BinOf(a, k)
            /\ StreamOf(R, k) = StreamOf(a, k) /\ (Idle(R, k) <=> Idle(a, k))
            /\ SizeOf(R, k) = IF k = g THEN SizeOf(a, g) + SizeOf(a, h) ELSE SizeOf(a, k)
            /\ NextOf(R, k) = IF k = g THEN NextOf(a, h) ELSE NextOf(a, k)
            /\ PrevOf(R, k) = IF k # g /\ k = NextOf(a, h) THEN g ELSE PrevOf(a, k)
  /\ R.fault <=> \/ a.fault \/ RegionOf(a, PtrOf(a, h)) = {}
                 \/ ~(/\ Idle(a, g) /\ Idle(a, h) /\ StreamOf(a, g) = StreamOf(a, h)
                      /\ PrevOf(a, h) = g)

\* Merge of g and h grows g by h and deletes h.
LEMMA MergeFields ==
  ASSUME NEW n \in Nat, NEW a \in Arenas(n), NEW g \in 1 .. n, NEW h \in 1 .. n
  PROVE  Merge(a, g, h) \in Arenas(n) /\ (g # h => Merged(a, Merge(a, g, h), n, g, h))
<1> PICK R : R = Merge(a, g, h)
  OBVIOUS
<1> DEFINE c1 == a.chunks[g]
           c2 == a.chunks[h]
           first == [c1 EXCEPT !.next = c2.next, !.size = @ + c2.size, !.sync = Larger(@, c2.sync)]
           relinked == [k \in DOMAIN a.chunks |->
                          IF k = g THEN first
                          ELSE IF k = c2.next THEN [a.chunks[k] EXCEPT !.prev = g]
                          ELSE a.chunks[k]]
           ok == ~c1.used /\ ~c2.used /\ c1.stream = c2.stream /\ c2.prev = g
           b == [a EXCEPT !.chunks = relinked, !.fault = @ \/ ~ok]
<1>1. R = DeleteChunk(b, h)
  BY DEF Merge, Enforce, Arenas
<1>2. DOMAIN a.chunks = 1 .. n /\ \A k \in 1 .. n : a.chunks[k] \in ChunkSet(n)
  BY DEF Arenas
<1>3. /\ first \in ChunkSet(n) /\ first.next = c2.next /\ first.size = c1.size + c2.size
      /\ first.ptr = c1.ptr /\ first.prev = c1.prev /\ first.used = c1.used /\ first.bin = c1.bin
      /\ first.stream = c1.stream
  <2>1. c1 \in ChunkSet(n) /\ c2 \in ChunkSet(n)
    BY <1>2
  <2>2. Larger(c1.sync, c2.sync) \in 0 .. MaxSync /\ c2.next \in 0 .. n /\ c1.size + c2.size \in Nat
    BY <2>1, ArenaConstants DEF Larger, ChunkSet
  <2>3. first = [c1 EXCEPT !.next = c2.next, !.size = c1.size + c2.size,
                           !.sync = Larger(c1.sync, c2.sync)]
    BY <2>1 DEF ChunkSet
  <2> HIDE DEF c1, c2, first
  <2> QED
    BY <2>1, <2>2, <2>3 DEF ChunkSet
<1>4. relinked \in [1 .. n -> ChunkSet(n)]
  <2>1. \A k \in 1 .. n : [a.chunks[k] EXCEPT !.prev = g] \in ChunkSet(n)
    <3>1. g \in 0 .. n
      OBVIOUS
    <3> QED
      BY <1>2, <3>1 DEF ChunkSet
  <2> QED
    BY <1>2, <1>3, <2>1
<1>5. \A k \in 1 .. n : relinked[k] = IF k = g THEN first
                          ELSE IF k = c2.next THEN [a.chunks[k] EXCEPT !.prev = g]
                          ELSE a.chunks[k]
  BY <1>2
<1> HIDE DEF relinked
<1>6. /\ b.chunks = relinked /\ b.bins = a.bins /\ b.freeList = a.freeList
      /\ b.regions = a.regions /\ b.handles = a.handles
      /\ (b.fault <=> a.fault \/ ~ok)
  BY DEF Arenas
<1>7. b \in Arenas(n)
  <2>1. ok \in BOOLEAN
    BY <1>2 DEF ChunkSet
  <2> HIDE DEF ok
  <2> QED
    BY <1>4, <2>1 DEF Arenas
<1> HIDE DEF b
<1>8. ASSUME NEW k \in 1 .. n
      PROVE  /\ PtrOf(b, k) = PtrOf(a, k) /\ BinOf(b, k) = BinOf(a, k)
             /\ StreamOf(b, k) = StreamOf(a, k) /\ (Idle(b, k) <=> Idle(a, k))
             /\ SizeOf(b, k) = IF k = g THEN SizeOf(a, g) + SizeOf(a, h) ELSE SizeOf(a, k)
             /\ NextOf(b, k) = IF k = g THEN NextOf(a, h) ELSE NextOf(a, k)
             /\ PrevOf(b, k) = IF k # g /\ k = NextOf(a, h) THEN g ELSE PrevOf(a, k)
  <2>1. CASE k = g
    BY <1>3, <1>5, <1>6, <2>1 DEF PtrOf, SizeOf, NextOf, PrevOf, BinOf, StreamOf, Idle
  <2>2. CASE k # g /\ k = c2.next
    <3>1. b.chunks[k] = [a.chunks[k] EXCEPT !.prev = g] /\ a.chunks[k] \in ChunkSet(n)
      BY <1>2, <1>5, <1>6, <2>2
    <3> QED
      BY <3>1, <2>2 DEF PtrOf, SizeOf, NextOf, PrevOf, BinOf, StreamOf, Idle, ChunkSet
  <2>3. CASE k # g /\ k # c2.next
    BY <1>5, <1>6, <2>3 DEF PtrOf, SizeOf, NextOf, PrevOf, BinOf, StreamOf, Idle
  <2> QED
    BY <2>1, <2>2, <2>3
<1>9. RegionOf(b, PtrOf(b, h)) = RegionOf(a, PtrOf(a, h)) /\ PtrOf(b, h) = PtrOf(a, h)
  BY <1>6, <1>8 DEF RegionOf
<1>10. ok <=> (/\ Idle(a, g) /\ Idle(a, h) /\ StreamOf(a, g) = StreamOf(a, h)
               /\ PrevOf(a, h) = g)
  BY DEF Idle, StreamOf, PrevOf
<1> HIDE DEF ok
<1>11. R \in Arenas(n) /\ Deleted(b, R, n, h)
  BY <1>1, <1>7, DeleteFields
<1>12. /\ R.regions = a.regions /\ R.bins = a.bins /\ R.freeList = h
       /\ R.handles = [a.handles EXCEPT ![PtrOf(a, h)] = None]
       /\ R.fault <=> \/ a.fault \/ RegionOf(a, PtrOf(a, h)) = {} \/ ~ok
  BY <1>6, <1>9, <1>11 DEF Deleted
<1>13. ASSUME g # h, NEW k \in 1 .. n
       PROVE  IF k = h THEN PtrOf(R, k) = Null /\ NextOf(R, k) = a.freeList /\ BinOf(R, k) = NoBin
              ELSE /\ PtrOf(R, k) = PtrOf(a, k) /\ BinOf(R, k) = BinOf(a, k)
                   /\ StreamOf(R, k) = StreamOf(a, k) /\ (Idle(R, k) <=> Idle(a, k))
                   /\ SizeOf(R, k) = IF k = g THEN SizeOf(a, g) + SizeOf(a, h) ELSE SizeOf(a, k)
                   /\ NextOf(R, k) = IF k = g THEN NextOf(a, h) ELSE NextOf(a, k)
                   /\ PrevOf(R, k) = IF k # g /\ k = NextOf(a, h) THEN g ELSE PrevOf(a, k)
  <2>1. CASE k = h
    BY <1>6, <1>11, <2>1 DEF Deleted
  <2>2. CASE k # h
    BY <1>8, <1>11, <2>2 DEF Deleted
  <2> QED
    BY <2>1, <2>2
<1> QED
  BY <1>10, <1>11, <1>12, <1>13 DEF Merged

\* The number of chunks once a handle was taken.
Grown(a, n) == IF a.freeList # None THEN n ELSE n + 1

\* AllocateChunk takes the head of the free list, or a new handle.
LEMMA AllocateFields ==
  ASSUME NEW n \in Nat, NEW a \in Arenas(n)
  PROVE  /\ Grown(a, n) \in Nat /\ Grown(a, n) \in {n, n + 1}
         /\ NewHandle(a) \in 1 .. Grown(a, n)
         /\ NewHandle(a) = IF a.freeList # None THEN a.freeList ELSE n + 1
         /\ AllocateChunk(a) \in Arenas(Grown(a, n))
         /\ AllocateChunk(a).freeList = IF a.freeList # None THEN NextOf(a, a.freeList) ELSE None
         /\ \A k \in 1 .. n : AllocateChunk(a).chunks[k] = a.chunks[k]
         /\ AllocateChunk(a).bins = a.bins /\ AllocateChunk(a).regions = a.regions
         /\ AllocateChunk(a).handles = a.handles /\ AllocateChunk(a).streamChunks = a.streamChunks
         /\ AllocateChunk(a).fault = a.fault
<1>1. CASE a.freeList # None
  <2>1. a.freeList \in 1 .. n /\ a.chunks[a.freeList].next \in 0 .. n
    BY <1>1 DEF Arenas, ChunkSet, None
  <2>2. AllocateChunk(a) = [a EXCEPT !.freeList = a.chunks[a.freeList].next]
    BY <1>1 DEF AllocateChunk
  <2>3. AllocateChunk(a) \in Arenas(n)
    BY <2>1, <2>2 DEF Arenas
  <2> QED
    BY <1>1, <2>1, <2>2, <2>3 DEF Grown, NewHandle, NextOf, Arenas
<1>2. CASE a.freeList = None
  <2> DEFINE b == AllocateChunk(a)
  <2>1. b = [a EXCEPT !.chunks = Append(a.chunks, BlankChunk)]
    BY <1>2 DEF AllocateChunk
  <2>2. a.chunks \in [1 .. n -> ChunkSet(n + 1)]
    BY DEF Arenas, ChunkSet
  <2>3. BlankChunk \in ChunkSet(n + 1)
    BY ArenaConstants DEF BlankChunk, ChunkSet, None
  <2>4. /\ Len(a.chunks) = n
        /\ Append(a.chunks, BlankChunk) \in [1 .. n + 1 -> ChunkSet(n + 1)]
        /\ \A h \in 1 .. n : Append(a.chunks, BlankChunk)[h] = a.chunks[h]
    BY <2>2, <2>3, ChunksGrow
  <2>5. /\ b.chunks = Append(a.chunks, BlankChunk) /\ b.bins = a.bins /\ b.regions = a.regions
        /\ b.handles = a.handles /\ b.streamChunks = a.streamChunks /\ b.fault = a.fault
        /\ b.freeList = a.freeList
    BY <2>1 DEF Arenas
  <2>6. /\ a.freeList \in 0 .. n + 1 /\ a.bins \in [Bins -> SUBSET (1 .. n + 1)]
        /\ a.regions \in SUBSET RegionSet /\ a.handles \in [Addresses -> 0 .. n + 1]
        /\ a.fault \in BOOLEAN
    BY DEF Arenas
  <2>7. a.streamChunks \in Index(n + 1)
    <3>1. PICK S \in SUBSET Streams : a.streamChunks \in [S -> SUBSET (1 .. n)]
      BY DEF Arenas, Index
    <3>2. a.streamChunks \in [S -> SUBSET (1 .. n + 1)]
      BY <3>1
    <3> QED
      BY <3>2 DEF Index
  <2>8. b \in Arenas(n + 1)
    BY <2>1, <2>4, <2>6, <2>7 DEF Arenas
  <2> HIDE DEF b
  <2>9. NewHandle(a) = n + 1
    BY <1>2, <2>4 DEF NewHandle
  <2>10. Grown(a, n) = n + 1
    BY <1>2 DEF Grown
  <2> QED
    BY <1>2, <2>4, <2>5, <2>8, <2>9, <2>10 DEF b
<1> QED
  BY <1>1, <1>2

Split(a, R, n, h, bytes) ==
  LET m == NewHandle(a) IN
  /\ R.regions = a.regions /\ R.streamChunks = a.streamChunks
  /\ R.freeList = IF a.freeList # None THEN NextOf(a, a.freeList) ELSE None
  /\ R.handles = [a.handles EXCEPT ![PtrOf(a, h) + bytes] = m]
  /\ PtrOf(R, m) = PtrOf(a, h) + bytes /\ SizeOf(R, m) = SizeOf(a, h) - bytes
  /\ NextOf(R, m) = NextOf(a, h) /\ PrevOf(R, m) = h /\ Idle(R, m)
  /\ BinOf(R, m) = BinNumForSize(SizeOf(a, h) - bytes) /\ StreamOf(R, m) = StreamOf(a, h)
  /\ \A k \in 1 .. n : k # m =>
       /\ PtrOf(R, k) = PtrOf(a, k) /\ BinOf(R, k) = BinOf(a, k)
       /\ StreamOf(R, k) = StreamOf(a, k) /\ (Idle(R, k) <=> Idle(a, k))
       /\ SizeOf(R, k) = IF k = h THEN bytes ELSE SizeOf(a, k)
       /\ NextOf(R, k) = IF k = h THEN m ELSE NextOf(a, k)
       /\ PrevOf(R, k) = IF k # h /\ k = NextOf(a, h) THEN m ELSE PrevOf(a, k)
  /\ \A b \in Bins : R.bins[b] = IF b = BinNumForSize(SizeOf(a, h) - bytes) THEN a.bins[b] \cup {m}
                                 ELSE a.bins[b]
  /\ R.fault <=> \/ a.fault \/ RegionOf(a, PtrOf(a, h) + bytes) = {}
                 \/ ~(Idle(a, h) /\ BinOf(a, h) = NoBin)

\* SplitChunk cuts one chunk in two and links the halves.
LEMMA SplitFields ==
  ASSUME NEW n \in Nat, NEW a \in Arenas(n), NEW h \in 1 .. n, h # NewHandle(a), NEW bytes \in Nat,
         bytes <= SizeOf(a, h), PtrOf(a, h) + bytes \in Addresses,
         BinNumForSize(SizeOf(a, h) - bytes) \in Bins
  PROVE  /\ SplitChunk(a, h, bytes) \in Arenas(Grown(a, n))
         /\ Split(a, SplitChunk(a, h, bytes), n, h, bytes)
<1> DEFINE G == AllocateChunk(a)
           m == NewHandle(a)
           N == Grown(a, n)
           c == a.chunks[h]
           q == c.ptr + bytes
           rest == [c EXCEPT !.size = @ - bytes, !.ptr = @ + bytes, !.prev = h, !.used = FALSE]
           short == [c EXCEPT !.size = bytes, !.next = m]
           relinked == [k \in DOMAIN G.chunks |->
                     IF k = h THEN short
                     ELSE IF k = m THEN rest
                     ELSE IF k = c.next THEN [a.chunks[k] EXCEPT !.prev = m]
                     ELSE G.chunks[k]]
           ok == ~c.used /\ c.bin = NoBin
           fault == a.fault \/ ~(RegionOf(a, q) # {}) \/ ~ok
           b == [G EXCEPT !.chunks = relinked, !.handles = [a.handles EXCEPT ![q] = m], !.fault = fault]
<1>1. /\ N \in Nat /\ N \in {n, n + 1} /\ m \in 1 .. N /\ G \in Arenas(N)
      /\ G.freeList = IF a.freeList # None THEN NextOf(a, a.freeList) ELSE None
      /\ \A k \in 1 .. n : G.chunks[k] = a.chunks[k]
      /\ G.bins = a.bins /\ G.regions = a.regions
      /\ G.handles = a.handles /\ G.streamChunks = a.streamChunks /\ G.fault = a.fault
      /\ 1 .. N = 1 .. n \cup {m}
  <2>1. m = IF a.freeList # None THEN a.freeList ELSE n + 1
    BY AllocateFields
  <2>2. a.freeList \in 0 .. n
    BY DEF Arenas
  <2>3. 1 .. N = 1 .. n \cup {m}
    BY <2>1, <2>2 DEF Grown, None
  <2> QED
    BY <2>3, AllocateFields
<1>2. SplitChunk(a, h, bytes) = InsertFreeChunkIntoBin(b, m)
  <2>1. [G EXCEPT !.chunks = relinked].regions = a.regions
    BY <1>1 DEF Arenas
  <2>2. [G EXCEPT !.chunks = relinked].handles = a.handles
    BY <1>1 DEF Arenas
  <2>3. RegionOf([G EXCEPT !.chunks = relinked], q) = RegionOf(a, q)
    BY <2>1 DEF RegionOf
  <2>4. rest.ptr = q
    <3>1. c \in ChunkSet(n)
      BY DEF Arenas
    <3> HIDE DEF c
    <3> QED
      BY <3>1 DEF ChunkSet
  <2>5. SplitChunk(a, h, bytes) =
          InsertFreeChunkIntoBin(Enforce(SetHandle([G EXCEPT !.chunks = relinked], rest.ptr, m), ok), m)
    BY DEF SplitChunk
  <2> HIDE DEF rest, short, relinked, ok, G, c, q
  <2>6. [[G EXCEPT !.chunks = relinked] EXCEPT !.handles = [a.handles EXCEPT ![q] = m]]
          = [G EXCEPT !.chunks = relinked, !.handles = [a.handles EXCEPT ![q] = m]]
    BY <1>1 DEF Arenas
  <2>7. SetHandle([G EXCEPT !.chunks = relinked], q, m)
          = [G EXCEPT !.chunks = relinked, !.handles = [a.handles EXCEPT ![q] = m],
                      !.fault = a.fault \/ ~(RegionOf(a, q) # {})]
    BY <1>1, <2>2, <2>3 DEF SetHandle, Enforce, Arenas
  <2>8. Enforce(SetHandle([G EXCEPT !.chunks = relinked], q, m), ok) = b
    BY <1>1, <2>7 DEF Enforce, Arenas
  <2> QED
    BY <2>4, <2>5, <2>8
<1>3. c \in ChunkSet(n) /\ ChunkSet(n) \subseteq ChunkSet(N) /\ h \in 1 .. N
  <2>1. 0 .. n \subseteq 0 .. N
    BY <1>1
  <2> HIDE DEF N
  <2> QED
    BY <1>1, <2>1 DEF Arenas, ChunkSet
<1>4. q \in Addresses /\ c.size - bytes \in Nat
  BY <1>3 DEF PtrOf, SizeOf, ChunkSet
<1>5. /\ rest \in ChunkSet(N) /\ rest.ptr = q /\ rest.size = c.size - bytes /\ rest.next = c.next
      /\ rest.prev = h /\ ~rest.used /\ rest.bin = c.bin /\ rest.stream = c.stream
  <2>1. rest = [c EXCEPT !.size = c.size - bytes, !.ptr = q, !.prev = h, !.used = FALSE]
    <3> HIDE DEF c
    <3> QED
      BY <1>3 DEF ChunkSet
  <2>2. c \in ChunkSet(N) /\ h \in 0 .. N
    BY <1>3, <1>1
  <2> HIDE DEF c, q, N, rest
  <2> QED
    BY <1>4, <2>1, <2>2 DEF ChunkSet
<1>6. /\ short \in ChunkSet(N) /\ short.ptr = c.ptr /\ short.size = bytes /\ short.next = m
      /\ short.prev = c.prev /\ short.used = c.used /\ short.bin = c.bin /\ short.stream = c.stream
  <2>1. c \in ChunkSet(N) /\ m \in 0 .. N
    BY <1>3, <1>1
  <2> HIDE DEF c, m, N
  <2> QED
    BY <2>1 DEF ChunkSet
<1> HIDE DEF rest, short
<1>7. relinked \in [1 .. N -> ChunkSet(N)]
      /\ \A k \in 1 .. N : relinked[k] = IF k = h THEN short
                     ELSE IF k = m THEN rest
                     ELSE IF k = c.next THEN [a.chunks[k] EXCEPT !.prev = m]
                     ELSE a.chunks[k]
  <2>1. DOMAIN G.chunks = 1 .. N /\ \A k \in 1 .. N : G.chunks[k] \in ChunkSet(N)
    BY <1>1 DEF Arenas
  <2>2. ASSUME NEW k \in 1 .. N, k # m PROVE [a.chunks[k] EXCEPT !.prev = m] \in ChunkSet(N)
    <3>1. a.chunks[k] \in ChunkSet(N) /\ m \in 0 .. N
      BY <1>1, <2>1, <2>2
    <3> HIDE DEF m, N
    <3> QED
      BY <3>1 DEF ChunkSet
  <2>3. \A k \in 1 .. N : k # m => G.chunks[k] = a.chunks[k]
    BY <1>1
  <2> HIDE DEF N, m, G
  <2> QED
    BY <1>5, <1>6, <2>1, <2>2, <2>3
<1> HIDE DEF relinked
<1>8. fault \in BOOLEAN /\ [a.handles EXCEPT ![q] = m] \in [Addresses -> 0 .. N]
  <2>1. a.fault \in BOOLEAN /\ a.handles \in [Addresses -> 0 .. N] /\ m \in 0 .. N
    BY <1>1 DEF Arenas
  <2>2. fault \in BOOLEAN
    BY <2>1
  <2>3. [a.handles EXCEPT ![q] = m] \in [Addresses -> 0 .. N]
    <3> HIDE DEF m, N, q
    <3> QED
      BY <2>1
  <2> QED
    BY <2>2, <2>3
<1>9. /\ b.chunks = relinked /\ b.handles = [a.handles EXCEPT ![q] = m] /\ (b.fault <=> fault)
      /\ b.bins = a.bins /\ b.regions = a.regions /\ b.freeList = G.freeList
      /\ b.streamChunks = a.streamChunks /\ b \in Arenas(N)
  <2> HIDE DEF fault, m, N, q, G
  <2> QED
    BY <1>1, <1>7, <1>8 DEF Arenas
<1> HIDE DEF b
<1>10. /\ PtrOf(b, m) = PtrOf(a, h) + bytes /\ SizeOf(b, m) = SizeOf(a, h) - bytes
       /\ NextOf(b, m) = NextOf(a, h) /\ PrevOf(b, m) = h /\ Idle(b, m)
       /\ BinOf(b, m) = BinOf(a, h) /\ StreamOf(b, m) = StreamOf(a, h)
  <2>1. b.chunks[m] = rest
    BY <1>1, <1>7, <1>9
  <2> QED
    BY <2>1, <1>5 DEF PtrOf, SizeOf, NextOf, PrevOf, BinOf, StreamOf, Idle
<1>11. ASSUME NEW k \in 1 .. n, k # m
       PROVE  /\ PtrOf(b, k) = PtrOf(a, k) /\ BinOf(b, k) = BinOf(a, k)
              /\ StreamOf(b, k) = StreamOf(a, k) /\ (Idle(b, k) <=> Idle(a, k))
              /\ SizeOf(b, k) = IF k = h THEN bytes ELSE SizeOf(a, k)
              /\ NextOf(b, k) = IF k = h THEN m ELSE NextOf(a, k)
              /\ PrevOf(b, k) = IF k # h /\ k = NextOf(a, h) THEN m ELSE PrevOf(a, k)
  <2>0. k \in 1 .. N
    BY <1>1
  <2> HIDE DEF N, m
  <2>1. CASE k = h
    BY <1>6, <1>7, <1>9, <2>0, <2>1 DEF PtrOf, SizeOf, NextOf, PrevOf, BinOf, StreamOf, Idle
  <2>2. CASE k # h /\ k = c.next
    <3>1. b.chunks[k] = [a.chunks[k] EXCEPT !.prev = m] /\ a.chunks[k] \in ChunkSet(n)
      BY <1>7, <1>9, <1>11, <2>0, <2>2 DEF Arenas
    <3> QED
      BY <3>1, <2>2 DEF PtrOf, SizeOf, NextOf, PrevOf, BinOf, StreamOf, Idle, ChunkSet
  <2>3. CASE k # h /\ k # c.next
    BY <1>7, <1>9, <1>11, <2>0, <2>3 DEF PtrOf, SizeOf, NextOf, PrevOf, BinOf, StreamOf, Idle
  <2> QED
    BY <2>1, <2>2, <2>3
<1>12. fault <=> \/ a.fault \/ RegionOf(a, PtrOf(a, h) + bytes) = {}
                 \/ ~(Idle(a, h) /\ BinOf(a, h) = NoBin)
  BY DEF Idle, BinOf, PtrOf
<1> DEFINE R == InsertFreeChunkIntoBin(b, m)
<1>13. R \in Arenas(N) /\ Inserted(b, R, N, m)
  BY <1>1, <1>9, <1>10, InsertFields
<1>14. n <= N /\ \A k \in 1 .. n : k \in 1 .. N
  BY <1>1
<1> HIDE DEF R, fault, N, m, q
<1>15. Split(a, R, n, h, bytes)
  <2>1. SameShape(b, R, N) /\ SameUse(b, R, N) /\ R.streamChunks = b.streamChunks
    BY <1>13 DEF Inserted
  <2>2. /\ R.regions = a.regions /\ R.streamChunks = a.streamChunks
        /\ R.freeList = IF a.freeList # None THEN NextOf(a, a.freeList) ELSE None
        /\ R.handles = [a.handles EXCEPT ![PtrOf(a, h) + bytes] = m]
    BY <1>1, <1>9, <2>1 DEF SameShape, q, PtrOf
  <2>3. /\ PtrOf(R, m) = PtrOf(a, h) + bytes /\ SizeOf(R, m) = SizeOf(a, h) - bytes
        /\ NextOf(R, m) = NextOf(a, h) /\ PrevOf(R, m) = h /\ Idle(R, m)
        /\ BinOf(R, m) = BinNumForSize(SizeOf(a, h) - bytes) /\ StreamOf(R, m) = StreamOf(a, h)
    BY <1>1, <1>10, <1>13, <2>1 DEF SameShape, SameUse, Inserted
  <2>4. ASSUME NEW k \in 1 .. n, k # m
        PROVE  /\ PtrOf(R, k) = PtrOf(a, k) /\ BinOf(R, k) = BinOf(a, k)
               /\ StreamOf(R, k) = StreamOf(a, k) /\ (Idle(R, k) <=> Idle(a, k))
               /\ SizeOf(R, k) = IF k = h THEN bytes ELSE SizeOf(a, k)
               /\ NextOf(R, k) = IF k = h THEN m ELSE NextOf(a, k)
               /\ PrevOf(R, k) = IF k # h /\ k = NextOf(a, h) THEN m ELSE PrevOf(a, k)
    BY <1>14, <1>11, <1>13, <2>1, <2>4 DEF SameShape, SameUse, Inserted
  <2>5. \A x \in Bins : R.bins[x] = IF x = BinNumForSize(SizeOf(a, h) - bytes) THEN a.bins[x] \cup {m}
                                    ELSE a.bins[x]
    BY <1>9, <1>10, <1>13 DEF Inserted
  <2>6. R.fault <=> \/ a.fault \/ RegionOf(a, PtrOf(a, h) + bytes) = {}
                    \/ ~(Idle(a, h) /\ BinOf(a, h) = NoBin)
    BY <1>9, <1>10, <1>12, <1>13 DEF Inserted
  <2> QED
    BY <2>2, <2>3, <2>4, <2>5, <2>6 DEF Split, m
<1> QED
  BY <1>2, <1>13, <1>15 DEF R, N

\* A region r obtained from the device whose one chunk has handle m.
Extended(a, R, n, r) ==
  LET m == NewHandle(a) IN
  /\ R.regions = a.regions \cup {r} /\ R.streamChunks = a.streamChunks
  /\ R.freeList = IF a.freeList # None THEN NextOf(a, a.freeList) ELSE None
  /\ R.handles = [q \in Addresses |-> IF q = r.ptr THEN m
                                     ELSE IF r.ptr <= q /\ q < r.ptr + r.size THEN None
                                     ELSE a.handles[q]]
  /\ PtrOf(R, m) = r.ptr /\ SizeOf(R, m) = r.size /\ NextOf(R, m) = None /\ PrevOf(R, m) = None
  /\ Idle(R, m) /\ BinOf(R, m) = BinNumForSize(r.size) /\ StreamOf(R, m) = NoStream
  /\ \A k \in 1 .. n : k # m =>
       /\ PtrOf(R, k) = PtrOf(a, k) /\ BinOf(R, k) = BinOf(a, k)
       /\ StreamOf(R, k) = StreamOf(a, k) /\ (Idle(R, k) <=> Idle(a, k))
       /\ SizeOf(R, k) = SizeOf(a, k) /\ NextOf(R, k) = NextOf(a, k) /\ PrevOf(R, k) = PrevOf(a, k)
       /\ SyncOf(R, k) = SyncOf(a, k)
  /\ \A b \in Bins : R.bins[b] = IF b = BinNumForSize(r.size) THEN a.bins[b] \cup {m} ELSE a.bins[b]
  /\ (R.fault <=> a.fault)

\* AddRegion adds a region with one free chunk over all of it.
LEMMA ExtendFields ==
  ASSUME NEW n \in Nat, NEW a \in Arenas(n), NEW p \in Addresses, NEW bytes \in Nat \ {0},
         BinNumForSize(bytes) \in Bins, stats.extensions \in Int
  PROVE  /\ AddRegion(a, p, bytes) \in Arenas(Grown(a, n))
         /\ Extended(a, AddRegion(a, p, bytes), n, [ptr |-> p, size |-> bytes, id |-> stats.extensions])
<1> DEFINE r == [ptr |-> p, size |-> bytes, id |-> stats.extensions]
           cleared == [q \in Addresses |-> IF p <= q /\ q < p + bytes THEN None ELSE a.handles[q]]
           mapped == [a EXCEPT !.regions = a.regions \cup {r}, !.handles = cleared]
           G == AllocateChunk(mapped)
           m == NewHandle(a)
           N == Grown(a, n)
           chunk == [BlankChunk EXCEPT !.ptr = p, !.size = bytes]
           chunks == [G.chunks EXCEPT ![m] = chunk]
           handles == [cleared EXCEPT ![p] = m]
           b == [G EXCEPT !.chunks = chunks, !.handles = handles]
<1>1. /\ r \in RegionSet /\ r.ptr = p /\ r.size = bytes
      /\ None \in 0 .. n /\ cleared \in [Addresses -> 0 .. n]
  BY DEF RegionSet, Arenas, None
<1> HIDE DEF r
<1>2. /\ mapped \in Arenas(n) /\ mapped.chunks = a.chunks /\ mapped.freeList = a.freeList
      /\ mapped.bins = a.bins /\ mapped.streamChunks = a.streamChunks /\ mapped.fault = a.fault
      /\ mapped.regions = a.regions \cup {r} /\ mapped.handles = cleared
  <2> HIDE DEF cleared
  <2> QED
    BY <1>1 DEF Arenas
<1> HIDE DEF mapped
<1>3. /\ NewHandle(mapped) = m /\ Grown(mapped, n) = N
      /\ \A k \in 1 .. n : NextOf(mapped, k) = NextOf(a, k)
  BY <1>2 DEF NewHandle, Grown, NextOf
<1>4. /\ N \in Nat /\ N \in {n, n + 1} /\ m \in 1 .. N /\ G \in Arenas(N)
      /\ G.freeList = IF a.freeList # None THEN NextOf(a, a.freeList) ELSE None
      /\ \A k \in 1 .. n : G.chunks[k] = a.chunks[k]
      /\ G.bins = a.bins /\ G.regions = a.regions \cup {r} /\ G.handles = cleared
      /\ G.streamChunks = a.streamChunks /\ G.fault = a.fault
      /\ 1 .. N = 1 .. n \cup {m}
  <2>1. m = IF a.freeList # None THEN a.freeList ELSE n + 1
    BY AllocateFields
  <2>2. a.freeList \in 0 .. n
    BY DEF Arenas
  <2>3. 1 .. N = 1 .. n \cup {m}
    BY <2>1, <2>2 DEF Grown, None
  <2>4. a.freeList # None => NextOf(mapped, a.freeList) = NextOf(a, a.freeList)
    BY <1>3, <2>2 DEF None
  <2> HIDE DEF m, N, cleared
  <2> QED
    BY <1>2, <1>3, <2>3, <2>4, AllocateFields
<1>5. /\ chunk \in ChunkSet(N) /\ chunk.ptr = p /\ chunk.size = bytes /\ chunk.next = None
      /\ chunk.prev = None /\ ~chunk.used /\ chunk.bin = NoBin /\ chunk.stream = NoStream
  <2>1. None \in 0 .. N /\ bytes \in Nat /\ 0 \in 0 .. MaxSync
    BY <1>4, ArenaConstants DEF None
  <2>2. BlankChunk \in ChunkSet(N)
    BY <2>1 DEF BlankChunk, ChunkSet
  <2> HIDE DEF N
  <2> QED
    BY <2>1, <2>2 DEF BlankChunk, ChunkSet
<1> HIDE DEF chunk
<1>6. /\ chunks \in [1 .. N -> ChunkSet(N)] /\ chunks[m] = chunk
      /\ \A k \in 1 .. n : k # m => chunks[k] = a.chunks[k]
  <2> HIDE DEF N, m, G
  <2> QED
    BY <1>4, <1>5 DEF Arenas
<1>7. /\ handles \in [Addresses -> 0 .. N]
      /\ handles = [q \in Addresses |-> IF q = p THEN m
                                        ELSE IF p <= q /\ q < p + bytes THEN None ELSE a.handles[q]]
  <2>1. m \in 0 .. N
    BY <1>4
  <2>2. handles = [q \in Addresses |-> IF q = p THEN m
                                        ELSE IF p <= q /\ q < p + bytes THEN None ELSE a.handles[q]]
    BY DEF cleared
  <2>3. cleared \in [Addresses -> 0 .. N]
    BY <1>4 DEF Arenas
  <2> HIDE DEF cleared, m, N
  <2> QED
    BY <2>1, <2>2, <2>3
<1> HIDE DEF chunks, handles
<1>8. /\ b \in Arenas(N) /\ b.chunks = chunks /\ b.handles = handles /\ b.bins = a.bins
      /\ b.regions = a.regions \cup {r} /\ b.streamChunks = a.streamChunks /\ b.fault = a.fault
      /\ b.freeList = IF a.freeList # None THEN NextOf(a, a.freeList) ELSE None
  <2> HIDE DEF N, m, G, cleared
  <2> QED
    BY <1>4, <1>6, <1>7 DEF Arenas
<1>9. AddRegion(a, p, bytes) = InsertFreeChunkIntoBin(b, m)
  <2> DEFINE filled == [G EXCEPT !.chunks = chunks]
  <2>1. p \in Int /\ bytes > 0
    BY DEF Addresses
  <2>2. AddRegion(a, p, bytes) = InsertFreeChunkIntoBin(SetHandle(filled, p, m), m)
    <3>1. NewHandle(mapped) = m
      BY <1>3
    <3>2. [a EXCEPT !.regions = @ \cup {[ptr |-> p, size |-> bytes, id |-> stats.extensions]},
                    !.handles = [q \in Addresses |-> IF p <= q /\ q < p + bytes THEN None ELSE @[q]]]
            = mapped
      BY DEF mapped, r, Arenas
    <3> HIDE DEF m
    <3> QED
      BY <3>1, <3>2 DEF AddRegion, chunks, chunk
  <2>3. filled.regions = a.regions \cup {r} /\ filled.handles = cleared /\ filled.fault = a.fault
    <3> HIDE DEF m, cleared, N
    <3> QED
      BY <1>4 DEF Arenas
  <2>4. r \in RegionOf(filled, p)
    BY <1>1, <2>1, <2>3 DEF RegionOf
  <2>5. SetHandle(filled, p, m) = b
    <3> DEFINE cond == RegionOf(filled, p) # {}
    <3>1. cond
      BY <2>4
    <3>2. SetHandle(filled, p, m) = [filled EXCEPT !.handles = [filled.handles EXCEPT ![p] = m],
                                                   !.fault = filled.fault \/ ~cond]
      BY <1>4 DEF SetHandle, Enforce, Arenas
    <3>3. (filled.fault \/ ~cond) = G.fault
      BY <3>1, <2>3, <1>4 DEF Arenas
    <3>4. [filled.handles EXCEPT ![p] = m] = handles
      BY <2>3 DEF handles
    <3> HIDE DEF cond
    <3>5. SetHandle(filled, p, m) = [filled EXCEPT !.handles = handles, !.fault = G.fault]
      BY <3>2, <3>3, <3>4
    <3> HIDE DEF G
    <3> QED
      BY <1>4, <3>5 DEF Arenas
  <2> QED
    BY <2>2, <2>5
<1> HIDE DEF b
<1>10. /\ PtrOf(b, m) = p /\ SizeOf(b, m) = bytes /\ NextOf(b, m) = None /\ PrevOf(b, m) = None
       /\ Idle(b, m) /\ BinOf(b, m) = NoBin /\ StreamOf(b, m) = NoStream
  BY <1>5, <1>6, <1>8 DEF PtrOf, SizeOf, NextOf, PrevOf, BinOf, StreamOf, Idle
<1>11. ASSUME NEW k \in 1 .. n, k # m
       PROVE  /\ PtrOf(b, k) = PtrOf(a, k) /\ BinOf(b, k) = BinOf(a, k)
              /\ StreamOf(b, k) = StreamOf(a, k) /\ (Idle(b, k) <=> Idle(a, k))
              /\ SizeOf(b, k) = SizeOf(a, k) /\ NextOf(b, k) = NextOf(a, k)
              /\ PrevOf(b, k) = PrevOf(a, k)
  BY <1>6, <1>8, <1>11 DEF PtrOf, SizeOf, NextOf, PrevOf, BinOf, StreamOf, Idle
<1>15. ASSUME NEW k \in 1 .. n, k # m PROVE SyncOf(b, k) = SyncOf(a, k)
  BY <1>6, <1>8, <1>15 DEF SyncOf
<1> DEFINE R == InsertFreeChunkIntoBin(b, m)
<1>12. R \in Arenas(N) /\ Inserted(b, R, N, m)
  BY <1>4, <1>8, <1>10, InsertFields
<1>13. n <= N /\ \A k \in 1 .. n : k \in 1 .. N
  BY <1>4
<1> HIDE DEF R, N, m
<1>14. Extended(a, R, n, r)
  <2>1. SameShape(b, R, N) /\ SameUse(b, R, N) /\ R.streamChunks = b.streamChunks
    BY <1>12 DEF Inserted
  <2>2. /\ R.regions = a.regions \cup {r} /\ R.streamChunks = a.streamChunks
        /\ R.freeList = IF a.freeList # None THEN NextOf(a, a.freeList) ELSE None
        /\ R.handles = [q \in Addresses |-> IF q = r.ptr THEN m
                                     ELSE IF r.ptr <= q /\ q < r.ptr + r.size THEN None
                                     ELSE a.handles[q]]
    BY <1>1, <1>7, <1>8, <2>1 DEF SameShape
  <2>3. /\ PtrOf(R, m) = r.ptr /\ SizeOf(R, m) = r.size /\ NextOf(R, m) = None /\ PrevOf(R, m) = None
        /\ Idle(R, m) /\ BinOf(R, m) = BinNumForSize(r.size) /\ StreamOf(R, m) = NoStream
    BY <1>1, <1>4, <1>10, <1>12, <2>1 DEF SameShape, SameUse, Inserted
  <2>4. ASSUME NEW k \in 1 .. n, k # m
        PROVE  /\ PtrOf(R, k) = PtrOf(a, k) /\ BinOf(R, k) = BinOf(a, k)
               /\ StreamOf(R, k) = StreamOf(a, k) /\ (Idle(R, k) <=> Idle(a, k))
               /\ SizeOf(R, k) = SizeOf(a, k) /\ NextOf(R, k) = NextOf(a, k)
               /\ PrevOf(R, k) = PrevOf(a, k) /\ SyncOf(R, k) = SyncOf(a, k)
    BY <1>13, <1>11, <1>12, <1>15, <2>1, <2>4 DEF SameShape, SameUse, Inserted
  <2>5. \A x \in Bins : R.bins[x] = IF x = BinNumForSize(r.size) THEN a.bins[x] \cup {m} ELSE a.bins[x]
    BY <1>1, <1>8, <1>10, <1>12 DEF Inserted
  <2>6. R.fault <=> a.fault
    BY <1>8, <1>10, <1>12 DEF Inserted
  <2> QED
    BY <2>2, <2>3, <2>4, <2>5, <2>6 DEF Extended, m
<1> QED
  BY <1>9, <1>12, <1>14 DEF R, N, r

SameFiling(a, b, n) == b.bins = a.bins /\ \A h \in 1 .. n : BinOf(b, h) = BinOf(a, h)

\* The chunk h marked used, or freed, and perhaps moved to another stream.
Marked(a, R, n, h) ==
  /\ SameShape(a, R, n) /\ SameFiling(a, R, n)
  /\ \A k \in 1 .. n : k # h => (Idle(R, k) <=> Idle(a, k)) /\ StreamOf(R, k) = StreamOf(a, k)

\* Marking a chunk used changes nothing else.
LEMMA UseFields ==
  ASSUME NEW n \in Nat, NEW a \in Arenas(n), NEW h \in 1 .. n, NEW R,
         R = [a EXCEPT !.chunks[h].used = TRUE]
  PROVE  R \in Arenas(n) /\ Marked(a, R, n, h) /\ ~Idle(R, h) /\ R.fault = a.fault
         /\ R.streamChunks = a.streamChunks
<1> DEFINE c == a.chunks[h]
           chunks == [a.chunks EXCEPT ![h] = [c EXCEPT !.used = TRUE]]
<1>1. R = [a EXCEPT !.chunks = chunks]
  BY DEF Arenas
<1>2. c \in ChunkSet(n) /\ [c EXCEPT !.used = TRUE] \in ChunkSet(n)
  BY DEF Arenas, ChunkSet
<1>3. /\ chunks \in [1 .. n -> ChunkSet(n)] /\ chunks[h] = [c EXCEPT !.used = TRUE]
      /\ \A k \in 1 .. n : k # h => chunks[k] = a.chunks[k]
  <2> HIDE DEF c
  <2> QED
    BY <1>2 DEF Arenas
<1> HIDE DEF chunks
<1>4. /\ R \in Arenas(n) /\ R.chunks = chunks /\ R.bins = a.bins /\ R.fault = a.fault
      /\ R.freeList = a.freeList /\ R.regions = a.regions /\ R.handles = a.handles
      /\ R.streamChunks = a.streamChunks
  BY <1>1, <1>3 DEF Arenas
<1>5. ASSUME NEW k \in 1 .. n
      PROVE  /\ PtrOf(R, k) = PtrOf(a, k) /\ BinOf(R, k) = BinOf(a, k)
             /\ StreamOf(R, k) = StreamOf(a, k) /\ (k # h => (Idle(R, k) <=> Idle(a, k)))
             /\ SizeOf(R, k) = SizeOf(a, k) /\ NextOf(R, k) = NextOf(a, k)
             /\ PrevOf(R, k) = PrevOf(a, k)
  <2>1. R.chunks[k] = IF k = h THEN [c EXCEPT !.used = TRUE] ELSE a.chunks[k]
    BY <1>3, <1>4
  <2> QED
    BY <1>2, <2>1 DEF PtrOf, SizeOf, NextOf, PrevOf, BinOf, StreamOf, Idle, ChunkSet
<1>6. ~Idle(R, h)
  BY <1>2, <1>3, <1>4 DEF Idle, ChunkSet
<1> QED
  BY <1>4, <1>5, <1>6 DEF Marked, SameShape, SameFiling

Assigned(a, h, s, sync) ==
  [a EXCEPT !.chunks[h].stream = s, !.chunks[h].sync = sync, !.streamChunks[s] = @ \cup {h}]

\* Putting a chunk on a stream changes nothing but its stream and the index.
LEMMA AssignFields ==
  ASSUME NEW n \in Nat, NEW a \in Arenas(n), NEW h \in 1 .. n, NEW s \in Streams,
         s \in DOMAIN a.streamChunks, NEW sync \in 0 .. MaxSync, NEW R,
         R = Assigned(a, h, s, sync)
  PROVE  R \in Arenas(n) /\ Marked(a, R, n, h) /\ (Idle(R, h) <=> Idle(a, h)) /\ R.fault = a.fault
<1> DEFINE c == a.chunks[h]
           d == [c EXCEPT !.stream = s, !.sync = sync]
           chunks == [a.chunks EXCEPT ![h] = d]
           index == [a.streamChunks EXCEPT ![s] = @ \cup {h}]
<1>1. R = [a EXCEPT !.chunks = chunks, !.streamChunks = index]
  <2>1. c \in ChunkSet(n) /\ DOMAIN a.chunks = 1 .. n
    BY DEF Arenas
  <2>2. R
         = [a EXCEPT !.chunks = [[a.chunks EXCEPT ![h] = [c EXCEPT !.stream = s]]
                                    EXCEPT ![h] = [[c EXCEPT !.stream = s] EXCEPT !.sync = sync]],
                     !.streamChunks = index]
    BY <2>1 DEF Arenas, Assigned
  <2>3. [[a.chunks EXCEPT ![h] = [c EXCEPT !.stream = s]]
            EXCEPT ![h] = [[c EXCEPT !.stream = s] EXCEPT !.sync = sync]] = chunks
    <3>1. d = [[c EXCEPT !.stream = s] EXCEPT !.sync = sync]
      BY <2>1 DEF ChunkSet
    <3> HIDE DEF d, c
    <3> QED
      BY <2>1, <3>1
  <2> QED
    BY <2>2, <2>3
<1>2. c \in ChunkSet(n) /\ d \in ChunkSet(n) /\ d.used = c.used /\ d.ptr = c.ptr /\ d.size = c.size
      /\ d.next = c.next /\ d.prev = c.prev /\ d.bin = c.bin
  <2>1. c \in ChunkSet(n)
    BY DEF Arenas
  <2> HIDE DEF c
  <2> QED
    BY <2>1 DEF ChunkSet
<1> HIDE DEF d
<1>3. /\ chunks \in [1 .. n -> ChunkSet(n)] /\ chunks[h] = d
      /\ \A k \in 1 .. n : k # h => chunks[k] = a.chunks[k]
  <2> HIDE DEF c
  <2> QED
    BY <1>2 DEF Arenas
<1>4. index \in Index(n)
  <2>1. PICK S \in SUBSET Streams : a.streamChunks \in [S -> SUBSET (1 .. n)]
    BY DEF Arenas, Index
  <2>2. index \in [S -> SUBSET (1 .. n)]
    BY <2>1
  <2> QED
    BY <2>2 DEF Index
<1> HIDE DEF chunks, index
<1>5. /\ R \in Arenas(n) /\ R.chunks = chunks /\ R.bins = a.bins /\ R.fault = a.fault
      /\ R.freeList = a.freeList /\ R.regions = a.regions /\ R.handles = a.handles
  BY <1>1, <1>3, <1>4 DEF Arenas
<1>6. ASSUME NEW k \in 1 .. n
      PROVE  /\ PtrOf(R, k) = PtrOf(a, k) /\ BinOf(R, k) = BinOf(a, k)
             /\ (k # h => StreamOf(R, k) = StreamOf(a, k)) /\ (Idle(R, k) <=> Idle(a, k))
             /\ SizeOf(R, k) = SizeOf(a, k) /\ NextOf(R, k) = NextOf(a, k)
             /\ PrevOf(R, k) = PrevOf(a, k)
  <2>1. R.chunks[k] = IF k = h THEN d ELSE a.chunks[k]
    BY <1>3, <1>5
  <2> QED
    BY <1>2, <2>1 DEF PtrOf, SizeOf, NextOf, PrevOf, BinOf, StreamOf, Idle
<1> QED
  BY <1>5, <1>6 DEF Marked, SameShape, SameFiling

\* Marking a chunk free changes nothing else; a failed ENFORCE sets the fault.
LEMMA FreeFields ==
  ASSUME NEW n \in Nat, NEW a \in Arenas(n), NEW h \in 1 .. n, NEW ok \in BOOLEAN, NEW R,
         R = Enforce([a EXCEPT !.chunks[h].used = FALSE], ok)
  PROVE  /\ R \in Arenas(n) /\ Marked(a, R, n, h) /\ Idle(R, h) /\ (R.fault <=> a.fault \/ ~ok)
         /\ StreamOf(R, h) = StreamOf(a, h)
<1> DEFINE c == a.chunks[h]
           chunks == [a.chunks EXCEPT ![h] = [c EXCEPT !.used = FALSE]]
<1>1. R = [a EXCEPT !.chunks = chunks, !.fault = a.fault \/ ~ok]
  BY DEF Arenas, Enforce
<1>2. c \in ChunkSet(n) /\ [c EXCEPT !.used = FALSE] \in ChunkSet(n)
  BY DEF Arenas, ChunkSet
<1>3. /\ chunks \in [1 .. n -> ChunkSet(n)] /\ chunks[h] = [c EXCEPT !.used = FALSE]
      /\ \A k \in 1 .. n : k # h => chunks[k] = a.chunks[k]
  <2> HIDE DEF c
  <2> QED
    BY <1>2 DEF Arenas
<1> HIDE DEF chunks
<1>4. /\ R \in Arenas(n) /\ R.chunks = chunks /\ R.bins = a.bins /\ (R.fault <=> a.fault \/ ~ok)
      /\ R.freeList = a.freeList /\ R.regions = a.regions /\ R.handles = a.handles
  BY <1>1, <1>3 DEF Arenas
<1>5. ASSUME NEW k \in 1 .. n
      PROVE  /\ PtrOf(R, k) = PtrOf(a, k) /\ BinOf(R, k) = BinOf(a, k)
             /\ StreamOf(R, k) = StreamOf(a, k) /\ (k # h => (Idle(R, k) <=> Idle(a, k)))
             /\ SizeOf(R, k) = SizeOf(a, k) /\ NextOf(R, k) = NextOf(a, k)
             /\ PrevOf(R, k) = PrevOf(a, k)
  <2>1. R.chunks[k] = IF k = h THEN [c EXCEPT !.used = FALSE] ELSE a.chunks[k]
    BY <1>3, <1>4
  <2> QED
    BY <1>2, <2>1 DEF PtrOf, SizeOf, NextOf, PrevOf, BinOf, StreamOf, Idle, ChunkSet
<1>6. Idle(R, h)
  BY <1>2, <1>3, <1>4 DEF Idle, ChunkSet
<1> QED
  BY <1>4, <1>5, <1>6 DEF Marked, SameShape, SameFiling

\* A stream's first request adds an empty entry to the index.
LEMMA RegisterFields ==
  ASSUME NEW n \in Nat, NEW a \in Arenas(n), NEW s \in Streams \cup {NoStream}
  PROVE  /\ RegisterStream(a, s) \in Arenas(n) /\ SameShape(a, RegisterStream(a, s), n)
         /\ SameUse(a, RegisterStream(a, s), n) /\ SameFiling(a, RegisterStream(a, s), n)
         /\ RegisterStream(a, s).fault = a.fault /\ RegisterStream(a, s).chunks = a.chunks
         /\ s # NoStream => s \in DOMAIN RegisterStream(a, s).streamChunks
<1>1. CASE s = NoStream \/ s \in DOMAIN a.streamChunks
  BY <1>1 DEF RegisterStream, SameShape, SameUse, SameFiling
<1>2. CASE s \in Streams /\ s # NoStream /\ s \notin DOMAIN a.streamChunks
  <2> DEFINE index == [t \in DOMAIN a.streamChunks \cup {s} |-> IF t = s THEN {} ELSE a.streamChunks[t]]
             R == [a EXCEPT !.streamChunks = index]
  <2>1. RegisterStream(a, s) = R
    BY <1>2 DEF RegisterStream, Arenas
  <2>2. PICK S \in SUBSET Streams : a.streamChunks \in [S -> SUBSET (1 .. n)]
    BY DEF Arenas, Index
  <2>3. index \in [S \cup {s} -> SUBSET (1 .. n)]
    BY <2>2
  <2>4. index \in Index(n)
    BY <1>2, <2>3 DEF Index
  <2>5. s \in DOMAIN index
    OBVIOUS
  <2> HIDE DEF index
  <2>6. /\ R \in Arenas(n) /\ R.chunks = a.chunks /\ R.bins = a.bins /\ R.fault = a.fault
        /\ R.freeList = a.freeList /\ R.regions = a.regions /\ R.handles = a.handles
        /\ R.streamChunks = index
    BY <2>4 DEF Arenas
  <2> HIDE DEF R
  <2>7. SameShape(a, R, n) /\ SameUse(a, R, n) /\ SameFiling(a, R, n)
    BY <2>6 DEF SameShape, SameUse, SameFiling, PtrOf, SizeOf, NextOf, PrevOf, BinOf, StreamOf, Idle
  <2> QED
    BY <2>1, <2>5, <2>6, <2>7
<1> QED
  BY <1>1, <1>2

Unassigned(a, s) ==
  [a EXCEPT !.chunks = [h \in DOMAIN @ |-> IF h \in a.streamChunks[s] THEN [@[h] EXCEPT !.stream = NoStream]
                                           ELSE @[h]],
            !.streamChunks = Restrict(a.streamChunks, DOMAIN a.streamChunks \ {s})]

\* Taking the chunks of a stream off it leaves their shape, use and bins alone.
LEMMA UnassignFields ==
  ASSUME NEW n \in Nat, NEW a \in Arenas(n), NEW s \in DOMAIN a.streamChunks, NEW R,
         R = Unassigned(a, s)
  PROVE  /\ R \in Arenas(n) /\ SameShape(a, R, n) /\ SameFiling(a, R, n) /\ R.fault = a.fault
         /\ \A h \in 1 .. n : Idle(R, h) <=> Idle(a, h)
<1> DEFINE chunks == [h \in 1 .. n |-> IF h \in a.streamChunks[s]
                                       THEN [a.chunks[h] EXCEPT !.stream = NoStream] ELSE a.chunks[h]]
           index == Restrict(a.streamChunks, DOMAIN a.streamChunks \ {s})
<1>1. R = [a EXCEPT !.chunks = chunks, !.streamChunks = index]
  BY DEF Arenas, Unassigned
<1>2. \A h \in 1 .. n : /\ a.chunks[h] \in ChunkSet(n)
                        /\ [a.chunks[h] EXCEPT !.stream = NoStream] \in ChunkSet(n)
  BY DEF Arenas, ChunkSet
<1>3. chunks \in [1 .. n -> ChunkSet(n)]
  BY <1>2
<1>4. index \in Index(n)
  <2>1. PICK S \in SUBSET Streams : a.streamChunks \in [S -> SUBSET (1 .. n)]
    BY DEF Arenas, Index
  <2>2. index \in [S \ {s} -> SUBSET (1 .. n)]
    BY <2>1 DEF Restrict
  <2> QED
    BY <2>2 DEF Index
<1> HIDE DEF index
<1>5. \A h \in 1 .. n : \/ chunks[h] = a.chunks[h]
                        \/ chunks[h] = [a.chunks[h] EXCEPT !.stream = NoStream]
  OBVIOUS
<1> HIDE DEF chunks
<1>6. /\ R \in Arenas(n) /\ R.chunks = chunks /\ R.bins = a.bins /\ R.fault = a.fault
      /\ R.freeList = a.freeList /\ R.regions = a.regions /\ R.handles = a.handles
  BY <1>1, <1>3, <1>4 DEF Arenas
<1>7. ASSUME NEW k \in 1 .. n
      PROVE  /\ PtrOf(R, k) = PtrOf(a, k) /\ BinOf(R, k) = BinOf(a, k)
             /\ (Idle(R, k) <=> Idle(a, k))
             /\ SizeOf(R, k) = SizeOf(a, k) /\ NextOf(R, k) = NextOf(a, k)
             /\ PrevOf(R, k) = PrevOf(a, k)
  <2>1. CASE R.chunks[k] = a.chunks[k]
    BY <2>1 DEF PtrOf, SizeOf, NextOf, PrevOf, BinOf, Idle
  <2>2. CASE R.chunks[k] = [a.chunks[k] EXCEPT !.stream = NoStream]
    <3>1. a.chunks[k] \in ChunkSet(n)
      BY <1>2
    <3> QED
      BY <2>2, <3>1 DEF PtrOf, SizeOf, NextOf, PrevOf, BinOf, Idle, ChunkSet
  <2> QED
    BY <1>5, <1>6, <2>1, <2>2
<1> QED
  BY <1>6, <1>7 DEF SameShape, SameFiling

Positive == Nat \ {0}

\* Log2FloorNonZero is defined on every positive number by halving.
LEMMA Logarithm ==
  /\ Log2FloorNonZero \in [Positive -> Nat]
  /\ \A n \in Positive : Log2FloorNonZero[n] = IF n = 1 THEN 0 ELSE 1 + Log2FloorNonZero[n \div 2]
<1> DEFINE m == [n \in Positive |-> n]
           half == [n \in Positive |-> n \div 2]
           b == [n \in Positive |-> 0]
           G == [n \in Positive |-> [v \in Nat |-> 1 + v]]
           IsLog(f) == f = [n \in Positive |-> IF n = 1 THEN 0 ELSE 1 + f[n \div 2]]
<1>1. m \in [Positive -> Nat] /\ b \in [Positive -> Nat]
  BY DEF Positive
<1>2. \A n \in Positive \ {1} : n \div 2 \in Positive /\ n \div 2 < n
  BY DEF Positive
<1>3. Falls(m, Positive, {1}, half) /\ Transforms(G, Positive, Nat)
  BY <1>2 DEF Falls, Transforms
<1>4. \E f \in [Positive -> Nat] : Descends(f, Positive, {1}, b, half, G)
  <2> HIDE DEF m, half, b, G
  <2> QED
    BY <1>1, <1>3, MeasureRecursion
<1>5. PICK f \in [Positive -> Nat] : Descends(f, Positive, {1}, b, half, G)
  BY <1>4
<1>6. \A n \in Positive : f[n] = IF n = 1 THEN 0 ELSE 1 + f[n \div 2]
  BY <1>2, <1>5 DEF Descends
<1>7. IsLog(f)
  BY <1>6
<1>8. Log2FloorNonZero = CHOOSE g : IsLog(g)
  BY DEF Log2FloorNonZero, Positive
<1>9. IsLog(Log2FloorNonZero)
  <2> HIDE DEF IsLog
  <2> QED
    BY <1>7, <1>8
<1> DEFINE L == Log2FloorNonZero
<1>10. DOMAIN L = Positive /\ \A n \in Positive : L[n] = IF n = 1 THEN 0 ELSE 1 + L[n \div 2]
  <2> HIDE DEF L
  <2>1. L = [n \in Positive |-> IF n = 1 THEN 0 ELSE 1 + L[n \div 2]]
    BY <1>9 DEF L
  <2> QED
    BY <2>1
<1> HIDE DEF L
<1>11. \A n \in Positive : L[n] \in Nat
  <2> DEFINE T == {k \in Nat : \A n \in Positive : n <= k => L[n] \in Nat}
  <2>1. 0 \in T
    BY DEF Positive
  <2>2. ASSUME NEW k \in T PROVE k + 1 \in T
    <3>1. SUFFICES ASSUME NEW n \in Positive, n <= k + 1 PROVE L[n] \in Nat
      BY DEF T
    <3>2. CASE n = 1
      BY <1>10, <3>2
    <3>3. CASE n # 1
      <4>1. n \div 2 \in Positive /\ n \div 2 <= k
        BY <1>2, <3>1, <3>3 DEF Positive
      <4>2. L[n \div 2] \in Nat
        BY <4>1
      <4> QED
        BY <1>10, <3>3, <4>2
    <3> QED
      BY <3>2, <3>3
  <2>3. T = Nat
    <3>1. T \subseteq Nat
      OBVIOUS
    <3> HIDE DEF T
    <3> QED
      BY <2>1, <2>2, <3>1, NumberInduction
  <2>4. TAKE n \in Positive
  <2>5. n \in T
    <3>1. n \in Nat
      BY DEF Positive
    <3> HIDE DEF T
    <3> QED
      BY <2>3, <3>1
  <2> QED
    BY <2>5 DEF Positive
<1>12. L \in [Positive -> Nat]
  <2>1. L = [n \in Positive |-> L[n]]
    BY <1>9 DEF L
  <2> QED
    BY <1>11, <2>1
<1> QED
  BY <1>10, <1>12 DEF L

\* Log2FloorNonZero is monotone.
LEMMA LogarithmGrows ==
  ASSUME NEW x \in Positive, NEW y \in Positive, x <= y
  PROVE  Log2FloorNonZero[x] <= Log2FloorNonZero[y]
<1> DEFINE L == Log2FloorNonZero
           T == {k \in Nat : \A m, n \in Positive : n <= k /\ m <= n => L[m] <= L[n]}
<1>1. /\ \A n \in Positive : L[n] \in Nat
      /\ \A n \in Positive : L[n] = IF n = 1 THEN 0 ELSE 1 + L[n \div 2]
  BY Logarithm
<1> HIDE DEF L
<1>2. 0 \in T
  BY DEF Positive
<1>3. ASSUME NEW k \in T PROVE k + 1 \in T
  <2>1. SUFFICES ASSUME NEW m \in Positive, NEW n \in Positive, n <= k + 1, m <= n PROVE L[m] <= L[n]
    BY DEF T
  <2>2. CASE m = 1
    BY <1>1, <2>2
  <2>3. CASE m # 1
    <3>1. /\ m \div 2 \in Positive /\ n \div 2 \in Positive /\ n \div 2 <= k /\ m \div 2 <= n \div 2
          /\ n # 1
      BY <2>1, <2>3 DEF Positive
    <3>2. L[m \div 2] <= L[n \div 2]
      BY <3>1
    <3>3. L[m] = 1 + L[m \div 2] /\ L[n] = 1 + L[n \div 2]
      BY <1>1, <2>3, <3>1
    <3>4. L[m \div 2] \in Nat /\ L[n \div 2] \in Nat
      BY <1>1, <3>1
    <3> QED
      BY <3>2, <3>3, <3>4
  <2> QED
    BY <2>2, <2>3
<1>4. T = Nat
  <2>1. T \subseteq Nat
    OBVIOUS
  <2> HIDE DEF T
  <2> QED
    BY <1>2, <1>3, <2>1, NumberInduction
<1>5. y \in T
  BY <1>4 DEF Positive
<1> QED
  BY <1>5 DEF L, Positive

\* Division by a positive number keeps the order.
LEMMA Quotients ==
  ASSUME NEW x \in Nat, NEW d \in Nat \ {0}
  PROVE  /\ x \div d \in Nat /\ d * (x \div d) <= x /\ x < d * (x \div d) + d
         /\ (d <= x => x \div d \in Positive)
BY DEF Positive

\* Division by a positive number keeps the order.
LEMMA QuotientsGrow ==
  ASSUME NEW x \in Nat, NEW y \in Nat, x <= y, NEW d \in Nat \ {0}
  PROVE  x \div d <= y \div d
<1> DEFINE q == x \div d
           p == y \div d
<1>1. q \in Nat /\ p \in Nat /\ d * q <= x /\ y < d * p + d
  BY Quotients
<1> HIDE DEF q, p
<1>2. SUFFICES ASSUME q >= p + 1 PROVE FALSE
  BY <1>1 DEF q, p
<1>3. d * q >= d * (p + 1)
  BY <1>1, <1>2
<1>4. d * (p + 1) = d * p + d
  BY <1>1
<1>5. d * p \in Nat /\ d * q \in Nat
  BY <1>1
<1> QED
  BY <1>1, <1>3, <1>4, <1>5

\* Every size has a bin, and the bin of a greater size is not a lower one.
LEMMA BinsOfSizes ==
  /\ \A x \in Nat : BinNumForSize(x) \in Bins
  /\ \A x, y \in Nat : x <= y => BinNumForSize(x) <= BinNumForSize(y)
<1> DEFINE Q(x) == Larger(x, Unit) \div Unit
           L == Log2FloorNonZero
<1>1. Unit \in Positive /\ NumBins \in Positive
  BY ArenaConstants DEF Positive
<1>2. ASSUME NEW x \in Nat PROVE Q(x) \in Positive /\ L[Q(x)] \in Nat
  <2>1. Larger(x, Unit) \in Nat /\ Unit <= Larger(x, Unit)
    BY <1>1 DEF Larger, Positive
  <2>2. Q(x) \in Positive
    BY <1>1, <2>1, Quotients DEF Positive
  <2> QED
    BY <2>2, Logarithm
<1>3. ASSUME NEW x \in Nat, NEW y \in Nat, x <= y PROVE L[Q(x)] <= L[Q(y)]
  <2>1. Larger(x, Unit) <= Larger(y, Unit) /\ Larger(x, Unit) \in Nat /\ Larger(y, Unit) \in Nat
    BY <1>1, <1>3 DEF Larger, Positive
  <2>2. Q(x) <= Q(y)
    BY <1>1, <2>1, QuotientsGrow DEF Positive
  <2> QED
    BY <1>2, <2>2, LogarithmGrows
<1>4. \A x \in Nat : BinNumForSize(x) = Smaller(NumBins - 1, L[Q(x)])
  BY DEF BinNumForSize
<1> HIDE DEF Q, L
<1>5. \A x \in Nat : BinNumForSize(x) \in Bins
  <2>1. TAKE x \in Nat
  <2>2. L[Q(x)] \in Nat /\ NumBins - 1 \in Nat
    BY <1>1, <1>2 DEF Positive
  <2> QED
    BY <1>1, <1>4, <2>2 DEF Smaller, Bins, Positive
<1>6. \A x, y \in Nat : x <= y => BinNumForSize(x) <= BinNumForSize(y)
  <2>1. TAKE x \in Nat, y \in Nat
  <2>2. HAVE x <= y
  <2>3. L[Q(x)] \in Nat /\ L[Q(y)] \in Nat /\ NumBins - 1 \in Nat /\ L[Q(x)] <= L[Q(y)]
    BY <1>1, <1>2, <1>3, <2>2 DEF Positive
  <2> QED
    BY <1>4, <2>3 DEF Smaller
<1> QED
  BY <1>5, <1>6

Whole(x) == x \in Nat /\ x % Unit = 0

\* A whole size is a number of allocation units.
LEMMA Parts ==
  ASSUME NEW x \in Int, x % Unit = 0
  PROVE  \E k \in Int : x = Unit * k
<1>1. Unit \in Nat \ {0}
  BY ArenaConstants
<1> DEFINE k == x \div Unit
<1>2. x = Unit * k /\ k \in Int
  BY <1>1
<1> QED
  BY <1>2

\* A number of allocation units is a whole size.
LEMMA Product ==
  ASSUME NEW k \in Int
  PROVE  (Unit * k) % Unit = 0 /\ Unit * k \in Int
<1>1. Unit \in Nat \ {0}
  BY ArenaConstants
<1> QED
  BY <1>1

\* Whole sizes are closed under sum, doubling and difference, and a unit apart.
LEMMA WholeArithmetic ==
  ASSUME NEW x, NEW y, Whole(x), Whole(y)
  PROVE  /\ Whole(x + y) /\ Whole(2 * x) /\ (y <= x => Whole(x - y))
         /\ (x < y => x + Unit <= y) /\ (x > 0 => x >= Unit)
<1>1. Unit \in Nat \ {0} /\ x \in Nat /\ y \in Nat
  BY ArenaConstants DEF Whole
<1> x % Unit = 0 /\ y % Unit = 0 /\ x \in Int /\ y \in Int
  BY <1>1 DEF Whole
<1>2. PICK k \in Int : x = Unit * k
  BY Parts
<1>3. PICK l \in Int : y = Unit * l
  BY Parts
<1>4. x + y = Unit * (k + l) /\ 2 * x = Unit * (2 * k) /\ x - y = Unit * (k - l)
  BY <1>1, <1>2, <1>3
<1>5. (x + y) % Unit = 0 /\ (2 * x) % Unit = 0 /\ (x - y) % Unit = 0
  <2>1. k + l \in Int /\ 2 * k \in Int /\ k - l \in Int
    OBVIOUS
  <2> QED
    BY <1>4, <2>1, Product
<1>6. ASSUME x < y PROVE x + Unit <= y
  <2>1. k < l
    <3>1. SUFFICES ASSUME l <= k PROVE FALSE
      OBVIOUS
    <3>2. Unit * l <= Unit * k
      BY <1>1, <3>1
    <3> QED
      BY <1>1, <1>2, <1>3, <1>6, <3>2
  <2>2. Unit * (k + 1) <= Unit * l
    BY <1>1, <2>1
  <2>3. Unit * (k + 1) = Unit * k + Unit
    BY <1>1
  <2> QED
    BY <1>1, <1>2, <1>3, <2>2, <2>3
<1>7. ASSUME x > 0 PROVE x >= Unit
  <2>1. k >= 1
    <3>1. SUFFICES ASSUME k <= 0 PROVE FALSE
      OBVIOUS
    <3>2. Unit * k <= 0
      BY <1>1, <3>1
    <3> QED
      BY <1>1, <1>2, <1>7, <3>2
  <2>2. Unit * k >= Unit
    BY <1>1, <2>1
  <2> QED
    BY <1>2, <2>2
<1> QED
  BY <1>1, <1>5, <1>6, <1>7 DEF Whole

\* RoundedBytes is the least whole size not below a request.
LEMMA RoundedUp ==
  ASSUME NEW x \in Nat
  PROVE  Whole(RoundedBytes(x)) /\ RoundedBytes(x) >= x /\ RoundedBytes(x) < x + Unit
<1>1. Unit \in Nat \ {0}
  BY ArenaConstants
<1> DEFINE y == x + Unit - 1
           q == y \div Unit
<1>2. y \in Nat
  BY <1>1
<1>3. q \in Nat /\ Unit * q <= y /\ y < Unit * q + Unit
  BY <1>1, <1>2, Quotients
<1> HIDE DEF q
<1>4. (Unit * q) % Unit = 0 /\ Unit * q \in Nat
  BY <1>1, <1>3, Product
<1>5. RoundedBytes(x) = Unit * q
  BY DEF RoundedBytes, q
<1> QED
  BY <1>1, <1>3, <1>4, <1>5 DEF Whole

\* What the memory limit leaves is a whole size.
LEMMA AvailableWhole ==
  ASSUME stats.total \in Int
  PROVE  Whole(Available)
<1>1. Unit \in Nat \ {0} /\ Word \in Nat \ {0} /\ MaxMem \in Nat
  BY ArenaConstants
<1> DEFINE left == (MaxMem - stats.total) % Word
           q == left \div Unit
<1>2. left \in Nat
  <2> DEFINE d == MaxMem - stats.total
  <2>1. d \in Int
    BY <1>1
  <2> HIDE DEF d
  <2>2. d % Word \in Int /\ 0 <= d % Word
    BY <1>1, <2>1
  <2> QED
    BY <2>2 DEF d
<1> HIDE DEF left
<1>3. q \in Nat
  BY <1>1, <1>2, Quotients
<1> HIDE DEF q
<1>4. (Unit * q) % Unit = 0 /\ Unit * q \in Nat
  BY <1>1, <1>3, Product
<1> QED
  BY <1>4 DEF Available, Whole, left, q

\* The region size doubles until it holds the request, and stays whole if it
\* was.
LEMMA Doubling ==
  ASSUME curr_region_allocation_bytes \in Nat \ {0}, NEW bytes \in Nat
  PROVE  /\ DoubledTo(bytes) \in Nat /\ DoubledTo(bytes) >= bytes /\ DoubledTo(bytes) > 0
         /\ Whole(curr_region_allocation_bytes) => Whole(DoubledTo(bytes))
<1> DEFINE m == [c \in Nat |-> IF bytes > c THEN bytes - c ELSE 0]
           Halt == {c \in Nat : bytes <= c} \cup {0}
           b == [c \in Nat |-> c]
           next == [c \in Nat |-> 2 * c]
           G == [c \in Nat |-> [v \in Nat |-> v]]
           Doubles(f) == f = [c \in Nat |-> IF bytes > c THEN f[2 * c] ELSE c]
           D == CHOOSE f : Doubles(f)
<1>1. m \in [Nat -> Nat] /\ b \in [Nat -> Nat]
  OBVIOUS
<1>2. Falls(m, Nat, Halt, next) /\ Transforms(G, Nat, Nat)
  BY DEF Falls, Transforms
<1>3. \E f \in [Nat -> Nat] : Descends(f, Nat, Halt, b, next, G)
  <2> HIDE DEF m, Halt, b, next, G
  <2> QED
    BY <1>1, <1>2, MeasureRecursion
<1>4. PICK f \in [Nat -> Nat] : Descends(f, Nat, Halt, b, next, G)
  BY <1>3
<1>5. \A c \in Nat : f[c] = IF bytes > c THEN f[2 * c] ELSE c
  <2>1. TAKE c \in Nat
  <2>2. f[c] = IF c \in Halt THEN b[c] ELSE G[c][f[next[c]]]
    BY <1>4 DEF Descends
  <2>3. CASE c \in Halt
    <3>1. f[c] = c
      BY <2>2, <2>3
    <3>2. CASE bytes <= c
      BY <3>1, <3>2
    <3>3. CASE c = 0
      BY <3>1, <3>3
    <3> QED
      BY <2>3, <3>2, <3>3
  <2>4. CASE c \notin Halt
    <3>1. bytes > c /\ f[2 * c] \in Nat
      BY <2>4
    <3>2. f[c] = G[c][f[2 * c]]
      BY <2>2, <2>4
    <3> QED
      BY <3>1, <3>2
  <2> QED
    BY <2>3, <2>4
<1>6. Doubles(f)
  BY <1>5
<1>7. Doubles(D)
  <2> HIDE DEF Doubles
  <2> QED
    BY <1>6
<1>8. DoubledTo(bytes) = D[curr_region_allocation_bytes]
  BY DEF DoubledTo
<1> HIDE DEF D
<1>9. \A c \in Nat : D[c] = IF bytes > c THEN D[2 * c] ELSE c
  BY <1>7
<1> DEFINE Fine(c) == D[c] \in Nat /\ D[c] >= bytes /\ D[c] > 0 /\ (Whole(c) => Whole(D[c]))
           T == {k \in Nat : \A c \in Nat \ {0} : bytes - c <= k => Fine(c)}
<1>10. \A c \in Nat \ {0} : bytes <= c => Fine(c)
  BY <1>9
<1>11. 0 \in T
  BY <1>10
<1>12. ASSUME NEW k \in T PROVE k + 1 \in T
  <2>1. SUFFICES ASSUME NEW c \in Nat \ {0}, bytes - c <= k + 1 PROVE Fine(c)
    BY DEF T
  <2>2. CASE bytes <= c
    BY <1>10, <2>2
  <2>3. CASE bytes > c
    <3>1. 2 * c \in Nat \ {0} /\ bytes - 2 * c <= k
      BY <2>1
    <3>2. Fine(2 * c)
      BY <3>1
    <3>3. Whole(c) => Whole(2 * c)
      BY WholeArithmetic
    <3> QED
      BY <1>9, <2>3, <3>2, <3>3
  <2> QED
    BY <2>2, <2>3
<1>13. T = Nat
  <2>1. T \subseteq Nat
    OBVIOUS
  <2> HIDE DEF T
  <2> QED
    BY <1>11, <1>12, <2>1, NumberInduction
<1>14. bytes \in T
  BY <1>13
<1>15. Fine(curr_region_allocation_bytes)
  BY <1>14
<1> QED
  BY <1>8, <1>15

\* The size the back-pedalling loop tries after b.
Back(b) == RoundedBytes((b * BackNum) \div BackDen)

\* A back-pedalling step makes the size smaller.
LEMMA BackFalls ==
  ASSUME NEW b \in Nat
  PROVE  Back(b) \in Nat /\ (b >= GiveUp => Back(b) < b)
<1>1. /\ BackDen \in Nat \ {0} /\ BackNum \in Nat /\ BackNum < BackDen /\ Unit \in Nat \ {0}
      /\ GiveUp \in Nat /\ GiveUp * (BackDen - BackNum) >= Unit * BackDen
  BY ArenaConstants
<1> DEFINE x == b * BackNum
           q == x \div BackDen
           e == BackDen - BackNum
<1>2. x \in Nat
  BY <1>1
<1>3. q \in Nat /\ BackDen * q <= x
  <2> HIDE DEF x
  <2> QED
    BY <1>1, <1>2, Quotients
<1>4. Back(b) \in Nat /\ Back(b) < q + Unit
  <2> HIDE DEF q
  <2> QED
    BY <1>3, RoundedUp DEF Back, q, Whole
<1> HIDE DEF q
<1>5. ASSUME b >= GiveUp PROVE q + Unit <= b
  <2>1. e \in Nat /\ x = b * BackDen - b * e
    BY <1>1
  <2>2. b * e >= GiveUp * e
    BY <1>1, <1>5, <2>1
  <2>3. BackDen * q <= b * BackDen - Unit * BackDen
    <3>1. GiveUp * e >= Unit * BackDen /\ GiveUp * e \in Int /\ b * e \in Int /\ BackDen * q \in Int
          /\ b * BackDen \in Int /\ Unit * BackDen \in Int
      BY <1>1, <1>3, <2>1
    <3> HIDE DEF x, e
    <3> QED
      BY <1>2, <1>3, <2>1, <2>2, <3>1
  <2>4. b * BackDen - Unit * BackDen = BackDen * (b - Unit)
    BY <1>1
  <2>5. q <= b - Unit
    <3>1. SUFFICES ASSUME q >= b - Unit + 1 PROVE FALSE
      BY <1>1, <1>3
    <3>2. BackDen * q >= BackDen * (b - Unit + 1)
      BY <1>1, <1>3, <3>1
    <3>3. BackDen * (b - Unit + 1) = BackDen * (b - Unit) + BackDen
      BY <1>1
    <3>4. BackDen * (b - Unit) \in Int /\ BackDen * q \in Int
      BY <1>1, <1>3
    <3> QED
      BY <1>1, <2>3, <2>4, <3>2, <3>3, <3>4
  <2> QED
    BY <1>1, <1>3, <2>5
<1> QED
  BY <1>1, <1>3, <1>4, <1>5

\* The loop that asks the device ends with a size it may grant: enough, under
\* the cap, whole.
LEMMA Attempts ==
  ASSUME NEW first \in Nat, NEW rounded \in Nat
  PROVE  /\ Attempt(first, rounded) \in Nat
         /\ Attempt(first, rounded) > 0 /\ first >= rounded =>
               Attempt(first, rounded) >= rounded /\ Attempt(first, rounded) <= DeviceCap
         /\ Whole(first) => Whole(Attempt(first, rounded))
<1> DEFINE Stop(c) == c <= DeviceCap \/ Back(c) < rounded \/ Back(c) < GiveUp
           m == [c \in Nat |-> IF c >= GiveUp THEN c ELSE Back(c) + 1]
           Halt == {c \in Nat : Stop(c)}
           b == [c \in Nat |-> IF c <= DeviceCap THEN c ELSE 0]
           next == [c \in Nat |-> Back(c)]
           G == [c \in Nat |-> [v \in Nat |-> v]]
           Tries(f) == f = [c \in Nat |-> IF c <= DeviceCap THEN c
                                          ELSE IF Back(c) < rounded \/ Back(c) < GiveUp THEN 0
                                          ELSE f[Back(c)]]
           A == CHOOSE f : Tries(f)
<1>1. GiveUp \in Nat /\ DeviceCap \in Nat /\ \A c \in Nat : Back(c) \in Nat /\ (c >= GiveUp => Back(c) < c)
  BY ArenaConstants, BackFalls
<1>2. m \in [Nat -> Nat] /\ b \in [Nat -> Nat]
  BY <1>1
<1>3. Falls(m, Nat, Halt, next) /\ Transforms(G, Nat, Nat)
  BY <1>1 DEF Falls, Transforms
<1>4. \E f \in [Nat -> Nat] : Descends(f, Nat, Halt, b, next, G)
  <2> HIDE DEF m, Halt, b, next, G
  <2> QED
    BY <1>2, <1>3, MeasureRecursion
<1>5. PICK f \in [Nat -> Nat] : Descends(f, Nat, Halt, b, next, G)
  BY <1>4
<1>6. \A c \in Nat : f[c] = IF c <= DeviceCap THEN c
                            ELSE IF Back(c) < rounded \/ Back(c) < GiveUp THEN 0
                            ELSE f[Back(c)]
  <2>1. TAKE c \in Nat
  <2>2. f[c] = IF Stop(c) THEN b[c] ELSE G[c][f[next[c]]]
    BY <1>5 DEF Descends
  <2>3. Back(c) \in Nat /\ f[Back(c)] \in Nat
    BY <1>1
  <2> QED
    BY <2>2, <2>3
<1>7. Tries(f)
  BY <1>6
<1>8. Tries(A)
  <2> HIDE DEF Tries
  <2> QED
    BY <1>7
<1>9. Attempt(first, rounded) = A[first]
  BY DEF Attempt, Back
<1> HIDE DEF A
<1>10. \A c \in Nat : A[c] = IF c <= DeviceCap THEN c
                            ELSE IF Back(c) < rounded \/ Back(c) < GiveUp THEN 0
                            ELSE A[Back(c)]
  BY <1>8
<1> DEFINE Fine(c) == /\ A[c] \in Nat
                      /\ A[c] > 0 /\ c >= rounded => A[c] >= rounded /\ A[c] <= DeviceCap
                      /\ Whole(c) => Whole(A[c])
           T == {k \in Nat : \A c \in Nat : m[c] < k => Fine(c)}
<1>11. 0 \in T
  BY <1>2
<1>12. ASSUME NEW k \in T PROVE k + 1 \in T
  <2>1. SUFFICES ASSUME NEW c \in Nat, m[c] < k + 1 PROVE Fine(c)
    BY DEF T
  <2>2. CASE c <= DeviceCap
    BY <1>10, <2>2
  <2>3. CASE c > DeviceCap /\ (Back(c) < rounded \/ Back(c) < GiveUp)
    <3>1. A[c] = 0
      BY <1>1, <1>10, <2>3
    <3>2. Whole(0)
      BY ArenaConstants DEF Whole
    <3> QED
      BY <3>1, <3>2
  <2>4. CASE c > DeviceCap /\ ~(Back(c) < rounded \/ Back(c) < GiveUp)
    <3>1. m[Back(c)] < m[c] /\ Back(c) \in Nat /\ m[Back(c)] \in Nat /\ m[c] \in Nat
      BY <1>1, <1>2, <1>3, <2>4 DEF Falls
    <3>2. Fine(Back(c))
      <4> HIDE DEF m, Fine
      <4> QED
        BY <2>1, <3>1
    <3>3. A[c] = A[Back(c)] /\ Back(c) >= rounded
      BY <1>1, <1>10, <2>4
    <3>4. Whole(Back(c))
      <4>1. BackDen \in Nat \ {0} /\ BackNum \in Nat
        BY ArenaConstants
      <4>2. c * BackNum \in Nat
        BY <4>1
      <4>3. (c * BackNum) \div BackDen \in Nat
        BY <4>1, <4>2, Quotients
      <4> QED
        BY <4>3, RoundedUp DEF Back
    <3> QED
      BY <3>2, <3>3, <3>4
  <2> QED
    BY <1>1, <2>2, <2>3, <2>4
<1>13. T = Nat
  <2>1. T \subseteq Nat
    OBVIOUS
  <2> HIDE DEF T
  <2> QED
    BY <1>11, <1>12, <2>1, NumberInduction
<1>14. m[first] + 1 \in T /\ m[first] \in Nat
  <2> HIDE DEF m, T
  <2> QED
    BY <1>2, <1>13
<1>15. Fine(first)
  <2> HIDE DEF m, Fine
  <2> QED
    BY <1>14
<1> QED
  BY <1>9, <1>15

\* The size Extend asks for, and the size of the next region.
LEMMA Extension ==
  ASSUME curr_region_allocation_bytes \in Nat \ {0}, stats.total \in Int, MaxPow2 > 0,
         NEW rounded, Whole(rounded), rounded > 0, rounded <= Available
  PROVE  /\ ExtendBytes(rounded) \in Nat /\ ExtendBytes(rounded) >= rounded
         /\ NextRegionBytes(rounded) \in Nat \ {0}
         /\ Whole(curr_region_allocation_bytes) => Whole(ExtendBytes(rounded))
         /\ Whole(curr_region_allocation_bytes) /\ Whole(MaxPow2) => Whole(NextRegionBytes(rounded))
<1> DEFINE curr == curr_region_allocation_bytes
           D == DoubledTo(rounded)
<1>1. rounded \in Nat /\ MaxPow2 \in Nat /\ Whole(Available) /\ Available \in Nat
  BY ArenaConstants, AvailableWhole DEF Whole
<1>2. D \in Nat /\ D >= rounded /\ D > 0 /\ (Whole(curr) => Whole(D))
  BY <1>1, Doubling
<1>3. Whole(curr) => Whole(2 * curr)
  BY WholeArithmetic
<1> HIDE DEF D
<1>4. ExtendBytes(rounded) = IF SameAsRequested THEN rounded
                             ELSE Smaller(IF rounded > curr THEN D ELSE curr, Available)
  BY DEF ExtendBytes, D
<1>5. NextRegionBytes(rounded) = IF SameAsRequested THEN curr
                                 ELSE IF rounded > curr THEN D
                                 ELSE IF 2 * curr < MaxPow2 THEN 2 * curr ELSE MaxPow2
  BY DEF NextRegionBytes, D
<1> QED
  BY <1>1, <1>2, <1>3, <1>4, <1>5 DEF Smaller

InList(a, h) == PtrOf(a, h) # Null
EndOf(a, h) == PtrOf(a, h) + SizeOf(a, h)

RegionsApart(R) ==
  /\ R \subseteq RegionSet /\ IsFiniteSet(R)
  /\ \A r \in R : Whole(r.size) /\ r.ptr + r.size <= DeviceBytes
  /\ \A r, q \in R : r # q => r.ptr + r.size <= q.ptr \/ q.ptr + q.size <= r.ptr

Known(a, h) == SizeOf(a, h) > 0 /\ Whole(SizeOf(a, h)) /\ a.handles[PtrOf(a, h)] = h
Within(a, h, r) == r.ptr <= PtrOf(a, h) /\ EndOf(a, h) <= r.ptr + r.size
Placed(a, h) ==
  \E r \in a.regions :
    /\ Within(a, h, r)
    /\ EndOf(a, h) = r.ptr + r.size => NextOf(a, h) = None
    /\ EndOf(a, h) # r.ptr + r.size =>
         /\ NextOf(a, h) # None /\ PtrOf(a, NextOf(a, h)) = EndOf(a, h)
         /\ PrevOf(a, NextOf(a, h)) = h
Backed(a, h) ==
  /\ PrevOf(a, h) = None => \E r \in a.regions : r.ptr = PtrOf(a, h)
  /\ PrevOf(a, h) # None => InList(a, PrevOf(a, h)) /\ NextOf(a, PrevOf(a, h)) = h
Handled(a) == \A p \in Addresses : a.handles[p] # None => PtrOf(a, a.handles[p]) = p
Based(a) == \A r \in a.regions : a.handles[r.ptr] # None
Spread(a, n) ==
  \A h, k \in 1 .. n : InList(a, h) /\ InList(a, k) /\ h # k =>
    EndOf(a, h) <= PtrOf(a, k) \/ EndOf(a, k) <= PtrOf(a, h)

Tiling(a, n) ==
  /\ RegionsApart(a.regions) /\ Handled(a) /\ Based(a) /\ Spread(a, n)
  /\ \A h \in 1 .. n : InList(a, h) => Known(a, h) /\ Placed(a, h) /\ Backed(a, h)

\* A chunk in a list has an address.
LEMMA TypesOfLinked ==
  ASSUME NEW n \in Nat, NEW a \in Arenas(n), NEW h \in 1 .. n, InList(a, h)
  PROVE  /\ PtrOf(a, h) \in Addresses /\ PtrOf(a, h) \in Int /\ SizeOf(a, h) \in Int
         /\ NextOf(a, h) \in 0 .. n /\ PrevOf(a, h) \in 0 .. n /\ EndOf(a, h) \in Int
BY FieldTypes DEF InList, Addresses, EndOf

\* The null pointer is not an address of the device.
LEMMA NullIsNoAddress == Null \notin Addresses /\ \A p \in Addresses : p \in Int /\ p # Null
BY DEF Null, Addresses

\* What the fields of a region range over.
LEMMA RegionTypes ==
  ASSUME NEW R, RegionsApart(R), NEW r \in R
  PROVE  r.ptr \in Addresses /\ r.ptr \in Int /\ r.size \in Int /\ r.size > 0
BY DEF RegionsApart, RegionSet, Addresses

\* What the tiling says about two neighbours.
LEMMA Neighbours ==
  ASSUME NEW n \in Nat, NEW a \in Arenas(n), Tiling(a, n), NEW g \in 1 .. n, InList(a, g),
         NextOf(a, g) # None
  PROVE  LET h == NextOf(a, g) IN
         /\ h \in 1 .. n /\ InList(a, h) /\ h # g /\ PtrOf(a, h) = EndOf(a, g) /\ PrevOf(a, h) = g
         /\ \E r \in a.regions : Within(a, g, r) /\ Within(a, h, r)
<1> DEFINE h == NextOf(a, g)
<1>1. PICK r \in a.regions :
        /\ Within(a, g, r)
        /\ EndOf(a, g) # r.ptr + r.size /\ PtrOf(a, h) = EndOf(a, g) /\ PrevOf(a, h) = g
  BY DEF Tiling, Placed
<1>2. h \in 1 .. n /\ EndOf(a, g) \in Int /\ PtrOf(a, g) \in Int /\ SizeOf(a, g) \in Int
  BY TypesOfLinked DEF None
<1> HIDE DEF h
<1>3. InList(a, h)
  <2>1. PtrOf(a, g) >= 0 /\ SizeOf(a, g) > 0
    BY TypesOfLinked DEF Tiling, Known, Addresses
  <2> QED
    BY <1>1, <1>2, <2>1 DEF InList, Null, EndOf
<1>4. PICK q \in a.regions : Within(a, h, q)
  BY <1>2, <1>3 DEF Tiling, Placed
<1>5. SizeOf(a, g) > 0 /\ SizeOf(a, h) > 0 /\ SizeOf(a, h) \in Int /\ PtrOf(a, h) \in Int
  BY <1>2, <1>3, TypesOfLinked DEF Tiling, Known
<1>6. q = r
  <2>1. RegionsApart(a.regions)
    BY DEF Tiling
  <2>2. /\ r.ptr \in Int /\ r.size \in Int /\ q.ptr \in Int /\ q.size \in Int
        /\ (q # r => r.ptr + r.size <= q.ptr \/ q.ptr + q.size <= r.ptr)
    BY <2>1, RegionTypes DEF RegionsApart
  <2> QED
    BY <1>1, <1>2, <1>4, <1>5, <2>2 DEF Within, EndOf
<1>7. h # g
  BY <1>1, <1>2, <1>5 DEF EndOf
<1> QED
  BY <1>1, <1>2, <1>3, <1>4, <1>6, <1>7 DEF h

\* Merging a chunk with its successor leaves the regions tiled.
LEMMA MergeTiles ==
  ASSUME NEW n \in Nat, NEW a \in Arenas(n), Tiling(a, n), NEW g \in 1 .. n, InList(a, g),
         NEW h \in 1 .. n, h = NextOf(a, g), NEW R \in Arenas(n), Merged(a, R, n, g, h)
  PROVE  Tiling(R, n) /\ InList(a, h) /\ g # h /\ \A k \in 1 .. n : InList(R, k) <=> InList(a, k) /\ k # h
<1>1. /\ InList(a, h) /\ h # g /\ PtrOf(a, h) = EndOf(a, g) /\ PrevOf(a, h) = g
      /\ h # None /\ g # None
  BY Neighbours DEF None
<1>2. PICK r \in a.regions : Within(a, g, r) /\ Within(a, h, r)
  BY <1>1, Neighbours
<1> DEFINE x == NextOf(a, h)
<1>3. \A k \in 1 .. n : InList(R, k) <=> InList(a, k) /\ k # h
  BY <1>1 DEF Merged, InList
<1>4. /\ R.regions = a.regions /\ R.handles = [a.handles EXCEPT ![PtrOf(a, h)] = None]
      /\ a.handles \in [Addresses -> 0 .. n]
  BY DEF Merged, Arenas
<1>5. \A k \in 1 .. n : k # h =>
         /\ PtrOf(R, k) = PtrOf(a, k)
         /\ SizeOf(R, k) = IF k = g THEN SizeOf(a, g) + SizeOf(a, h) ELSE SizeOf(a, k)
         /\ NextOf(R, k) = IF k = g THEN x ELSE NextOf(a, k)
         /\ PrevOf(R, k) = IF k # g /\ k = x THEN g ELSE PrevOf(a, k)
  BY DEF Merged
<1>6. \A k \in 1 .. n : InList(a, k) =>
        /\ Known(a, k) /\ PtrOf(a, k) \in Addresses /\ PtrOf(a, k) \in Int /\ SizeOf(a, k) \in Int
        /\ SizeOf(a, k) > 0 /\ EndOf(a, k) \in Int /\ NextOf(a, k) \in 0 .. n /\ PrevOf(a, k) \in 0 .. n
  BY TypesOfLinked DEF Tiling, Known
<1>7. EndOf(R, g) = EndOf(a, h) /\ \A k \in 1 .. n : k # h /\ k # g => EndOf(R, k) = EndOf(a, k)
  BY <1>1, <1>5, <1>6 DEF EndOf
<1>8. RegionsApart(a.regions)
  BY DEF Tiling
<1>9. x # None => /\ x \in 1 .. n /\ InList(a, x) /\ x # h /\ PtrOf(a, x) = EndOf(a, h) /\ PrevOf(a, x) = h
                  /\ x # g
  <2> SUFFICES ASSUME x # None PROVE /\ x \in 1 .. n /\ InList(a, x) /\ x # h /\ PtrOf(a, x) = EndOf(a, h)
                  /\ PrevOf(a, x) = h /\ x # g
    OBVIOUS
  <2>1. /\ x \in 1 .. n /\ InList(a, x) /\ x # h /\ PtrOf(a, x) = EndOf(a, h) /\ PrevOf(a, x) = h
    BY <1>1, Neighbours
  <2>2. EndOf(a, h) > PtrOf(a, g)
    BY <1>1, <1>6 DEF EndOf
  <2> QED
    BY <2>1, <2>2, <1>6
<1>10. Handled(R)
  <2>1. \A p \in Addresses : R.handles[p] = IF p = PtrOf(a, h) THEN None ELSE a.handles[p]
    BY <1>4
  <2>2. ASSUME NEW p \in Addresses, p # PtrOf(a, h), a.handles[p] # None PROVE PtrOf(R, a.handles[p]) = p
    <3>1. a.handles[p] \in 1 .. n /\ PtrOf(a, a.handles[p]) = p
      BY <1>4, <2>2 DEF Tiling, Handled, None
    <3> QED
      BY <1>5, <2>2, <3>1
  <2> QED
    BY <2>1, <2>2 DEF Handled
<1>11. Based(R)
  <2>1. SUFFICES ASSUME NEW q \in a.regions PROVE R.handles[q.ptr] # None
    BY <1>4 DEF Based
  <2>2. q.ptr \in Addresses /\ q.ptr \in Int /\ q.size \in Int /\ r.ptr \in Int /\ r.size \in Int /\ q.size > 0
    BY <1>8, RegionTypes
  <2>3. q.ptr # PtrOf(a, h)
    <3>1. r.ptr < PtrOf(a, h) /\ PtrOf(a, h) < r.ptr + r.size
      BY <1>1, <1>2, <1>6, <2>2 DEF Within, EndOf
    <3>2. q # r => r.ptr + r.size <= q.ptr \/ q.ptr + q.size <= r.ptr
      BY <1>8 DEF RegionsApart
    <3> QED
      BY <3>1, <3>2, <2>2
  <2>4. a.handles[q.ptr] # None
    BY DEF Tiling, Based
  <2> QED
    BY <1>4, <2>2, <2>3, <2>4
<1>12. Spread(R, n)
  <2>1. SUFFICES ASSUME NEW k \in 1 .. n, NEW l \in 1 .. n, InList(a, k), InList(a, l), k # l, k # h, l # h
                 PROVE  EndOf(R, k) <= PtrOf(R, l) \/ EndOf(R, l) <= PtrOf(R, k)
    BY <1>3 DEF Spread
  <2>2. ASSUME NEW j \in 1 .. n, InList(a, j), j # g, j # h
        PROVE EndOf(a, h) <= PtrOf(a, j) \/ EndOf(a, j) <= PtrOf(a, g)
    <3>1. /\ EndOf(a, h) <= PtrOf(a, j) \/ EndOf(a, j) <= PtrOf(a, h)
          /\ EndOf(a, g) <= PtrOf(a, j) \/ EndOf(a, j) <= PtrOf(a, g)
      BY <1>1, <2>2 DEF Tiling, Spread
    <3> QED
      BY <1>1, <1>6, <2>2, <3>1 DEF EndOf
  <2>3. EndOf(a, k) <= PtrOf(a, l) \/ EndOf(a, l) <= PtrOf(a, k)
    BY <2>1 DEF Tiling, Spread
  <2> QED
    BY <1>5, <1>7, <2>1, <2>2, <2>3
<1>13. ASSUME NEW k \in 1 .. n, InList(a, k), k # h PROVE Known(R, k)
  <2>1. PtrOf(a, k) # PtrOf(a, h)
    BY <1>1, <1>6, <1>13 DEF Known
  <2>2. R.handles[PtrOf(R, k)] = k
    BY <1>4, <1>5, <1>6, <1>13, <2>1 DEF Known
  <2>3. Whole(SizeOf(a, k)) /\ Whole(SizeOf(a, h)) /\ Whole(SizeOf(a, g))
    BY <1>1, <1>6, <1>13 DEF Known
  <2>4. Whole(SizeOf(a, g) + SizeOf(a, h))
    BY <2>3, WholeArithmetic
  <2> QED
    BY <1>1, <1>5, <1>6, <1>13, <2>2, <2>3, <2>4 DEF Known
<1>14. ASSUME NEW k \in 1 .. n, InList(a, k), k # h PROVE Placed(R, k)
  <2>1. CASE k = g
    <3>1. Within(R, g, r)
      BY <1>1, <1>2, <1>5, <1>7 DEF Within
    <3>2. PICK q \in a.regions :
            /\ Within(a, h, q)
            /\ EndOf(a, h) = q.ptr + q.size => x = None
            /\ EndOf(a, h) # q.ptr + q.size => x # None
      BY <1>1 DEF Tiling, Placed
    <3>3. q = r
      <4>1. /\ r.ptr \in Int /\ r.size \in Int /\ q.ptr \in Int /\ q.size \in Int
            /\ (q # r => r.ptr + r.size <= q.ptr \/ q.ptr + q.size <= r.ptr)
        BY <1>8, RegionTypes DEF RegionsApart
      <4> QED
        BY <1>1, <1>2, <1>6, <3>2, <4>1 DEF Within, EndOf
    <3>4. NextOf(R, g) = x
      BY <1>1, <1>5
    <3>5. x # None => PtrOf(R, x) = EndOf(R, g) /\ PrevOf(R, x) = g
      BY <1>5, <1>7, <1>9
    <3> QED
      BY <1>4, <1>7, <2>1, <3>1, <3>2, <3>3, <3>4, <3>5 DEF Placed
  <2>2. CASE k # g
    <3> DEFINE y == NextOf(a, k)
    <3>1. PICK q \in a.regions :
            /\ Within(a, k, q)
            /\ EndOf(a, k) = q.ptr + q.size => y = None
            /\ EndOf(a, k) # q.ptr + q.size => y # None /\ PtrOf(a, y) = EndOf(a, k) /\ PrevOf(a, y) = k
      BY <1>14 DEF Tiling, Placed
    <3>2. EndOf(R, k) = EndOf(a, k) /\ PtrOf(R, k) = PtrOf(a, k) /\ NextOf(R, k) = y
      BY <1>5, <1>7, <1>14, <2>2
    <3>3. y # None => y \in 1 .. n /\ InList(a, y) /\ PrevOf(a, y) = k
      BY <1>14, Neighbours
    <3> HIDE DEF y
    <3>4. y # None => PtrOf(R, y) = PtrOf(a, y) /\ PrevOf(R, y) = k
      <4>1. SUFFICES ASSUME y # None PROVE PtrOf(R, y) = PtrOf(a, y) /\ PrevOf(R, y) = k
        OBVIOUS
      <4>2. y # h
        BY <1>1, <2>2, <3>3, <4>1
      <4>3. y # x
        BY <1>9, <1>14, <3>3, <4>1
      <4> QED
        BY <1>5, <3>3, <4>1, <4>2, <4>3
    <3> QED
      BY <1>4, <3>1, <3>2, <3>4 DEF Placed, Within
  <2> QED
    BY <2>1, <2>2
<1>15. ASSUME NEW k \in 1 .. n, InList(a, k), k # h PROVE Backed(R, k)
  <2>1. CASE k # g /\ k = x
    <3>1. PrevOf(R, k) = g /\ NextOf(R, g) = k /\ InList(R, g)
      BY <1>1, <1>3, <1>5, <1>15, <2>1
    <3> QED
      BY <1>1, <3>1 DEF Backed
  <2>2. CASE k = g \/ k # x
    <3> DEFINE w == PrevOf(a, k)
    <3>1. PrevOf(R, k) = w /\ PtrOf(R, k) = PtrOf(a, k)
      BY <1>5, <1>15, <2>2
    <3>2. Backed(a, k) /\ w \in 0 .. n
      BY <1>6, <1>15 DEF Tiling
    <3> HIDE DEF w
    <3>3. w = None => \E q \in R.regions : q.ptr = PtrOf(R, k)
      BY <1>4, <3>1, <3>2 DEF Backed, w
    <3>4. ASSUME w # None PROVE InList(R, w) /\ NextOf(R, w) = k
      <4>1. w \in 1 .. n /\ InList(a, w) /\ NextOf(a, w) = k
        BY <3>2, <3>4 DEF Backed, w, None
      <4>2. w # h
        BY <1>9, <1>15, <2>2, <4>1, <1>1
      <4>3. w # g
        BY <1>15, <4>1
      <4> QED
        BY <1>3, <1>5, <4>1, <4>2, <4>3
    <3> QED
      BY <3>1, <3>3, <3>4 DEF Backed
  <2> QED
    BY <2>1, <2>2
<1>16. RegionsApart(R.regions)
  BY <1>4, <1>8
<1> QED
  BY <1>1, <1>3, <1>10, <1>11, <1>12, <1>13, <1>14, <1>15, <1>16 DEF Tiling

\* The tiling speaks only of the chunks' shape.
LEMMA ShapeTiles ==
  ASSUME NEW n \in Nat, NEW a \in Arenas(n), NEW R \in Arenas(n), SameShape(a, R, n), Tiling(a, n)
  PROVE  Tiling(R, n) /\ \A k \in 1 .. n : (InList(R, k) <=> InList(a, k)) /\ EndOf(R, k) = EndOf(a, k)
<1>1. /\ R.regions = a.regions /\ R.handles = a.handles
      /\ \A k \in 1 .. n : /\ PtrOf(R, k) = PtrOf(a, k) /\ SizeOf(R, k) = SizeOf(a, k)
                           /\ NextOf(R, k) = NextOf(a, k) /\ PrevOf(R, k) = PrevOf(a, k)
  BY DEF SameShape
<1>2. \A k \in 1 .. n : (InList(R, k) <=> InList(a, k)) /\ EndOf(R, k) = EndOf(a, k)
  BY <1>1 DEF InList, EndOf
<1>3. RegionsApart(R.regions) /\ Handled(R) /\ Based(R) /\ Spread(R, n)
  <2>1. a.handles \in [Addresses -> 0 .. n]
    BY DEF Arenas
  <2>2. Handled(R)
    BY <1>1, <2>1 DEF Tiling, Handled, None
  <2> QED
    BY <1>1, <1>2, <2>2 DEF Tiling, Based, Spread
<1>4. ASSUME NEW k \in 1 .. n, InList(a, k) PROVE Known(R, k) /\ Placed(R, k) /\ Backed(R, k)
  <2>1. Known(a, k) /\ Placed(a, k) /\ Backed(a, k) /\ NextOf(a, k) \in 0 .. n /\ PrevOf(a, k) \in 0 .. n
    BY <1>4, TypesOfLinked DEF Tiling
  <2>2. Known(R, k)
    BY <1>1, <2>1 DEF Known
  <2>3. Placed(R, k)
    BY <1>1, <1>2, <2>1 DEF Placed, Within, None
  <2>4. Backed(R, k)
    BY <1>1, <1>2, <2>1 DEF Backed, None
  <2> QED
    BY <2>2, <2>3, <2>4
<1> QED
  BY <1>2, <1>3, <1>4 DEF Tiling

\* Splitting a chunk leaves the regions tiled.
LEMMA SplitTiles ==
  ASSUME NEW n \in Nat, NEW a \in Arenas(n), Tiling(a, n), NEW h \in 1 .. n, InList(a, h),
         NEW bytes, Whole(bytes), 0 < bytes, bytes < SizeOf(a, h),
         NEW m, NEW N \in Nat, 1 .. N = 1 .. n \cup {m}, m \in 1 .. n => ~InList(a, m), m = NewHandle(a),
         NEW R \in Arenas(N), Split(a, R, n, h, bytes)
  PROVE  /\ Tiling(R, N) /\ InList(R, m) /\ m # h
         /\ \A k \in 1 .. n : k # m => (InList(R, k) <=> InList(a, k))
<1> DEFINE x == NextOf(a, h)
           q == PtrOf(a, h) + bytes
<1>1. /\ bytes \in Int /\ h # None /\ h # m /\ m \in 1 .. N /\ m # None
  BY DEF Whole, None
<1>2. \A k \in 1 .. n : InList(a, k) =>
        /\ Known(a, k) /\ PtrOf(a, k) \in Addresses /\ PtrOf(a, k) \in Int /\ SizeOf(a, k) \in Int
        /\ SizeOf(a, k) > 0 /\ EndOf(a, k) \in Int /\ NextOf(a, k) \in 0 .. n /\ PrevOf(a, k) \in 0 .. n
        /\ k # m /\ k \in 1 .. N
  BY TypesOfLinked DEF Tiling, Known
<1>3. /\ R.regions = a.regions /\ R.handles = [a.handles EXCEPT ![q] = m]
      /\ a.handles \in [Addresses -> 0 .. n]
  BY DEF Split, Arenas
<1>4. /\ PtrOf(R, m) = q /\ SizeOf(R, m) = SizeOf(a, h) - bytes
      /\ NextOf(R, m) = x /\ PrevOf(R, m) = h
      /\ \A k \in 1 .. n : k # m =>
           /\ PtrOf(R, k) = PtrOf(a, k)
           /\ SizeOf(R, k) = IF k = h THEN bytes ELSE SizeOf(a, k)
           /\ NextOf(R, k) = IF k = h THEN m ELSE NextOf(a, k)
           /\ PrevOf(R, k) = IF k # h /\ k = x THEN m ELSE PrevOf(a, k)
  BY DEF Split
<1>5. PICK r \in a.regions :
        /\ Within(a, h, r)
        /\ EndOf(a, h) = r.ptr + r.size => x = None
        /\ EndOf(a, h) # r.ptr + r.size => x # None
  BY DEF Tiling, Placed
<1>6. /\ r.ptr \in Int /\ r.size \in Int /\ RegionsApart(a.regions)
      /\ PtrOf(a, h) < q /\ q < EndOf(a, h) /\ EndOf(a, h) <= r.ptr + r.size /\ r.ptr <= PtrOf(a, h)
      /\ EndOf(a, h) = PtrOf(a, h) + SizeOf(a, h)
  BY <1>1, <1>2, <1>5, RegionTypes DEF Tiling, EndOf, Within
<1>7. q \in Addresses /\ q \in Int /\ q # Null
  <2>1. r.ptr + r.size <= DeviceBytes /\ PtrOf(a, h) >= 0 /\ DeviceBytes \in Nat
    BY <1>2, <1>6, ArenaConstants DEF RegionsApart, Addresses
  <2>2. Whole(PtrOf(a, h))
    BY <1>2 DEF Addresses, Whole
  <2>3. Whole(q)
    BY <2>2, WholeArithmetic
  <2> QED
    BY <1>2, <1>6, <2>1, <2>3 DEF Addresses, Whole, Null
<1> HIDE DEF q
<1>8. /\ InList(R, m)
      /\ \A k \in 1 .. n : k # m => (InList(R, k) <=> InList(a, k))
  BY <1>4, <1>7 DEF InList
<1>9. x # None => /\ x \in 1 .. n /\ InList(a, x) /\ x # h /\ PtrOf(a, x) = EndOf(a, h) /\ PrevOf(a, x) = h
                  /\ x # m
  BY <1>2, Neighbours
<1>10. /\ EndOf(R, m) = EndOf(a, h) /\ EndOf(R, h) = q
       /\ \A k \in 1 .. n : k # h /\ k # m => EndOf(R, k) = EndOf(a, k)
  BY <1>1, <1>2, <1>4, <1>6, <1>7 DEF EndOf, q
<1>11. ASSUME NEW k \in 1 .. n, InList(a, k), k # h
       PROVE  EndOf(a, k) <= PtrOf(a, h) \/ EndOf(a, h) <= PtrOf(a, k)
  BY <1>11 DEF Tiling, Spread
<1>12. Handled(R)
  <2>1. \A p \in Addresses : R.handles[p] = IF p = q THEN m ELSE a.handles[p]
    BY <1>3, <1>7
  <2>2. ASSUME NEW p \in Addresses, a.handles[p] # None PROVE PtrOf(R, a.handles[p]) = p
    <3>1. a.handles[p] \in 1 .. n /\ PtrOf(a, a.handles[p]) = p
      BY <1>3, <2>2 DEF Tiling, Handled, None
    <3>2. a.handles[p] # m
      BY <1>2, <3>1, NullIsNoAddress DEF InList
    <3> QED
      BY <1>4, <3>1, <3>2
  <2> QED
    BY <1>4, <2>1, <2>2 DEF Handled
<1>13. Based(R)
  <2>1. \A p \in Addresses : R.handles[p] = IF p = q THEN m ELSE a.handles[p]
    BY <1>3, <1>7
  <2>2. \A s \in a.regions : s.ptr \in Addresses
    BY <1>6, RegionTypes
  <2> QED
    BY <1>1, <1>3, <2>1, <2>2 DEF Tiling, Based
<1>14. Spread(R, N)
  <2>1. ASSUME NEW k \in 1 .. n, NEW l \in 1 .. n, k # m, l # m, InList(a, k), InList(a, l), k # l
        PROVE EndOf(R, k) <= PtrOf(R, l) \/ EndOf(R, l) <= PtrOf(R, k)
    <3>1. EndOf(a, k) <= PtrOf(a, l) \/ EndOf(a, l) <= PtrOf(a, k)
      BY <2>1 DEF Tiling, Spread
    <3> QED
      BY <1>2, <1>4, <1>6, <1>7, <1>10, <2>1, <3>1
  <2>2. ASSUME NEW k \in 1 .. n, k # m, InList(a, k)
        PROVE EndOf(R, k) <= PtrOf(R, m) \/ EndOf(R, m) <= PtrOf(R, k)
    <3>1. CASE k = h
      BY <1>4, <1>7, <1>10, <3>1
    <3>2. CASE k # h
      BY <1>2, <1>4, <1>6, <1>7, <1>10, <1>11, <2>2, <3>2
    <3> QED
      BY <3>1, <3>2
  <2>3. SUFFICES ASSUME NEW k \in 1 .. N, NEW l \in 1 .. N, InList(R, k), InList(R, l), k # l
                 PROVE EndOf(R, k) <= PtrOf(R, l) \/ EndOf(R, l) <= PtrOf(R, k)
    BY DEF Spread
  <2>4. (k \in 1 .. n /\ k # m) \/ k = m
    OBVIOUS
  <2>5. (l \in 1 .. n /\ l # m) \/ l = m
    OBVIOUS
  <2> QED
    BY <1>8, <2>1, <2>2, <2>3, <2>4, <2>5
<1>15. ASSUME NEW k \in 1 .. n, InList(a, k) PROVE Known(R, k) /\ Placed(R, k) /\ Backed(R, k)
  <2>0. k # m /\ k \in 1 .. N
    BY <1>2, <1>15
  <2>1. Known(R, k)
    <3>1. PtrOf(a, k) # q
      <4>1. CASE k = h
        BY <1>2, <1>6, <1>7, <4>1
      <4>2. CASE k # h
        BY <1>2, <1>6, <1>7, <1>11, <1>15, <4>2 DEF EndOf
      <4> QED
        BY <4>1, <4>2
    <3>2. R.handles[PtrOf(R, k)] = k
      BY <1>2, <1>3, <1>4, <1>15, <2>0, <3>1 DEF Known
    <3> QED
      BY <1>2, <1>4, <1>15, <2>0, <3>2 DEF Known
  <2>2. Placed(R, k)
    <3>1. CASE k = h
      <4>1. Within(R, h, r)
        BY <1>1, <1>2, <1>4, <1>6, <1>7, <1>10 DEF Within
      <4>2. EndOf(R, h) # r.ptr + r.size
        BY <1>2, <1>6, <1>7, <1>10
      <4>3. NextOf(R, h) = m /\ PtrOf(R, m) = EndOf(R, h) /\ PrevOf(R, m) = h
        BY <1>1, <1>4, <1>10
      <4> QED
        BY <1>1, <1>3, <3>1, <4>1, <4>2, <4>3 DEF Placed
    <3>2. CASE k # h
      <4> DEFINE y == NextOf(a, k)
      <4>1. PICK s \in a.regions :
              /\ Within(a, k, s)
              /\ EndOf(a, k) = s.ptr + s.size => y = None
              /\ EndOf(a, k) # s.ptr + s.size => y # None /\ PtrOf(a, y) = EndOf(a, k) /\ PrevOf(a, y) = k
        BY <1>15 DEF Tiling, Placed
      <4>2. EndOf(R, k) = EndOf(a, k) /\ PtrOf(R, k) = PtrOf(a, k) /\ NextOf(R, k) = y
        BY <1>4, <1>10, <1>15, <2>0, <3>2
      <4>3. y # None => y \in 1 .. n /\ InList(a, y) /\ PrevOf(a, y) = k
        BY <1>15, Neighbours
      <4> HIDE DEF y
      <4>4. y # None => PtrOf(R, y) = PtrOf(a, y) /\ PrevOf(R, y) = k
        <5>1. SUFFICES ASSUME y # None PROVE PtrOf(R, y) = PtrOf(a, y) /\ PrevOf(R, y) = k
          OBVIOUS
        <5>2. y # m
          BY <1>2, <4>3, <5>1
        <5>3. y # x
          BY <1>9, <3>2, <4>3, <5>1
        <5> QED
          BY <1>4, <4>3, <5>1, <5>2, <5>3
      <4> QED
        BY <1>3, <4>1, <4>2, <4>4 DEF Placed, Within
    <3> QED
      BY <3>1, <3>2
  <2>3. Backed(R, k)
    <3>1. CASE k # h /\ k = x
      <4>1. PrevOf(R, k) = m /\ NextOf(R, m) = k
        BY <1>4, <2>0, <3>1
      <4> QED
        BY <1>1, <1>8, <4>1 DEF Backed
    <3>2. CASE k = h \/ k # x
      <4> DEFINE w == PrevOf(a, k)
      <4>1. PrevOf(R, k) = w /\ PtrOf(R, k) = PtrOf(a, k)
        BY <1>4, <1>15, <2>0, <3>2
      <4>2. Backed(a, k) /\ w \in 0 .. n
        BY <1>2, <1>15 DEF Tiling
      <4> HIDE DEF w
      <4>3. w = None => \E s \in R.regions : s.ptr = PtrOf(R, k)
        BY <1>3, <4>1, <4>2 DEF Backed, w
      <4>4. ASSUME w # None PROVE InList(R, w) /\ NextOf(R, w) = k
        <5>1. w \in 1 .. n /\ InList(a, w) /\ NextOf(a, w) = k
          BY <4>2, <4>4 DEF Backed, w, None
        <5>2. w # h
          BY <1>9, <1>15, <3>2, <5>1 DEF None
        <5>3. w # m
          BY <1>2, <5>1
        <5> QED
          BY <1>8, <1>4, <5>1, <5>2, <5>3
      <4> QED
        BY <4>1, <4>3, <4>4 DEF Backed
    <3> QED
      BY <3>1, <3>2
  <2> QED
    BY <2>1, <2>2, <2>3
<1>16. Known(R, m)
  <2>1. Whole(SizeOf(a, h) - bytes) /\ SizeOf(a, h) - bytes > 0
    <3>1. Whole(SizeOf(a, h))
      BY <1>2 DEF Known
    <3> QED
      BY <1>1, <1>2, <3>1, WholeArithmetic
  <2>2. R.handles[PtrOf(R, m)] = m
    BY <1>3, <1>4, <1>7
  <2> QED
    BY <1>4, <2>1, <2>2 DEF Known
<1>17. Placed(R, m)
  <2>1. Within(R, m, r)
    BY <1>1, <1>2, <1>4, <1>6, <1>7, <1>10 DEF Within
  <2>2. x # None => PtrOf(R, x) = EndOf(R, m) /\ PrevOf(R, x) = m
    BY <1>4, <1>9, <1>10
  <2> QED
    BY <1>3, <1>4, <1>5, <1>10, <2>1, <2>2 DEF Placed
<1>18. Backed(R, m)
  BY <1>1, <1>4, <1>8 DEF Backed
<1>19. ASSUME NEW k \in 1 .. N, InList(R, k) PROVE Known(R, k) /\ Placed(R, k) /\ Backed(R, k)
  <2>1. CASE k = m
    BY <1>16, <1>17, <1>18, <2>1
  <2>2. CASE k # m
    <3>1. k \in 1 .. n
      BY <2>2
    <3> QED
      BY <1>8, <1>15, <1>19, <2>2, <3>1
  <2> QED
    BY <2>1, <2>2
<1>20. RegionsApart(R.regions)
  BY <1>3, <1>6
<1> QED
  BY <1>1, <1>8, <1>12, <1>13, <1>14, <1>19, <1>20 DEF Tiling

\* A chunk lies in one region and clear of every other.
LEMMA OneRegion ==
  ASSUME NEW R, RegionsApart(R), NEW r \in R, NEW q \in R, NEW x \in Int,
         r.ptr <= x, x < r.ptr + r.size, q.ptr <= x, x < q.ptr + q.size
  PROVE  q = r
BY RegionTypes DEF RegionsApart

\* A new region is tiled by its one chunk.
LEMMA ExtendTiles ==
  ASSUME NEW n \in Nat, NEW a \in Arenas(n), Tiling(a, n), NEW r, RegionsApart(a.regions \cup {r}),
         r \notin a.regions,
         NEW m, NEW N \in Nat, 1 .. N = 1 .. n \cup {m}, m \in 1 .. n => ~InList(a, m), m = NewHandle(a),
         NEW R \in Arenas(N), Extended(a, R, n, r)
  PROVE  /\ Tiling(R, N) /\ InList(R, m) /\ NextOf(R, m) = None
         /\ \A k \in 1 .. n : k # m => (InList(R, k) <=> InList(a, k))
<1>1. /\ m \in 1 .. N /\ m # None /\ r.ptr \in Addresses /\ r.ptr \in Int /\ r.size \in Int /\ r.size > 0
      /\ r.ptr # Null /\ Whole(r.size)
  BY RegionTypes, NullIsNoAddress DEF None, RegionsApart
<1>2. \A k \in 1 .. n : InList(a, k) =>
        /\ Known(a, k) /\ PtrOf(a, k) \in Addresses /\ PtrOf(a, k) \in Int /\ SizeOf(a, k) \in Int
        /\ SizeOf(a, k) > 0 /\ EndOf(a, k) \in Int /\ NextOf(a, k) \in 0 .. n /\ PrevOf(a, k) \in 0 .. n
        /\ k # m /\ k \in 1 .. N
  BY TypesOfLinked DEF Tiling, Known
<1>3. /\ R.regions = a.regions \cup {r}
      /\ \A q \in Addresses : R.handles[q] = IF q = r.ptr THEN m
                                             ELSE IF r.ptr <= q /\ q < r.ptr + r.size THEN None
                                             ELSE a.handles[q]
      /\ a.handles \in [Addresses -> 0 .. n]
  BY DEF Extended, Arenas
<1>4. /\ PtrOf(R, m) = r.ptr /\ SizeOf(R, m) = r.size /\ NextOf(R, m) = None /\ PrevOf(R, m) = None
      /\ \A k \in 1 .. n : k # m =>
           /\ PtrOf(R, k) = PtrOf(a, k) /\ SizeOf(R, k) = SizeOf(a, k)
           /\ NextOf(R, k) = NextOf(a, k) /\ PrevOf(R, k) = PrevOf(a, k)
  BY DEF Extended
<1>5. /\ InList(R, m)
      /\ \A k \in 1 .. n : k # m => (InList(R, k) <=> InList(a, k)) /\ EndOf(R, k) = EndOf(a, k)
      /\ EndOf(R, m) = r.ptr + r.size
  BY <1>1, <1>4 DEF InList, EndOf
<1>6. ASSUME NEW k \in 1 .. n, InList(a, k)
      PROVE  EndOf(a, k) <= r.ptr \/ r.ptr + r.size <= PtrOf(a, k)
  <2>1. PICK q \in a.regions : Within(a, k, q)
    BY <1>6 DEF Tiling, Placed
  <2>2. /\ q.ptr \in Int /\ q.size \in Int
        /\ (q.ptr + q.size <= r.ptr \/ r.ptr + r.size <= q.ptr)
    <3>1. q \in a.regions \cup {r} /\ q # r
      OBVIOUS
    <3> QED
      BY <3>1, RegionTypes DEF RegionsApart
  <2> QED
    BY <1>1, <1>2, <1>6, <2>1, <2>2 DEF Within
<1>7. ASSUME NEW q \in Addresses, ~(r.ptr <= q /\ q < r.ptr + r.size) PROVE R.handles[q] = a.handles[q]
  BY <1>1, <1>3, <1>7 DEF Addresses
<1>8. Handled(R)
  <2>1. SUFFICES ASSUME NEW p \in Addresses, R.handles[p] # None PROVE PtrOf(R, R.handles[p]) = p
    BY DEF Handled
  <2>2. CASE p = r.ptr
    BY <1>3, <1>4, <2>2
  <2>3. CASE p # r.ptr
    <3>1. R.handles[p] = a.handles[p]
      BY <1>3, <2>1, <2>3
    <3>2. a.handles[p] \in 1 .. n /\ PtrOf(a, a.handles[p]) = p
      BY <1>3, <2>1, <3>1 DEF Tiling, Handled, None
    <3>3. a.handles[p] # m
      BY <1>2, <3>2, NullIsNoAddress DEF InList
    <3> QED
      BY <1>4, <3>1, <3>2, <3>3
  <2> QED
    BY <2>2, <2>3
<1>9. Based(R)
  <2>1. SUFFICES ASSUME NEW q \in a.regions \cup {r} PROVE R.handles[q.ptr] # None
    BY <1>3 DEF Based
  <2>2. CASE q = r
    BY <1>1, <1>3, <2>2
  <2>3. CASE q # r
    <3>1. q \in a.regions /\ q.ptr \in Addresses /\ q.ptr \in Int /\ q.size \in Int /\ q.size > 0
      BY <2>3, RegionTypes
    <3>2. q.ptr + q.size <= r.ptr \/ r.ptr + r.size <= q.ptr
      BY <2>3 DEF RegionsApart
    <3>3. R.handles[q.ptr] = a.handles[q.ptr]
      BY <1>1, <1>7, <3>1, <3>2
    <3> QED
      BY <3>1, <3>3 DEF Tiling, Based
  <2> QED
    BY <2>2, <2>3
<1>10. Spread(R, N)
  <2>1. SUFFICES ASSUME NEW k \in 1 .. N, NEW l \in 1 .. N, InList(R, k), InList(R, l), k # l
                 PROVE EndOf(R, k) <= PtrOf(R, l) \/ EndOf(R, l) <= PtrOf(R, k)
    BY DEF Spread
  <2>2. CASE k # m /\ l # m
    <3>1. k \in 1 .. n /\ l \in 1 .. n
      BY <2>2
    <3>2. EndOf(a, k) <= PtrOf(a, l) \/ EndOf(a, l) <= PtrOf(a, k)
      BY <1>5, <2>1, <2>2, <3>1 DEF Tiling, Spread
    <3> QED
      BY <1>4, <1>5, <2>1, <2>2, <3>1, <3>2
  <2>3. ASSUME NEW j \in 1 .. N, j # m, InList(R, j)
        PROVE EndOf(R, j) <= PtrOf(R, m) \/ EndOf(R, m) <= PtrOf(R, j)
    <3>1. j \in 1 .. n
      BY <2>3
    <3>2. PtrOf(R, j) = PtrOf(a, j) /\ EndOf(R, j) = EndOf(a, j) /\ InList(a, j)
      BY <1>4, <1>5, <2>3, <3>1
    <3>3. EndOf(a, j) <= r.ptr \/ r.ptr + r.size <= PtrOf(a, j)
      BY <1>6, <3>1, <3>2
    <3> QED
      BY <1>4, <1>5, <3>2, <3>3
  <2> QED
    BY <2>1, <2>2, <2>3
<1>11. ASSUME NEW k \in 1 .. n, InList(a, k) PROVE Known(R, k) /\ Placed(R, k) /\ Backed(R, k)
  <2>0. k # m
    BY <1>2, <1>11
  <2>1. Known(R, k)
    <3>1. R.handles[PtrOf(a, k)] = a.handles[PtrOf(a, k)]
      <4>1. ~(r.ptr <= PtrOf(a, k) /\ PtrOf(a, k) < r.ptr + r.size)
        BY <1>1, <1>2, <1>6, <1>11 DEF EndOf
      <4> QED
        BY <1>2, <1>7, <1>11, <4>1
    <3> QED
      BY <1>2, <1>4, <1>11, <2>0, <3>1 DEF Known
  <2>2. Placed(R, k)
    <3> DEFINE y == NextOf(a, k)
    <3>1. PICK s \in a.regions :
            /\ Within(a, k, s)
            /\ EndOf(a, k) = s.ptr + s.size => y = None
            /\ EndOf(a, k) # s.ptr + s.size => y # None /\ PtrOf(a, y) = EndOf(a, k) /\ PrevOf(a, y) = k
      BY <1>11 DEF Tiling, Placed
    <3>2. EndOf(R, k) = EndOf(a, k) /\ PtrOf(R, k) = PtrOf(a, k) /\ NextOf(R, k) = y
      BY <1>4, <1>5, <1>11, <2>0
    <3>3. y # None => y \in 1 .. n /\ InList(a, y)
      BY <1>11, Neighbours
    <3> HIDE DEF y
    <3>4. y # None => PtrOf(R, y) = PtrOf(a, y) /\ PrevOf(R, y) = PrevOf(a, y)
      BY <1>2, <1>4, <3>3
    <3> QED
      BY <1>3, <3>1, <3>2, <3>4 DEF Placed, Within
  <2>3. Backed(R, k)
    <3> DEFINE w == PrevOf(a, k)
    <3>1. PrevOf(R, k) = w /\ PtrOf(R, k) = PtrOf(a, k)
      BY <1>4, <1>11, <2>0
    <3>2. Backed(a, k) /\ w \in 0 .. n
      BY <1>2, <1>11 DEF Tiling
    <3> HIDE DEF w
    <3>3. w = None => \E s \in R.regions : s.ptr = PtrOf(R, k)
      BY <1>3, <3>1, <3>2 DEF Backed, w
    <3>4. ASSUME w # None PROVE InList(R, w) /\ NextOf(R, w) = k
      <4>1. w \in 1 .. n /\ InList(a, w) /\ NextOf(a, w) = k
        BY <3>2, <3>4 DEF Backed, w, None
      <4> QED
        BY <1>2, <1>4, <1>5, <4>1
    <3> QED
      BY <3>1, <3>3, <3>4 DEF Backed
  <2> QED
    BY <2>1, <2>2, <2>3
<1>12. Known(R, m)
  BY <1>1, <1>3, <1>4 DEF Known
<1>13. Placed(R, m)
  BY <1>1, <1>3, <1>4, <1>5 DEF Placed, Within
<1>14. Backed(R, m)
  BY <1>3, <1>4 DEF Backed
<1>15. ASSUME NEW k \in 1 .. N, InList(R, k) PROVE Known(R, k) /\ Placed(R, k) /\ Backed(R, k)
  <2>1. CASE k = m
    BY <1>12, <1>13, <1>14, <2>1
  <2>2. CASE k # m
    <3>1. k \in 1 .. n
      BY <2>2
    <3> QED
      BY <1>5, <1>11, <1>15, <2>2, <3>1
  <2> QED
    BY <2>1, <2>2
<1> QED
  BY <1>3, <1>4, <1>5, <1>8, <1>9, <1>10, <1>15 DEF Tiling

\* A region and all its chunks taken out.
Withdrawn(a, R, n, r) ==
  /\ R.regions = a.regions \ {r}
  /\ \A p \in Addresses : R.handles[p] = IF r.ptr <= p /\ p < r.ptr + r.size THEN None ELSE a.handles[p]
  /\ \A k \in 1 .. n :
       IF ~InList(a, k) \/ Within(a, k, r) THEN PtrOf(R, k) = Null
       ELSE /\ PtrOf(R, k) = PtrOf(a, k) /\ SizeOf(R, k) = SizeOf(a, k)
            /\ NextOf(R, k) = NextOf(a, k) /\ PrevOf(R, k) = PrevOf(a, k)

\* The regions that stay are tiled when one leaves.
LEMMA WithdrawTiles ==
  ASSUME NEW n \in Nat, NEW a \in Arenas(n), Tiling(a, n), NEW r \in a.regions,
         NEW R \in Arenas(n), Withdrawn(a, R, n, r)
  PROVE  Tiling(R, n) /\ \A k \in 1 .. n : InList(R, k) <=> InList(a, k) /\ ~Within(a, k, r)
<1> DEFINE Stays(k) == InList(a, k) /\ ~Within(a, k, r)
<1>1. /\ r.ptr \in Int /\ r.size \in Int /\ r.size > 0 /\ RegionsApart(a.regions)
  BY RegionTypes DEF Tiling
<1>2. \A k \in 1 .. n : InList(a, k) =>
        /\ Known(a, k) /\ PtrOf(a, k) \in Addresses /\ PtrOf(a, k) \in Int /\ SizeOf(a, k) \in Int
        /\ SizeOf(a, k) > 0 /\ EndOf(a, k) \in Int /\ NextOf(a, k) \in 0 .. n /\ PrevOf(a, k) \in 0 .. n
  BY TypesOfLinked DEF Tiling, Known
<1>3. /\ R.regions = a.regions \ {r}
      /\ \A p \in Addresses : R.handles[p] = IF r.ptr <= p /\ p < r.ptr + r.size THEN None ELSE a.handles[p]
      /\ a.handles \in [Addresses -> 0 .. n]
  BY DEF Withdrawn, Arenas
<1>4. \A k \in 1 .. n :
        IF Stays(k) THEN /\ PtrOf(R, k) = PtrOf(a, k) /\ SizeOf(R, k) = SizeOf(a, k)
                         /\ NextOf(R, k) = NextOf(a, k) /\ PrevOf(R, k) = PrevOf(a, k)
                         /\ EndOf(R, k) = EndOf(a, k)
        ELSE PtrOf(R, k) = Null
  BY DEF Withdrawn, EndOf
<1>5. \A k \in 1 .. n : InList(R, k) <=> Stays(k)
  BY <1>4 DEF InList
<1>6. ASSUME NEW k \in 1 .. n, Stays(k), NEW q \in a.regions, Within(a, k, q)
      PROVE  q # r /\ (EndOf(a, k) <= r.ptr \/ r.ptr + r.size <= PtrOf(a, k))
  <2>1. q # r
    BY <1>6
  <2>2. /\ q.ptr \in Int /\ q.size \in Int
        /\ (q.ptr + q.size <= r.ptr \/ r.ptr + r.size <= q.ptr)
    BY <1>1, <2>1, RegionTypes DEF RegionsApart
  <2> QED
    BY <1>1, <1>2, <1>6, <2>1, <2>2 DEF Within
<1>7. \A k \in 1 .. n : Stays(k) => EndOf(a, k) <= r.ptr \/ r.ptr + r.size <= PtrOf(a, k)
  <2>1. TAKE k \in 1 .. n
  <2>2. HAVE Stays(k)
  <2>3. PICK q \in a.regions : Within(a, k, q)
    BY <2>2 DEF Tiling, Placed
  <2> QED
    BY <1>6, <2>2, <2>3
<1>8. ASSUME NEW k \in 1 .. n, Stays(k), NextOf(a, k) # None PROVE NextOf(a, k) \in 1 .. n /\ Stays(NextOf(a, k))
  <2> DEFINE y == NextOf(a, k)
  <2>1. /\ y \in 1 .. n /\ InList(a, y)
        /\ \E s \in a.regions : Within(a, k, s) /\ Within(a, y, s)
    BY <1>8, Neighbours
  <2> HIDE DEF y
  <2>2. PICK s \in a.regions : Within(a, k, s) /\ Within(a, y, s)
    BY <2>1
  <2>3. s # r
    BY <1>6, <1>8, <2>2
  <2>4. ~Within(a, y, r)
    <3>1. SUFFICES ASSUME Within(a, y, r) PROVE FALSE
      OBVIOUS
    <3>2. s.ptr \in Int /\ s.size \in Int /\ PtrOf(a, y) \in Int /\ SizeOf(a, y) > 0 /\ SizeOf(a, y) \in Int
      BY <1>1, <1>2, <2>1, RegionTypes
    <3>3. /\ s.ptr <= PtrOf(a, y) /\ PtrOf(a, y) < s.ptr + s.size
          /\ r.ptr <= PtrOf(a, y) /\ PtrOf(a, y) < r.ptr + r.size
      BY <1>1, <2>2, <3>1, <3>2 DEF Within, EndOf
    <3> QED
      BY <1>1, <2>3, <3>2, <3>3, OneRegion
  <2> QED
    BY <2>1, <2>4 DEF y
<1>9. ASSUME NEW k \in 1 .. n, Stays(k), PrevOf(a, k) # None PROVE PrevOf(a, k) \in 1 .. n /\ Stays(PrevOf(a, k))
  <2> DEFINE w == PrevOf(a, k)
  <2>1. w \in 1 .. n /\ InList(a, w) /\ NextOf(a, w) = k
    BY <1>2, <1>9 DEF Tiling, Backed, None
  <2> HIDE DEF w
  <2>2. \E s \in a.regions : Within(a, w, s) /\ Within(a, k, s)
    BY <2>1, Neighbours DEF None
  <2>3. PICK s \in a.regions : Within(a, w, s) /\ Within(a, k, s)
    BY <2>2
  <2>4. s # r
    BY <1>6, <1>9, <2>3
  <2>5. ~Within(a, w, r)
    <3>1. SUFFICES ASSUME Within(a, w, r) PROVE FALSE
      OBVIOUS
    <3>2. s.ptr \in Int /\ s.size \in Int /\ PtrOf(a, w) \in Int /\ SizeOf(a, w) > 0 /\ SizeOf(a, w) \in Int
      BY <1>1, <1>2, <2>1, RegionTypes
    <3>3. /\ s.ptr <= PtrOf(a, w) /\ PtrOf(a, w) < s.ptr + s.size
          /\ r.ptr <= PtrOf(a, w) /\ PtrOf(a, w) < r.ptr + r.size
      BY <1>1, <2>3, <3>1, <3>2 DEF Within, EndOf
    <3> QED
      BY <1>1, <2>4, <3>2, <3>3, OneRegion
  <2> QED
    BY <2>1, <2>5 DEF w
<1> HIDE DEF Stays
<1>10. RegionsApart(R.regions)
  <2>1. IsFiniteSet(a.regions \ {r})
    BY <1>1, FS_Subset DEF RegionsApart
  <2> QED
    BY <1>1, <1>3, <2>1 DEF RegionsApart
<1>11. Handled(R)
  <2>1. SUFFICES ASSUME NEW p \in Addresses, R.handles[p] # None PROVE PtrOf(R, R.handles[p]) = p
    BY DEF Handled
  <2>2. R.handles[p] = a.handles[p] /\ ~(r.ptr <= p /\ p < r.ptr + r.size)
    BY <1>3, <2>1
  <2> DEFINE k == a.handles[p]
  <2>3. k \in 1 .. n /\ PtrOf(a, k) = p
    BY <1>3, <2>1, <2>2 DEF Tiling, Handled, None
  <2> HIDE DEF k
  <2>4. InList(a, k)
    BY <2>3, NullIsNoAddress DEF InList
  <2>5. Stays(k)
    <3>1. ~Within(a, k, r)
      BY <1>1, <1>2, <2>2, <2>3, <2>4 DEF Within, EndOf
    <3> QED
      BY <2>4, <3>1 DEF Stays
  <2> QED
    BY <1>4, <2>2, <2>3, <2>5 DEF k
<1>12. Based(R)
  <2>1. SUFFICES ASSUME NEW q \in a.regions, q # r PROVE R.handles[q.ptr] # None
    BY <1>3 DEF Based
  <2>2. q.ptr \in Addresses /\ q.ptr \in Int /\ q.size \in Int /\ q.size > 0
    BY <1>1, RegionTypes
  <2>3. q.ptr + q.size <= r.ptr \/ r.ptr + r.size <= q.ptr
    BY <1>1, <2>1 DEF RegionsApart
  <2>4. R.handles[q.ptr] = a.handles[q.ptr]
    BY <1>1, <1>3, <2>2, <2>3
  <2> QED
    BY <2>4 DEF Tiling, Based
<1>13. Spread(R, n)
  <2>1. SUFFICES ASSUME NEW k \in 1 .. n, NEW l \in 1 .. n, Stays(k), Stays(l), k # l
                 PROVE EndOf(R, k) <= PtrOf(R, l) \/ EndOf(R, l) <= PtrOf(R, k)
    BY <1>5 DEF Spread
  <2>2. EndOf(a, k) <= PtrOf(a, l) \/ EndOf(a, l) <= PtrOf(a, k)
    BY <2>1 DEF Tiling, Spread, Stays
  <2> QED
    BY <1>4, <2>1, <2>2
<1>14. ASSUME NEW k \in 1 .. n, Stays(k) PROVE Known(R, k) /\ Placed(R, k) /\ Backed(R, k)
  <2>0. InList(a, k)
    BY <1>14 DEF Stays
  <2>1. Known(R, k)
    <3>1. ~(r.ptr <= PtrOf(a, k) /\ PtrOf(a, k) < r.ptr + r.size)
      BY <1>1, <1>2, <1>7, <1>14, <2>0 DEF EndOf
    <3> QED
      BY <1>2, <1>3, <1>4, <1>14, <2>0, <3>1 DEF Known
  <2>2. Placed(R, k)
    <3> DEFINE y == NextOf(a, k)
    <3>1. PICK s \in a.regions :
            /\ Within(a, k, s)
            /\ EndOf(a, k) = s.ptr + s.size => y = None
            /\ EndOf(a, k) # s.ptr + s.size => y # None /\ PtrOf(a, y) = EndOf(a, k) /\ PrevOf(a, y) = k
      BY <2>0 DEF Tiling, Placed
    <3>2. EndOf(R, k) = EndOf(a, k) /\ PtrOf(R, k) = PtrOf(a, k) /\ NextOf(R, k) = y
      BY <1>4, <1>14
    <3>3. y # None => y \in 1 .. n /\ Stays(y)
      BY <1>8, <1>14
    <3>4. s \in R.regions
      BY <1>3, <1>6, <1>14, <3>1
    <3> HIDE DEF y
    <3>5. y # None => PtrOf(R, y) = PtrOf(a, y) /\ PrevOf(R, y) = PrevOf(a, y)
      BY <1>4, <3>3
    <3> QED
      BY <3>1, <3>2, <3>4, <3>5 DEF Placed, Within
  <2>3. Backed(R, k)
    <3> DEFINE w == PrevOf(a, k)
    <3>1. PrevOf(R, k) = w /\ PtrOf(R, k) = PtrOf(a, k)
      BY <1>4, <1>14
    <3>2. Backed(a, k)
      BY <2>0 DEF Tiling
    <3>3. ASSUME w = None PROVE \E s \in R.regions : s.ptr = PtrOf(R, k)
      <4>1. PICK s \in a.regions : s.ptr = PtrOf(a, k)
        BY <3>2, <3>3 DEF Backed
      <4>2. s # r
        BY <1>1, <1>2, <1>7, <1>14, <2>0, <4>1 DEF EndOf
      <4> QED
        BY <1>3, <3>1, <4>1, <4>2
    <3>4. ASSUME w # None PROVE InList(R, w) /\ NextOf(R, w) = k
      <4>1. w \in 1 .. n /\ Stays(w) /\ NextOf(a, w) = k
        BY <1>9, <1>14, <3>2, <3>4 DEF Backed
      <4> QED
        BY <1>4, <1>5, <4>1
    <3> HIDE DEF w
    <3> QED
      BY <3>1, <3>3, <3>4 DEF Backed
  <2> QED
    BY <2>1, <2>2, <2>3
<1> QED
  BY <1>5, <1>10, <1>11, <1>12, <1>13, <1>14 DEF Tiling, Stays

\* w is what the walk from h on meets.
Walk(a, n, h, w) ==
  /\ w \in [Nat -> 0 .. n] /\ w[0] = h
  /\ \A i \in Nat : w[i + 1] = IF w[i] = None THEN None ELSE NextOf(a, w[i])
\* s is a walk that ends.
Path(a, n, h, w, s) ==
  \E len \in 0 .. n :
    /\ w[len] = None /\ \A i \in 0 .. len - 1 : w[i] \in 1 .. n
    /\ s = [i \in 1 .. len |-> w[i - 1]]

\* A walk along Chunk::next that ends is what Following lists.
LEMMA WalkExists ==
  ASSUME NEW n \in Nat, NEW a \in Arenas(n), NEW h \in 0 .. n
  PROVE  \E w : /\ Walk(a, n, h, w)
                /\ \A len \in 0 .. n : w[len] = None => \E s : s = Following(a, h) /\ Path(a, n, h, w, s)
<1> DEFINE Step(k) == IF k = None THEN None ELSE a.chunks[k].next
           G == [i \in Nat |-> [k \in 0 .. n |-> Step(k)]]
           IsWalk(f) == f = [i \in Nat |-> IF i = 0 THEN h ELSE Step(f[i - 1])]
<1>1. \A k \in 0 .. n : Step(k) = (IF k = None THEN None ELSE NextOf(a, k)) /\ Step(k) \in 0 .. n
  <2>1. TAKE k \in 0 .. n
  <2>2. CASE k = None
    BY <2>2 DEF None
  <2>3. CASE k # None
    BY <2>3, FieldTypes DEF NextOf, None
  <2> QED
    BY <2>2, <2>3
<1> HIDE DEF Step
<1>2. Transforms(G, Nat, 0 .. n)
  BY <1>1 DEF Transforms
<1>3. \E f \in [Nat -> 0 .. n] : f[0] = h /\ \A i \in Nat : f[i + 1] = G[i][f[i]]
  <2> DEFINE V == 0 .. n
  <2>1. h \in V /\ Transforms(G, Nat, V)
    BY <1>2
  <2> HIDE DEF G, V
  <2>2. \E f \in [Nat -> V] : Iterates(f, h, G)
    BY <2>1, NumberRecursion
  <2> QED
    BY <2>2 DEF V, Iterates
<1>4. PICK f \in [Nat -> 0 .. n] : f[0] = h /\ \A i \in Nat : f[i + 1] = G[i][f[i]]
  BY <1>3
<1>5. \A i \in Nat : f[i + 1] = Step(f[i])
  BY <1>4
<1>6. \A i \in Nat : i # 0 => i - 1 \in Nat /\ (i - 1) + 1 = i
  OBVIOUS
<1>7. \A i \in Nat : f[i] = IF i = 0 THEN h ELSE Step(f[i - 1])
  BY <1>4, <1>5, <1>6
<1>8. IsWalk(f)
  BY <1>7
<1>9. PICK w : w = CHOOSE g : IsWalk(g)
  OBVIOUS
<1>10. IsWalk(w)
  <2> HIDE DEF IsWalk
  <2> QED
    BY <1>8, <1>9
<1>11. w \in [Nat -> 0 .. n]
  <2>1. DOMAIN w = Nat /\ w[0] = h /\ \A i \in Nat : w[i + 1] = Step(w[i])
    <3>1. w = [i \in Nat |-> IF i = 0 THEN h ELSE Step(w[i - 1])]
      BY <1>10
    <3>2. \A i \in Nat : i + 1 \in Nat /\ i + 1 # 0 /\ (i + 1) - 1 = i
      OBVIOUS
    <3> QED
      BY <3>1, <3>2
  <2> DEFINE T == {i \in Nat : w[i] \in 0 .. n}
  <2>2. 0 \in T
    BY <2>1
  <2>3. \A i \in T : i + 1 \in T
    BY <2>1, <1>1
  <2>4. T \subseteq Nat
    OBVIOUS
  <2>5. T = Nat
    <3> HIDE DEF T
    <3> QED
      BY <2>2, <2>3, <2>4, NumberInduction
  <2>6. \A i \in Nat : w[i] \in 0 .. n
    BY <2>5
  <2>7. w = [i \in Nat |-> w[i]]
    <3>1. w = [i \in Nat |-> IF i = 0 THEN h ELSE Step(w[i - 1])]
      BY <1>10
    <3> QED
      BY <3>1
  <2> QED
    BY <2>6, <2>7
<1>12. w[0] = h /\ \A i \in Nat : w[i + 1] = Step(w[i])
  <2>1. w = [i \in Nat |-> IF i = 0 THEN h ELSE Step(w[i - 1])]
    BY <1>10
  <2>2. \A i \in Nat : i + 1 \in Nat /\ i + 1 # 0 /\ (i + 1) - 1 = i
    OBVIOUS
  <2> QED
    BY <2>1, <2>2
<1>13. Walk(a, n, h, w)
  BY <1>1, <1>11, <1>12 DEF Walk
<1>14. ASSUME NEW l \in 0 .. n, w[l] = None PROVE Path(a, n, h, w, Following(a, h))
  <2> DEFINE Ends(len) == w[len] = None /\ \A m \in 0 .. len - 1 : w[m] # None
             length == CHOOSE len \in 0 .. n : Ends(len)
  <2>1. Len(a.chunks) = n
    <3>1. a.chunks \in [1 .. n -> ChunkSet(n)]
      BY DEF Arenas
    <3> QED
      BY <3>1, IsASeq, LenProperties
  <2>2. \E len \in 0 .. n : Ends(len)
    <3> DEFINE T == {i \in 0 .. n : w[i] = None}
    <3>1. T \subseteq Nat /\ T # {}
      BY <1>14
    <3>2. PICK x \in T : \A y \in T : x <= y
      <4> HIDE DEF T
      <4> QED
        BY <3>1, LeastNumber
    <3>3. \A m \in 0 .. x - 1 : w[m] # None
      BY <3>2
    <3> QED
      BY <3>2, <3>3
  <2>3. length \in 0 .. n /\ Ends(length)
    <3> HIDE DEF Ends
    <3> QED
      BY <2>2
  <2>4. Following(a, h) = [i \in 1 .. length |-> w[i - 1]]
    <3>1. Following(a, h) = [i \in 1 .. (CHOOSE len \in 0 .. Len(a.chunks) : Ends(len)) |-> w[i - 1]]
      BY <1>9 DEF Following, Step
    <3> QED
      BY <3>1, <2>1
  <2>5. \A i \in 0 .. length - 1 : w[i] \in 1 .. n
    <3>1. TAKE i \in 0 .. length - 1
    <3>2. i \in Nat /\ w[i] # 0
      BY <2>3 DEF None
    <3>3. w[i] \in 0 .. n
      BY <3>2, <1>11
    <3> QED
      BY <3>2, <3>3
  <2> HIDE DEF length
  <2>6. w[length] = None
    BY <2>3
  <2> QED
    BY <2>3, <2>4, <2>5, <2>6 DEF Path
<1> QED
  BY <1>13, <1>14

\* Along Chunk::next the ranks of the chunks of S fall, and the walk stays in S.
Ranked(a, n, rank, S) ==
  /\ S \subseteq 1 .. n /\ Integral(rank, 1 .. n)
  /\ \A k \in S : NextOf(a, k) # None => NextOf(a, k) \in S /\ rank[NextOf(a, k)] < rank[k]

\* A walk along which a rank falls ends.
LEMMA WalkEnds ==
  ASSUME NEW n \in Nat, NEW a \in Arenas(n), NEW h \in 0 .. n, NEW rank, NEW S, Ranked(a, n, rank, S),
         h # None => h \in S, NEW w, Walk(a, n, h, w)
  PROVE  \E len \in 0 .. n :
            /\ w[len] = None /\ \A i \in 0 .. len - 1 : w[i] \in S
            /\ \A j \in 0 .. len - 1 : \A i \in 0 .. len - 1 : i < j => rank[w[j]] < rank[w[i]]
<1>1. \A k \in S : rank[k] \in Int /\ k # None /\ k \in 1 .. n
  BY DEF Ranked, None, Integral
<1>2. \A i \in Nat : w[i] # None => w[i] \in S
  <2> DEFINE T == {i \in Nat : w[i] # None => w[i] \in S}
  <2>1. 0 \in T
    BY DEF Walk
  <2>2. ASSUME NEW i \in T PROVE i + 1 \in T
    <3>1. CASE w[i] = None
      BY <3>1 DEF Walk
    <3>2. CASE w[i] # None
      BY <3>2 DEF Walk, Ranked
    <3> QED
      BY <3>1, <3>2
  <2>3. T \subseteq Nat
    OBVIOUS
  <2>4. T = Nat
    <3> HIDE DEF T
    <3> QED
      BY <2>1, <2>2, <2>3, NumberInduction
  <2> QED
    BY <2>4
<1>3. \A j \in Nat : (\A i \in 0 .. j : w[i] # None) => \A i \in 0 .. j - 1 : rank[w[j]] < rank[w[i]]
  <2> DEFINE T == {j \in Nat : (\A i \in 0 .. j : w[i] # None) => \A i \in 0 .. j - 1 : rank[w[j]] < rank[w[i]]}
  <2>1. 0 \in T
    OBVIOUS
  <2>2. ASSUME NEW j \in T PROVE j + 1 \in T
    <3>1. SUFFICES ASSUME \A i \in 0 .. j + 1 : w[i] # None, NEW i \in 0 .. j
                   PROVE  rank[w[j + 1]] < rank[w[i]]
      OBVIOUS
    <3>2. w[j] \in S /\ w[j + 1] \in S /\ w[i] \in S
      BY <1>2, <3>1
    <3>3. rank[w[j + 1]] < rank[w[j]]
      <4>1. w[j] # None /\ w[j + 1] # None
        BY <3>1
      <4>2. w[j + 1] = NextOf(a, w[j])
        BY <4>1 DEF Walk
      <4> QED
        BY <3>2, <4>1, <4>2 DEF Ranked
    <3>4. CASE i = j
      BY <3>3, <3>4
    <3>5. CASE i # j
      <4>1. rank[w[j]] < rank[w[i]]
        BY <3>1, <3>5
      <4>2. rank[w[j]] \in Int /\ rank[w[j + 1]] \in Int /\ rank[w[i]] \in Int
        BY <1>1, <3>2
      <4> HIDE DEF T
      <4> QED
        BY <3>3, <4>1, <4>2
    <3> QED
      BY <3>4, <3>5
  <2>3. T \subseteq Nat
    OBVIOUS
  <2>4. T = Nat
    <3> HIDE DEF T
    <3> QED
      BY <2>1, <2>2, <2>3, NumberInduction
  <2> QED
    BY <2>4
<1>4. \E i \in 0 .. n : w[i] = None
  <2> SUFFICES ASSUME \A i \in 0 .. n : w[i] # None PROVE FALSE
    OBVIOUS
  <2> DEFINE D == 0 .. n
             R == 1 .. n
             f == [i \in D |-> w[i]]
  <2>1. \A i, j \in D : i < j => rank[w[j]] < rank[w[i]] /\ rank[w[j]] \in Int
    <3>1. TAKE i, j \in D
    <3>2. HAVE i < j
    <3>3. w[j] \in S
      BY <1>2
    <3> QED
      BY <1>3, <1>1, <3>2, <3>3
  <2>2. \A i, j \in D : w[i] = w[j] => i = j
    <3>1. TAKE i, j \in D
    <3>2. HAVE w[i] = w[j]
    <3>3. rank[w[i]] \in Int
      BY <1>1, <1>2
    <3>4. ~(i < j) /\ ~(j < i)
      BY <2>1, <3>2, <3>3
    <3> QED
      BY <3>4
  <2>3. \A i \in D : w[i] \in R
    BY <1>1, <1>2
  <2>4. f \in Injection(D, R)
    BY <2>2, <2>3 DEF Injection, IsInjective
  <2>5. IsFiniteSet(R) /\ Cardinality(R) = n
    BY FS_Interval
  <2>6. IsFiniteSet(D) /\ Cardinality(D) = n + 1
    BY FS_Interval
  <2>7. Cardinality(D) <= Cardinality(R)
    <3> HIDE DEF f, D, R
    <3> QED
      BY <2>4, <2>5, FS_Injection
  <2> QED
    BY <2>5, <2>6, <2>7
<1> DEFINE T == {i \in 0 .. n : w[i] = None}
<1>5. T \subseteq Nat /\ T # {}
  BY <1>4
<1>6. PICK len \in T : \A y \in T : len <= y
  <2> HIDE DEF T
  <2> QED
    BY <1>5, LeastNumber
<1>7. len \in 0 .. n /\ w[len] = None /\ \A i \in 0 .. len - 1 : w[i] # None
  BY <1>6
<1>8. \A i \in 0 .. len - 1 : w[i] \in S
  BY <1>2, <1>7
<1>9. ASSUME NEW j \in 0 .. len - 1, NEW i \in 0 .. len - 1, i < j PROVE rank[w[j]] < rank[w[i]]
  BY <1>3, <1>7, <1>9
<1> QED
  BY <1>7, <1>8, <1>9

\* s lists chunks of S along Chunk::next, from h to the end.
Tour(a, S, rank, h, s, len) ==
  /\ s \in [1 .. len -> S]
  /\ h = None <=> len = 0
  /\ len > 0 => s[1] = h /\ NextOf(a, s[len]) = None
  /\ \A i \in 1 .. len - 1 : s[i + 1] = NextOf(a, s[i])
  /\ \A i, j \in 1 .. len : i < j => rank[s[j]] < rank[s[i]]

\* So Following is a list of chunks by falling rank.
LEMMA FollowingTours ==
  ASSUME NEW n \in Nat, NEW a \in Arenas(n), NEW h \in 0 .. n, NEW rank, NEW S, Ranked(a, n, rank, S),
         h # None => h \in S
  PROVE  \E len \in 0 .. n : Tour(a, S, rank, h, Following(a, h), len)
<1>1. PICK w : /\ Walk(a, n, h, w)
               /\ \A len \in 0 .. n : w[len] = None => \E s : s = Following(a, h) /\ Path(a, n, h, w, s)
  BY WalkExists
<1>2. PICK l \in 0 .. n :
            /\ w[l] = None /\ \A i \in 0 .. l - 1 : w[i] \in S
            /\ \A j \in 0 .. l - 1 : \A i \in 0 .. l - 1 : i < j => rank[w[j]] < rank[w[i]]
  BY <1>1, WalkEnds
<1>3. Path(a, n, h, w, Following(a, h))
  BY <1>1, <1>2
<1>4. PICK s : s = Following(a, h)
  OBVIOUS
<1>5. PICK len \in 0 .. n :
         /\ w[len] = None /\ \A i \in 0 .. len - 1 : w[i] \in 1 .. n
         /\ s = [i \in 1 .. len |-> w[i - 1]]
  BY <1>3, <1>4 DEF Path
<1>6. len = l
  <2>1. ~(len < l)
    <3>1. SUFFICES ASSUME len < l PROVE FALSE
      OBVIOUS
    <3>2. len \in 0 .. l - 1
      BY <3>1
    <3>3. w[len] \in S
      BY <1>2, <3>2
    <3> QED
      BY <1>5, <3>3 DEF Ranked, None
  <2>2. ~(l < len)
    <3>1. SUFFICES ASSUME l < len PROVE FALSE
      OBVIOUS
    <3>2. l \in 0 .. len - 1
      BY <3>1
    <3> QED
      BY <1>2, <1>5, <3>2 DEF None
  <2> QED
    BY <2>1, <2>2
<1>7. s \in [1 .. len -> S]
  BY <1>2, <1>5, <1>6
<1>8. h = None <=> len = 0
  <2>1. CASE len = 0
    BY <1>5, <1>1, <2>1 DEF Walk
  <2>2. CASE len # 0
    <3>1. w[0] \in S
      BY <1>2, <1>6, <2>2
    <3> QED
      BY <1>1, <2>2, <3>1 DEF Walk, Ranked, None
  <2> QED
    BY <2>1, <2>2
<1>9. len > 0 => s[1] = h /\ NextOf(a, s[len]) = None
  <2>1. HAVE len > 0
  <2>2. s[1] = w[0] /\ s[len] = w[len - 1] /\ len - 1 \in Nat /\ (len - 1) + 1 = len
    BY <1>5, <2>1
  <2>3. w[len - 1] # None
    BY <1>5, <2>1, <2>2 DEF None
  <2>4. w[(len - 1) + 1] = NextOf(a, w[len - 1])
    BY <1>1, <2>2, <2>3 DEF Walk
  <2> QED
    BY <1>1, <1>5, <2>2, <2>4 DEF Walk
<1>10. ASSUME NEW i \in 1 .. len - 1 PROVE s[i + 1] = NextOf(a, s[i])
  <2>1. s[i] = w[i - 1] /\ s[i + 1] = w[i] /\ i - 1 \in Nat /\ (i - 1) + 1 = i
    BY <1>5
  <2>2. w[i - 1] # None
    BY <1>5, <2>1 DEF None
  <2>3. w[(i - 1) + 1] = NextOf(a, w[i - 1])
    BY <1>1, <2>1, <2>2 DEF Walk
  <2> QED
    BY <2>1, <2>3
<1>11. ASSUME NEW i \in 1 .. len, NEW j \in 1 .. len, i < j PROVE rank[s[j]] < rank[s[i]]
  <2>1. s[i] = w[i - 1] /\ s[j] = w[j - 1] /\ i - 1 \in 0 .. len - 1 /\ j - 1 \in 0 .. len - 1 /\ i - 1 < j - 1
    BY <1>5, <1>11
  <2> QED
    BY <1>2, <1>6, <2>1
<1>12. Tour(a, S, rank, h, s, len)
  BY <1>7, <1>8, <1>9, <1>10, <1>11 DEF Tour
<1> QED
  BY <1>4, <1>12

\* A set of handles has a greatest member by any rank.
LEMMA Topmost ==
  ASSUME NEW n \in Nat, NEW f, Integral(f, 1 .. n), NEW S \in SUBSET (1 .. n), S # {}
  PROVE  \E x \in S : \A y \in S : f[y] <= f[x]
<1> DEFINE N == 1 .. n
           T == {s \in SUBSET N : s # {} => \E x \in s : \A y \in s : f[y] <= f[x]}
<1>1. IsFiniteSet(N) /\ \A x \in N : f[x] \in Int
  BY FS_Interval DEF Integral
<1> HIDE DEF N
<1>2. {} \in T
  OBVIOUS
<1>3. ASSUME NEW s \in SUBSET N, s # {}, \A x \in s : s \ {x} \in T PROVE s \in T
  <2>1. PICK x \in s : TRUE
    BY <1>3
  <2>2. CASE s \ {x} = {}
    BY <2>1, <2>2, <1>1
  <2>3. CASE s \ {x} # {}
    <3>1. PICK y \in s \ {x} : \A z \in s \ {x} : f[z] <= f[y]
      BY <1>3, <2>3
    <3>2. f[x] \in Int /\ f[y] \in Int /\ \A z \in s : f[z] \in Int
      BY <1>1
    <3>3. CASE f[x] <= f[y]
      BY <3>1, <3>3
    <3>4. CASE ~(f[x] <= f[y])
      <4>1. \A z \in s : f[z] <= f[x]
        BY <3>1, <3>2, <3>4
      <4> QED
        BY <4>1
    <3> QED
      BY <3>3, <3>4
  <2> QED
    BY <2>2, <2>3
<1>4. SUBSET N \subseteq T
  <2> HIDE DEF T
  <2> QED
    BY <1>1, <1>2, <1>3, SubsetInduction
<1> QED
  BY <1>4 DEF N

\* The walk meets every chunk of S if each is the first one or follows another.
LEMMA TourMeetsAll ==
  ASSUME NEW n \in Nat, NEW a \in Arenas(n), NEW h \in 0 .. n, NEW rank, NEW S, Ranked(a, n, rank, S),
         \A k \in S : k # h => \E j \in S : NextOf(a, j) = k,
         NEW s, NEW len \in 0 .. n, Tour(a, S, rank, h, s, len)
  PROVE  \A k \in S : \E i \in 1 .. len : s[i] = k
<1> DEFINE M == {k \in S : \A i \in 1 .. len : s[i] # k}
<1>1. SUFFICES ASSUME M # {} PROVE FALSE
  OBVIOUS
<1>2. M \in SUBSET (1 .. n) /\ Integral(rank, 1 .. n)
  BY DEF Ranked
<1>3. PICK k \in M : \A y \in M : rank[y] <= rank[k]
  <2> HIDE DEF M
  <2> QED
    BY <1>1, <1>2, Topmost
<1>4. k \in S /\ \A i \in 1 .. len : s[i] # k
  BY <1>3
<1>5. k # None /\ k \in 1 .. n
  BY <1>4 DEF Ranked, None
<1>6. k # h
  <2>1. SUFFICES ASSUME k = h PROVE FALSE
    OBVIOUS
  <2>2. len > 0
    BY <1>5, <2>1 DEF Tour
  <2>3. 1 \in 1 .. len /\ s[1] = h
    BY <2>2 DEF Tour
  <2> QED
    BY <1>4, <2>1, <2>3
<1>7. PICK j \in S : NextOf(a, j) = k
  BY <1>4, <1>6
<1>8. rank[k] < rank[j] /\ rank[k] \in Int /\ rank[j] \in Int
  BY <1>4, <1>5, <1>7 DEF Ranked, Integral
<1>9. j \notin M
  BY <1>3, <1>8
<1>10. PICK i \in 1 .. len : s[i] = j
  BY <1>9
<1>11. i # len
  BY <1>5, <1>7, <1>10 DEF Tour
<1>12. i \in 1 .. len - 1 /\ i + 1 \in 1 .. len
  BY <1>11
<1>13. s[i + 1] = k
  BY <1>7, <1>10, <1>12 DEF Tour
<1> QED
  BY <1>4, <1>12, <1>13

Blanks(a, n) == {k \in 1 .. n : ~InList(a, k)}

Listed(a, n) ==
  /\ a.freeList # None => a.freeList \in Blanks(a, n)
  /\ \E rank : Ranked(a, n, rank, Blanks(a, n))
  /\ \A k \in Blanks(a, n) : k # a.freeList => \E j \in Blanks(a, n) : NextOf(a, j) = k
  /\ \A k \in Blanks(a, n) : NextOf(a, k) # None =>
       /\ NextOf(a, k) # a.freeList
       /\ \A j \in Blanks(a, n) : NextOf(a, j) = NextOf(a, k) => j = k

\* The free list is sound if the chunks on it were left alone.
LEMMA ListStays ==
  ASSUME NEW n \in Nat, NEW a \in Arenas(n), Listed(a, n), NEW R \in Arenas(n), R.freeList = a.freeList,
         \A k \in 1 .. n : /\ InList(R, k) <=> InList(a, k)
                           /\ ~InList(a, k) => NextOf(R, k) = NextOf(a, k)
  PROVE  Listed(R, n)
<1>1. Blanks(R, n) = Blanks(a, n) /\ \A k \in Blanks(a, n) : NextOf(R, k) = NextOf(a, k)
  BY DEF Blanks
<1>2. PICK rank : Ranked(a, n, rank, Blanks(a, n))
  BY DEF Listed
<1>3. Ranked(R, n, rank, Blanks(R, n))
  BY <1>1, <1>2 DEF Ranked
<1> QED
  BY <1>1, <1>3 DEF Listed

\* DeallocateChunk puts h at the head of the free list.
LEMMA ListPushed ==
  ASSUME NEW n \in Nat, NEW a \in Arenas(n), Listed(a, n), NEW h \in 1 .. n, InList(a, h),
         NEW R \in Arenas(n), R.freeList = h, ~InList(R, h), NextOf(R, h) = a.freeList,
         \A k \in 1 .. n : k # h => /\ InList(R, k) <=> InList(a, k)
                                    /\ ~InList(a, k) => NextOf(R, k) = NextOf(a, k)
  PROVE  Listed(R, n)
<1> DEFINE B == Blanks(a, n)
           C == Blanks(R, n)
<1>1. C = B \cup {h} /\ h \notin B /\ B \subseteq 1 .. n
  BY DEF Blanks
<1>2. \A k \in B : NextOf(R, k) = NextOf(a, k)
  BY DEF Blanks
<1>3. PICK rank : Ranked(a, n, rank, B)
  BY DEF Listed
<1>4. /\ a.freeList # None => a.freeList \in B
      /\ \A k \in B : k # a.freeList => \E j \in B : NextOf(a, j) = k
      /\ \A k \in B : NextOf(a, k) # None =>
           NextOf(a, k) # a.freeList /\ \A j \in B : NextOf(a, j) = NextOf(a, k) => j = k
      /\ \A k \in B : NextOf(a, k) # None => NextOf(a, k) \in B
  BY <1>3 DEF Listed, Ranked
<1> HIDE DEF B, C
<1> DEFINE above == [rank EXCEPT ![h] = IF a.freeList = None THEN 0 ELSE rank[a.freeList] + 1]
<1>5. Ranked(R, n, above, C)
  <2>1. \A k \in 1 .. n : rank[k] \in Int
    BY <1>3 DEF Ranked, Integral
  <2>2. Integral(above, 1 .. n)
    <3>1. (IF a.freeList = None THEN 0 ELSE rank[a.freeList] + 1) \in Int
      <4>1. CASE a.freeList = None
        BY <4>1
      <4>2. CASE a.freeList # None
        <5>1. a.freeList \in 1 .. n
          BY <1>1, <1>4, <4>2
        <5> QED
          BY <2>1, <4>2, <5>1
      <4> QED
        BY <4>1, <4>2
    <3> QED
      BY <1>3, <3>1 DEF Ranked, Integral
  <2>3. above[h] = (IF a.freeList = None THEN 0 ELSE rank[a.freeList] + 1)
        /\ \A k \in 1 .. n : k # h => above[k] = rank[k]
    BY <1>3 DEF Ranked, Integral
  <2> HIDE DEF above
  <2>4. ASSUME NEW k \in C, NextOf(R, k) # None
        PROVE  NextOf(R, k) \in C /\ above[NextOf(R, k)] < above[k]
    <3>1. CASE k = h
      <4>1. a.freeList \in B /\ a.freeList # h
        BY <1>1, <1>4, <2>4, <3>1
      <4>2. above[k] = rank[a.freeList] + 1 /\ above[a.freeList] = rank[a.freeList] /\ rank[a.freeList] \in Int
        BY <1>1, <2>1, <2>3, <2>4, <3>1, <4>1
      <4>3. above[a.freeList] < above[k]
        BY <4>2
      <4> QED
        BY <1>1, <3>1, <4>1, <4>3
    <3>2. CASE k # h
      <4>1. k \in B /\ NextOf(R, k) = NextOf(a, k) /\ NextOf(a, k) \in B
        BY <1>1, <1>2, <1>4, <2>4, <3>2
      <4>2. rank[NextOf(a, k)] < rank[k] /\ above[k] = rank[k] /\ above[NextOf(a, k)] = rank[NextOf(a, k)]
        BY <1>1, <1>3, <2>3, <2>4, <4>1 DEF Ranked
      <4> QED
        BY <1>1, <4>1, <4>2
    <3> QED
      BY <3>1, <3>2
  <2> QED
    BY <1>1, <2>2, <2>4 DEF Ranked
<1>6. \A k \in C : k # h => \E j \in C : NextOf(R, j) = k
  <2>1. SUFFICES ASSUME NEW k \in B PROVE \E j \in C : NextOf(R, j) = k
    BY <1>1
  <2>2. CASE k = a.freeList
    BY <1>1, <2>2
  <2>3. CASE k # a.freeList
    BY <1>1, <1>2, <1>4, <2>3
  <2> QED
    BY <2>2, <2>3
<1>7. ASSUME NEW k \in C, NextOf(R, k) # None
      PROVE  NextOf(R, k) # h /\ \A j \in C : NextOf(R, j) = NextOf(R, k) => j = k
  <2>1. CASE k = h
    <3>1. NextOf(R, k) = a.freeList /\ a.freeList \in B
      BY <1>4, <1>7, <2>1
    <3>2. \A j \in B : NextOf(R, j) # a.freeList
      BY <1>2, <1>4, <1>7, <3>1
    <3> QED
      BY <1>1, <2>1, <3>1, <3>2
  <2>2. CASE k # h
    <3>1. k \in B /\ NextOf(R, k) = NextOf(a, k) /\ NextOf(a, k) \in B /\ NextOf(a, k) # a.freeList
      BY <1>1, <1>2, <1>4, <1>7, <2>2
    <3>2. \A j \in B : NextOf(R, j) = NextOf(R, k) => j = k
      BY <1>2, <1>4, <1>7, <3>1
    <3> QED
      BY <1>1, <3>1, <3>2
  <2> QED
    BY <2>1, <2>2
<1> QED
  BY <1>1, <1>5, <1>6, <1>7 DEF Listed, C

\* AllocateChunk takes the handle m off the free list, or makes a new one.
LEMMA ListPopped ==
  ASSUME NEW n \in Nat, NEW a \in Arenas(n), Listed(a, n), NEW m, m = NewHandle(a), NEW N, N = Grown(a, n),
         NEW R \in Arenas(N), InList(R, m),
         R.freeList = IF a.freeList # None THEN NextOf(a, a.freeList) ELSE None,
         \A k \in 1 .. n : k # m => /\ InList(R, k) <=> InList(a, k)
                                    /\ ~InList(a, k) => NextOf(R, k) = NextOf(a, k)
  PROVE  Listed(R, N)
<1> DEFINE B == Blanks(a, n)
           C == Blanks(R, N)
<1>1. N \in Nat /\ m \in 1 .. N /\ m = (IF a.freeList # None THEN a.freeList ELSE n + 1)
  BY AllocateFields
<1>2. PICK rank : Ranked(a, n, rank, B)
  BY DEF Listed
<1>3. /\ a.freeList # None => a.freeList \in B
      /\ \A k \in B : k # a.freeList => \E j \in B : NextOf(a, j) = k
      /\ \A k \in B : NextOf(a, k) # None =>
           NextOf(a, k) # a.freeList /\ \A j \in B : NextOf(a, j) = NextOf(a, k) => j = k
      /\ \A k \in B : NextOf(a, k) # None => NextOf(a, k) \in B
  BY <1>2 DEF Listed, Ranked
<1>4. CASE a.freeList # None
  <2>1. N = n /\ m = a.freeList /\ m \in B
    BY <1>1, <1>3, <1>4 DEF Grown
  <2>2. C = B \ {m} /\ \A k \in C : NextOf(R, k) = NextOf(a, k)
    BY <2>1 DEF Blanks
  <2>3. B \subseteq 1 .. n /\ R.freeList = NextOf(a, m)
    BY <1>4, <2>1 DEF Blanks
  <2> HIDE DEF B, C
  <2>4. Ranked(R, N, rank, C)
    BY <1>2, <1>3, <2>1, <2>2, <2>3 DEF Ranked
  <2>5. R.freeList # None => R.freeList \in C
    BY <1>3, <2>1, <2>2, <2>3
  <2>6. \A k \in C : k # R.freeList => \E j \in C : NextOf(R, j) = k
    BY <1>3, <2>1, <2>2, <2>3
  <2>7. ASSUME NEW k \in C, NextOf(R, k) # None
        PROVE  NextOf(R, k) # R.freeList /\ \A j \in C : NextOf(R, j) = NextOf(R, k) => j = k
    BY <1>3, <2>1, <2>2, <2>3, <2>7
  <2> QED
    BY <2>4, <2>5, <2>6, <2>7 DEF Listed, C
<1>5. CASE a.freeList = None
  <2>1. N = n + 1 /\ m = n + 1 /\ R.freeList = None
    BY <1>1, <1>5 DEF Grown
  <2>2. C = B /\ \A k \in C : NextOf(R, k) = NextOf(a, k)
    BY <2>1 DEF Blanks
  <2>3. B \subseteq 1 .. n
    BY DEF Blanks
  <2> HIDE DEF B, C
  <2> DEFINE more == [k \in 1 .. N |-> IF k \in 1 .. n THEN rank[k] ELSE 0]
  <2>4. Ranked(R, N, more, C)
    <3>1. Integral(more, 1 .. N)
      BY <1>2 DEF Ranked, Integral
    <3>2. C \subseteq 1 .. N /\ \A k \in C : more[k] = rank[k]
      BY <2>1, <2>2, <2>3
    <3> HIDE DEF more
    <3> QED
      BY <1>2, <1>3, <2>2, <3>1, <3>2 DEF Ranked
  <2>5. \A k \in C : k # R.freeList => \E j \in C : NextOf(R, j) = k
    BY <1>3, <1>5, <2>1, <2>2
  <2>6. ASSUME NEW k \in C, NextOf(R, k) # None
        PROVE  NextOf(R, k) # R.freeList /\ \A j \in C : NextOf(R, j) = NextOf(R, k) => j = k
    BY <1>3, <2>1, <2>2, <2>6
  <2> QED
    BY <2>1, <2>4, <2>5, <2>6 DEF Listed, C
<1> QED
  BY <1>4, <1>5

\* A chunk is in the bin of its size when it is free, but for those of U, which are in none.
Filed(a, n, U) ==
  \A h \in 1 .. n :
    /\ BinOf(a, h) = IF InList(a, h) /\ Idle(a, h) /\ h \notin U THEN BinNumForSize(SizeOf(a, h)) ELSE NoBin
    /\ \A b \in Bins : h \in a.bins[b] <=> BinOf(a, h) = b

Sound(a, n, U) == Tiling(a, n) /\ Listed(a, n) /\ Filed(a, n, U) /\ ~a.fault

\* RemoveFreeChunkFromBin keeps the arena sound, with one chunk out of its bin.
LEMMA RemoveSound ==
  ASSUME NEW n \in Nat, NEW a \in Arenas(n), NEW U, Sound(a, n, U), NEW h \in 1 .. n,
         InList(a, h), Idle(a, h), h \notin U, NEW R, R = RemoveFreeChunkFromBin(a, h)
  PROVE  R \in Arenas(n) /\ Removed(a, R, n, h) /\ Sound(R, n, U \cup {h})
<1>1. R \in Arenas(n) /\ Removed(a, R, n, h)
  BY RemoveFields
<1>2. Tiling(R, n) /\ \A k \in 1 .. n : InList(R, k) <=> InList(a, k)
  BY <1>1, ShapeTiles DEF Removed, Sound
<1>3. Listed(R, n)
  <2>1. R.freeList = a.freeList /\ \A k \in 1 .. n : NextOf(R, k) = NextOf(a, k)
    BY <1>1 DEF Removed, SameShape
  <2> QED
    BY <1>1, <1>2, <2>1, ListStays DEF Sound
<1>4. BinOf(a, h) = BinNumForSize(SizeOf(a, h)) /\ BinNumForSize(SizeOf(a, h)) \in Bins
  BY BinsOfSizes, FieldTypes DEF Sound, Filed
<1>5. ~R.fault
  <2>1. BinOf(a, h) # NoBin /\ h \in a.bins[BinOf(a, h)]
    BY <1>4 DEF Sound, Filed, NoBin, Bins
  <2> QED
    BY <1>1, <2>1 DEF Removed, Sound
<1>6. ASSUME NEW k \in 1 .. n
      PROVE  /\ BinOf(R, k) = IF InList(R, k) /\ Idle(R, k) /\ k \notin U \cup {h} THEN BinNumForSize(SizeOf(R, k))
                              ELSE NoBin
             /\ \A b \in Bins : k \in R.bins[b] <=> BinOf(R, k) = b
  <2>1. (Idle(R, k) <=> Idle(a, k)) /\ SizeOf(R, k) = SizeOf(a, k)
    BY <1>1 DEF Removed, SameUse, SameShape
  <2>2. /\ BinOf(R, k) = IF k = h THEN NoBin ELSE BinOf(a, k)
        /\ \A b \in Bins : R.bins[b] = IF b = BinOf(a, h) THEN a.bins[b] \ {h} ELSE a.bins[b]
    BY <1>1 DEF Removed
  <2>3. /\ BinOf(a, k) = IF InList(a, k) /\ Idle(a, k) /\ k \notin U THEN BinNumForSize(SizeOf(a, k)) ELSE NoBin
        /\ \A b \in Bins : k \in a.bins[b] <=> BinOf(a, k) = b
    BY DEF Sound, Filed
  <2>4. CASE k = h
    <3>1. NoBin \notin Bins
      BY DEF NoBin, Bins
    <3>2. \A b \in Bins : h \notin R.bins[b]
      BY <2>2, <2>3, <2>4
    <3> QED
      BY <2>2, <2>4, <3>1, <3>2
  <2>5. CASE k # h
    BY <1>2, <2>1, <2>2, <2>3, <2>5
  <2> QED
    BY <2>4, <2>5
<1> QED
  BY <1>1, <1>2, <1>3, <1>5, <1>6 DEF Sound, Filed

\* InsertFreeChunkIntoBin puts a free chunk back into its bin.
LEMMA InsertSound ==
  ASSUME NEW n \in Nat, NEW a \in Arenas(n), NEW U, Sound(a, n, U), NEW h \in 1 .. n,
         InList(a, h), Idle(a, h), h \in U, NEW R, R = InsertFreeChunkIntoBin(a, h)
  PROVE  R \in Arenas(n) /\ Inserted(a, R, n, h) /\ Sound(R, n, U \ {h})
<1>1. BinNumForSize(SizeOf(a, h)) \in Bins
  BY BinsOfSizes, FieldTypes
<1>2. R \in Arenas(n) /\ Inserted(a, R, n, h)
  BY <1>1, InsertFields
<1>3. Tiling(R, n) /\ \A k \in 1 .. n : InList(R, k) <=> InList(a, k)
  BY <1>2, ShapeTiles DEF Inserted, Sound
<1>4. Listed(R, n)
  <2>1. R.freeList = a.freeList /\ \A k \in 1 .. n : NextOf(R, k) = NextOf(a, k)
    BY <1>2 DEF Inserted, SameShape
  <2> QED
    BY <1>2, <1>3, <2>1, ListStays DEF Sound
<1>5. BinOf(a, h) = NoBin
  BY DEF Sound, Filed
<1>6. ~R.fault
  BY <1>2, <1>5 DEF Inserted, Sound
<1>7. ASSUME NEW k \in 1 .. n
      PROVE  /\ BinOf(R, k) = IF InList(R, k) /\ Idle(R, k) /\ k \notin U \ {h} THEN BinNumForSize(SizeOf(R, k))
                              ELSE NoBin
             /\ \A b \in Bins : k \in R.bins[b] <=> BinOf(R, k) = b
  <2>1. (Idle(R, k) <=> Idle(a, k)) /\ SizeOf(R, k) = SizeOf(a, k)
    BY <1>2 DEF Inserted, SameUse, SameShape
  <2>2. /\ BinOf(R, k) = IF k = h THEN BinNumForSize(SizeOf(a, h)) ELSE BinOf(a, k)
        /\ \A b \in Bins : R.bins[b] = IF b = BinNumForSize(SizeOf(a, h)) THEN a.bins[b] \cup {h} ELSE a.bins[b]
    BY <1>2 DEF Inserted
  <2>3. /\ BinOf(a, k) = IF InList(a, k) /\ Idle(a, k) /\ k \notin U THEN BinNumForSize(SizeOf(a, k)) ELSE NoBin
        /\ \A b \in Bins : k \in a.bins[b] <=> BinOf(a, k) = b
    BY DEF Sound, Filed
  <2>4. CASE k = h
    <3>1. BinOf(R, k) = BinNumForSize(SizeOf(a, h))
      BY <2>2, <2>4
    <3>2. \A b \in Bins : h \notin a.bins[b]
      BY <1>5, <2>3, <2>4 DEF NoBin, Bins
    <3> QED
      BY <1>3, <2>1, <2>2, <2>4, <3>1, <3>2
  <2>5. CASE k # h
    BY <1>3, <2>1, <2>2, <2>3, <2>5
  <2> QED
    BY <2>4, <2>5
<1> QED
  BY <1>2, <1>3, <1>4, <1>6, <1>7 DEF Sound, Filed

\* RegionFor finds a region for every address in a chunk, so its ENFORCE
\* passes.
LEMMA RegionThere ==
  ASSUME NEW n \in Nat, NEW a \in Arenas(n), Tiling(a, n), NEW h \in 1 .. n, InList(a, h),
         NEW x \in Int, PtrOf(a, h) <= x, x < EndOf(a, h)
  PROVE  RegionOf(a, x) # {}
<1>1. PICK r \in a.regions : Within(a, h, r)
  BY DEF Tiling, Placed
<1>2. r.ptr \in Int /\ r.size \in Int
  BY RegionTypes DEF Tiling
<1>3. PtrOf(a, h) \in Int /\ EndOf(a, h) \in Int
  BY TypesOfLinked
<1>4. r.ptr <= x /\ x < r.ptr + r.size
  BY <1>1, <1>2, <1>3 DEF Within
<1> QED
  BY <1>4 DEF RegionOf

\* Merge of two free neighbours keeps the arena sound.
LEMMA MergeSound ==
  ASSUME NEW n \in Nat, NEW a \in Arenas(n), NEW U, Sound(a, n, U), NEW g \in 1 .. n, InList(a, g),
         NEW h \in 1 .. n, h = NextOf(a, g), Idle(a, g), Idle(a, h), StreamOf(a, g) = StreamOf(a, h),
         g \in U, h \in U, NEW R, R = Merge(a, g, h)
  PROVE  /\ R \in Arenas(n) /\ Merged(a, R, n, g, h) /\ Sound(R, n, U \ {h}) /\ g # h /\ InList(a, h)
         /\ \A k \in 1 .. n : InList(R, k) <=> InList(a, k) /\ k # h
<1>1. h # None
  BY DEF None
<1>2. Tiling(a, n)
  BY DEF Sound
<1>3. InList(a, h) /\ h # g /\ PrevOf(a, h) = g
  BY <1>1, <1>2, Neighbours
<1>4. R \in Arenas(n) /\ Merged(a, R, n, g, h)
  BY <1>3, MergeFields
<1>5. Tiling(R, n) /\ \A k \in 1 .. n : InList(R, k) <=> InList(a, k) /\ k # h
  BY <1>2, <1>4, MergeTiles
<1>6. Listed(R, n)
  <2>1. R.freeList = h /\ NextOf(R, h) = a.freeList
    BY <1>4 DEF Merged
  <2>2. \A k \in 1 .. n : k # h /\ ~InList(a, k) => NextOf(R, k) = NextOf(a, k)
    BY <1>4 DEF Merged
  <2> QED
    BY <1>3, <1>4, <1>5, <2>1, <2>2, ListPushed DEF Sound
<1>7. ~R.fault
  <2>1. Known(a, h) /\ PtrOf(a, h) \in Int /\ SizeOf(a, h) \in Int
    BY <1>2, <1>3, TypesOfLinked DEF Tiling
  <2>2. PtrOf(a, h) < EndOf(a, h)
    BY <2>1 DEF Known, EndOf
  <2>3. RegionOf(a, PtrOf(a, h)) # {}
    BY <1>2, <1>3, <2>1, <2>2, RegionThere
  <2> QED
    BY <1>3, <1>4, <2>3 DEF Merged, Sound
<1>8. ASSUME NEW k \in 1 .. n
      PROVE  /\ BinOf(R, k) = IF InList(R, k) /\ Idle(R, k) /\ k \notin U \ {h} THEN BinNumForSize(SizeOf(R, k))
                              ELSE NoBin
             /\ \A b \in Bins : k \in R.bins[b] <=> BinOf(R, k) = b
  <2>1. R.bins = a.bins
    BY <1>4 DEF Merged
  <2>2. IF k = h THEN BinOf(R, k) = NoBin
        ELSE BinOf(R, k) = BinOf(a, k) /\ (Idle(R, k) <=> Idle(a, k)) /\ (k # g => SizeOf(R, k) = SizeOf(a, k))
    BY <1>4 DEF Merged
  <2>3. /\ BinOf(a, k) = IF InList(a, k) /\ Idle(a, k) /\ k \notin U THEN BinNumForSize(SizeOf(a, k)) ELSE NoBin
        /\ \A b \in Bins : k \in a.bins[b] <=> BinOf(a, k) = b
    BY DEF Sound, Filed
  <2>4. CASE k = h
    BY <1>5, <2>1, <2>2, <2>3, <2>4 DEF NoBin, Bins
  <2>5. CASE k = g
    BY <1>3, <1>5, <2>1, <2>2, <2>3, <2>5
  <2>6. CASE k # h /\ k # g
    BY <1>5, <2>1, <2>2, <2>3, <2>6
  <2> QED
    BY <2>4, <2>5, <2>6
<1> QED
  BY <1>3, <1>4, <1>5, <1>6, <1>7, <1>8 DEF Sound, Filed

\* The cut of a split is an address inside a region.
LEMMA InsideChunk ==
  ASSUME NEW n \in Nat, NEW a \in Arenas(n), Tiling(a, n), NEW h \in 1 .. n, InList(a, h),
         NEW bytes, Whole(bytes), bytes < SizeOf(a, h)
  PROVE  PtrOf(a, h) + bytes \in Addresses /\ RegionOf(a, PtrOf(a, h) + bytes) # {}
<1>1. /\ PtrOf(a, h) \in Addresses /\ PtrOf(a, h) \in Int /\ SizeOf(a, h) \in Int /\ bytes \in Nat
      /\ EndOf(a, h) = PtrOf(a, h) + SizeOf(a, h)
  BY TypesOfLinked DEF Whole, EndOf
<1>2. PICK r \in a.regions : Within(a, h, r)
  BY DEF Tiling, Placed
<1>3. r.ptr \in Int /\ r.size \in Int /\ RegionsApart(a.regions)
  BY RegionTypes DEF Tiling
<1>4. EndOf(a, h) <= r.ptr + r.size /\ r.ptr + r.size <= DeviceBytes
  BY <1>2, <1>3 DEF Within, RegionsApart
<1>5. PtrOf(a, h) >= 0 /\ DeviceBytes \in Nat /\ Whole(PtrOf(a, h))
  BY <1>1, ArenaConstants DEF Addresses, Whole
<1>6. Whole(PtrOf(a, h) + bytes)
  BY <1>5, WholeArithmetic
<1>7. PtrOf(a, h) + bytes \in Addresses
  BY <1>1, <1>3, <1>4, <1>5, <1>6 DEF Addresses, Whole
<1>8. PtrOf(a, h) <= PtrOf(a, h) + bytes /\ PtrOf(a, h) + bytes < EndOf(a, h) /\ PtrOf(a, h) + bytes \in Int
  BY <1>1
<1>9. RegionOf(a, PtrOf(a, h) + bytes) # {}
  BY <1>8, RegionThere
<1> QED
  BY <1>7, <1>9

\* The handle AllocateChunk returns is of no chunk in a list.
LEMMA FreshHandle ==
  ASSUME NEW n \in Nat, NEW a \in Arenas(n), Listed(a, n)
  PROVE  /\ Grown(a, n) \in Nat /\ NewHandle(a) \in 1 .. Grown(a, n)
         /\ 1 .. Grown(a, n) = 1 .. n \cup {NewHandle(a)}
         /\ NewHandle(a) \in 1 .. n => ~InList(a, NewHandle(a))
<1>1. /\ Grown(a, n) \in Nat /\ NewHandle(a) \in 1 .. Grown(a, n)
      /\ NewHandle(a) = IF a.freeList # None THEN a.freeList ELSE n + 1
  BY AllocateFields
<1>2. CASE a.freeList # None
  <2>1. a.freeList \in Blanks(a, n)
    BY <1>2 DEF Listed
  <2> QED
    BY <1>1, <1>2, <2>1 DEF Grown, Blanks
<1>3. CASE a.freeList = None
  BY <1>1, <1>3 DEF Grown
<1> QED
  BY <1>2, <1>3, <1>1

\* SplitChunk keeps the arena sound, and files the second half.
LEMMA SplitSound ==
  ASSUME NEW n \in Nat, NEW a \in Arenas(n), NEW h \in 1 .. n, Sound(a, n, {h}), InList(a, h), Idle(a, h),
         NEW bytes, Whole(bytes), 0 < bytes, bytes < SizeOf(a, h),
         NEW R, R = SplitChunk(a, h, bytes), NEW N, N = Grown(a, n), NEW m, m = NewHandle(a)
  PROVE  /\ R \in Arenas(N) /\ Split(a, R, n, h, bytes) /\ Sound(R, N, {h})
         /\ InList(R, m) /\ m # h /\ m \in 1 .. N /\ h \in 1 .. N /\ (m \in 1 .. n => ~InList(a, m))
         /\ \A k \in 1 .. n : k # m => (InList(R, k) <=> InList(a, k))
         /\ N \in Nat /\ 1 .. N = 1 .. n \cup {m}
<1>1. N \in Nat /\ m \in 1 .. N /\ 1 .. N = 1 .. n \cup {m} /\ (m \in 1 .. n => ~InList(a, m))
  BY FreshHandle DEF Sound
<1>2. /\ PtrOf(a, h) + bytes \in Addresses /\ RegionOf(a, PtrOf(a, h) + bytes) # {}
  BY InsideChunk DEF Sound
<1>3. h # m /\ bytes \in Nat /\ SizeOf(a, h) \in Nat
  BY <1>1, FieldTypes DEF Whole
<1>4. SizeOf(a, h) - bytes \in Nat
  BY <1>3
<1>5. BinNumForSize(SizeOf(a, h) - bytes) \in Bins
  BY <1>4, BinsOfSizes
<1>6. R \in Arenas(N) /\ Split(a, R, n, h, bytes)
  <2>1. bytes <= SizeOf(a, h)
    BY <1>3
  <2> QED
    BY <1>2, <1>3, <1>5, <2>1, SplitFields
<1>7. /\ Tiling(R, N) /\ InList(R, m)
      /\ \A k \in 1 .. n : k # m => (InList(R, k) <=> InList(a, k))
  BY <1>1, <1>6, SplitTiles DEF Sound
<1>8. Listed(R, N)
  <2>1. R.freeList = IF a.freeList # None THEN NextOf(a, a.freeList) ELSE None
    BY <1>6 DEF Split
  <2>2. \A k \in 1 .. n : k # m /\ ~InList(a, k) => NextOf(R, k) = NextOf(a, k)
    BY <1>6 DEF Split
  <2> QED
    BY <1>6, <1>7, <2>1, <2>2, ListPopped DEF Sound
<1>9. BinOf(a, h) = NoBin
  BY DEF Sound, Filed
<1>10. ~R.fault
  BY <1>2, <1>6, <1>9 DEF Split, Sound
<1>11. ASSUME NEW k \in 1 .. N
       PROVE  /\ BinOf(R, k) = IF InList(R, k) /\ Idle(R, k) /\ k \notin {h} THEN BinNumForSize(SizeOf(R, k))
                               ELSE NoBin
              /\ \A b \in Bins : k \in R.bins[b] <=> BinOf(R, k) = b
  <2>1. \A b \in Bins : R.bins[b] = IF b = BinNumForSize(SizeOf(a, h) - bytes) THEN a.bins[b] \cup {m}
                                    ELSE a.bins[b]
    BY <1>6 DEF Split
  <2>2. CASE k = m
    <3>1. /\ Idle(R, m) /\ BinOf(R, m) = BinNumForSize(SizeOf(a, h) - bytes)
          /\ SizeOf(R, m) = SizeOf(a, h) - bytes
      BY <1>6 DEF Split
    <3>2. \A b \in Bins : m \notin a.bins[b]
      <4>1. CASE m \in 1 .. n
        <5>1. BinOf(a, m) = NoBin
          BY <1>1, <4>1 DEF Sound, Filed
        <5> QED
          BY <4>1, <5>1 DEF Sound, Filed, NoBin, Bins
      <4>2. CASE m \notin 1 .. n
        BY <4>2 DEF Arenas
      <4> QED
        BY <4>1, <4>2
    <3> QED
      BY <1>3, <1>7, <2>1, <2>2, <3>1, <3>2
  <2>3. CASE k # m
    <3>1. k \in 1 .. n
      BY <1>1, <2>3
    <3>2. /\ BinOf(R, k) = BinOf(a, k) /\ (Idle(R, k) <=> Idle(a, k))
          /\ (k # h => SizeOf(R, k) = SizeOf(a, k))
      BY <1>6, <2>3, <3>1 DEF Split
    <3>3. /\ BinOf(a, k) = IF InList(a, k) /\ Idle(a, k) /\ k \notin {h} THEN BinNumForSize(SizeOf(a, k)) ELSE NoBin
          /\ \A b \in Bins : k \in a.bins[b] <=> BinOf(a, k) = b
      BY <3>1 DEF Sound, Filed
    <3> QED
      BY <1>7, <2>1, <2>3, <3>1, <3>2, <3>3
  <2> QED
    BY <2>2, <2>3
<1> QED
  BY <1>1, <1>3, <1>6, <1>7, <1>8, <1>10, <1>11 DEF Sound, Filed

\* AddRegion keeps the arena sound.
LEMMA ExtendSound ==
  ASSUME NEW n \in Nat, NEW a \in Arenas(n), Sound(a, n, {}), NEW p \in Addresses, NEW bytes \in Nat \ {0},
         stats.extensions \in Int, NEW r, r = [ptr |-> p, size |-> bytes, id |-> stats.extensions],
         RegionsApart(a.regions \cup {r}), r \notin a.regions,
         NEW R, R = AddRegion(a, p, bytes), NEW N, N = Grown(a, n), NEW m, m = NewHandle(a)
  PROVE  /\ R \in Arenas(N) /\ Extended(a, R, n, r) /\ Sound(R, N, {}) /\ InList(R, m) /\ NextOf(R, m) = None
         /\ \A k \in 1 .. n : k # m => (InList(R, k) <=> InList(a, k))
         /\ (m \in 1 .. n => ~InList(a, m)) /\ N \in Nat /\ m \in 1 .. N /\ 1 .. N = 1 .. n \cup {m}
<1>1. N \in Nat /\ m \in 1 .. N /\ 1 .. N = 1 .. n \cup {m} /\ (m \in 1 .. n => ~InList(a, m))
  BY FreshHandle DEF Sound
<1>2. BinNumForSize(bytes) \in Bins
  BY BinsOfSizes
<1>3. R \in Arenas(N) /\ Extended(a, R, n, r)
  BY <1>2, ExtendFields
<1>4. /\ Tiling(R, N) /\ InList(R, m) /\ NextOf(R, m) = None
      /\ \A k \in 1 .. n : k # m => (InList(R, k) <=> InList(a, k))
  <2>1. Tiling(a, n)
    BY DEF Sound
  <2> QED
    BY <1>1, <1>3, <2>1, ExtendTiles
<1>5. Listed(R, N)
  <2>1. R.freeList = IF a.freeList # None THEN NextOf(a, a.freeList) ELSE None
    BY <1>3 DEF Extended
  <2>2. \A k \in 1 .. n : k # m /\ ~InList(a, k) => NextOf(R, k) = NextOf(a, k)
    BY <1>3 DEF Extended
  <2> QED
    BY <1>3, <1>4, <2>1, <2>2, ListPopped DEF Sound
<1>6. ~R.fault
  BY <1>3 DEF Extended, Sound
<1>7. ASSUME NEW k \in 1 .. N
       PROVE  /\ BinOf(R, k) = IF InList(R, k) /\ Idle(R, k) /\ k \notin {} THEN BinNumForSize(SizeOf(R, k))
                               ELSE NoBin
              /\ \A b \in Bins : k \in R.bins[b] <=> BinOf(R, k) = b
  <2>1. \A b \in Bins : R.bins[b] = IF b = BinNumForSize(r.size) THEN a.bins[b] \cup {m} ELSE a.bins[b]
    BY <1>3 DEF Extended
  <2>2. CASE k = m
    <3>1. Idle(R, m) /\ BinOf(R, m) = BinNumForSize(r.size) /\ SizeOf(R, m) = r.size
      BY <1>3 DEF Extended
    <3>2. \A b \in Bins : m \notin a.bins[b]
      <4>1. CASE m \in 1 .. n
        <5>1. BinOf(a, m) = NoBin
          BY <1>1, <4>1 DEF Sound, Filed
        <5> QED
          BY <4>1, <5>1 DEF Sound, Filed, NoBin, Bins
      <4>2. CASE m \notin 1 .. n
        BY <4>2 DEF Arenas
      <4> QED
        BY <4>1, <4>2
    <3> QED
      BY <1>4, <2>1, <2>2, <3>1, <3>2
  <2>3. CASE k # m
    <3>1. k \in 1 .. n
      BY <1>1, <2>3
    <3>2. BinOf(R, k) = BinOf(a, k) /\ (Idle(R, k) <=> Idle(a, k)) /\ SizeOf(R, k) = SizeOf(a, k)
      BY <1>3, <2>3, <3>1 DEF Extended
    <3>3. /\ BinOf(a, k) = IF InList(a, k) /\ Idle(a, k) /\ k \notin {} THEN BinNumForSize(SizeOf(a, k)) ELSE NoBin
          /\ \A b \in Bins : k \in a.bins[b] <=> BinOf(a, k) = b
      BY <3>1 DEF Sound, Filed
    <3> QED
      BY <1>4, <2>1, <2>3, <3>1, <3>2, <3>3
  <2> QED
    BY <2>2, <2>3
<1> QED
  BY <1>1, <1>3, <1>4, <1>5, <1>6, <1>7 DEF Sound, Filed

\* Marking a chunk used or free, or putting it on a stream, leaves the lists alone.
LEMMA MarkSound ==
  ASSUME NEW n \in Nat, NEW a \in Arenas(n), NEW U, Sound(a, n, U), NEW R \in Arenas(n),
         SameShape(a, R, n), SameFiling(a, R, n), ~R.fault, NEW V,
         \A k \in 1 .. n : InList(a, k) => (Idle(R, k) /\ k \notin V <=> Idle(a, k) /\ k \notin U)
  PROVE  Sound(R, n, V) /\ \A k \in 1 .. n : InList(R, k) <=> InList(a, k)
<1>1. Tiling(R, n) /\ \A k \in 1 .. n : InList(R, k) <=> InList(a, k)
  BY ShapeTiles DEF Sound
<1>2. Listed(R, n)
  <2>1. R.freeList = a.freeList /\ \A k \in 1 .. n : NextOf(R, k) = NextOf(a, k)
    BY DEF SameShape
  <2> QED
    BY <1>1, <2>1, ListStays DEF Sound
<1>3. ASSUME NEW k \in 1 .. n
      PROVE  /\ BinOf(R, k) = IF InList(R, k) /\ Idle(R, k) /\ k \notin V THEN BinNumForSize(SizeOf(R, k)) ELSE NoBin
             /\ \A b \in Bins : k \in R.bins[b] <=> BinOf(R, k) = b
  <2>1. /\ BinOf(a, k) = IF InList(a, k) /\ Idle(a, k) /\ k \notin U THEN BinNumForSize(SizeOf(a, k)) ELSE NoBin
        /\ \A b \in Bins : k \in a.bins[b] <=> BinOf(a, k) = b
    BY DEF Sound, Filed
  <2>2. BinOf(R, k) = BinOf(a, k) /\ R.bins = a.bins /\ SizeOf(R, k) = SizeOf(a, k)
    BY DEF SameFiling, SameShape
  <2> QED
    BY <1>1, <2>1, <2>2
<1> QED
  BY <1>1, <1>2, <1>3 DEF Sound, Filed

Joinable(a, h, k) == k # None /\ Idle(a, k) /\ StreamOf(a, k) = StreamOf(a, h)
Settled(a, h) == InList(a, h) /\ Idle(a, h) => ~Joinable(a, h, NextOf(a, h))

Coarser(a, R, n) ==
  /\ R.regions = a.regions
  /\ \A k \in 1 .. n : InList(R, k) =>
       /\ InList(a, k) /\ PtrOf(R, k) = PtrOf(a, k) /\ StreamOf(R, k) = StreamOf(a, k)
       /\ (Idle(R, k) <=> Idle(a, k)) /\ (~Idle(a, k) => SizeOf(R, k) = SizeOf(a, k))
  /\ \A k \in 1 .. n : InList(a, k) /\ ~Idle(a, k) => InList(R, k)

\* Coarsening is transitive.
LEMMA CoarserTwice ==
  ASSUME NEW n \in Nat, NEW a, NEW b, NEW c, Coarser(a, b, n), Coarser(b, c, n)
  PROVE  Coarser(a, c, n)
<1>1. c.regions = a.regions
  BY DEF Coarser
<1>2. ASSUME NEW k \in 1 .. n, InList(c, k)
      PROVE  /\ InList(a, k) /\ PtrOf(c, k) = PtrOf(a, k) /\ StreamOf(c, k) = StreamOf(a, k)
             /\ (Idle(c, k) <=> Idle(a, k)) /\ (~Idle(a, k) => SizeOf(c, k) = SizeOf(a, k))
  BY <1>2 DEF Coarser
<1>3. ASSUME NEW k \in 1 .. n, InList(a, k), ~Idle(a, k) PROVE InList(c, k)
  <2>1. InList(b, k)
    BY <1>3 DEF Coarser
  <2>2. ~Idle(b, k)
    BY <1>3, <2>1 DEF Coarser
  <2> QED
    BY <2>1, <2>2 DEF Coarser
<1> QED
  BY <1>1, <1>2, <1>3 DEF Coarser

\* Coarsening is reflexive.
LEMMA CoarserSelf ==
  ASSUME NEW n \in Nat, NEW a
  PROVE  Coarser(a, a, n)
BY DEF Coarser

\* Chunks whose successor stays keep to what they were.
LEMMA SettledStays ==
  ASSUME NEW n \in Nat, NEW a \in Arenas(n), NEW R \in Arenas(n), Tiling(R, n), Coarser(a, R, n),
         NEW k \in 1 .. n, InList(R, k), NextOf(R, k) = NextOf(a, k), Settled(a, k)
  PROVE  Settled(R, k)
<1> SUFFICES ASSUME Idle(R, k), NextOf(R, k) # None, Idle(R, NextOf(R, k))
             PROVE  StreamOf(R, NextOf(R, k)) # StreamOf(R, k)
  BY DEF Settled, Joinable
<1> PICK x : x = NextOf(R, k)
  OBVIOUS
<1>1. x \in 1 .. n /\ InList(R, x)
  BY Neighbours
<1>2. InList(a, k) /\ StreamOf(R, k) = StreamOf(a, k) /\ (Idle(R, k) <=> Idle(a, k))
  BY DEF Coarser
<1>3. StreamOf(R, x) = StreamOf(a, x) /\ (Idle(R, x) <=> Idle(a, x))
  BY <1>1 DEF Coarser
<1> QED
  BY <1>2, <1>3 DEF Settled, Joinable

\* The two names for neighbours the code may merge agree.
LEMMA MergeableIsJoinable ==
  \A a, h, k : Mergeable(a, h, k) <=> Joinable(a, h, k)
BY DEF Mergeable, Joinable, Idle, StreamOf

\* What Merge of g and its successor h makes of the chunks when both were free.
LEMMA MergeCoarsens ==
  ASSUME NEW n \in Nat, NEW a \in Arenas(n), NEW b \in Arenas(n), NEW U, Sound(a, n, U),
         NEW g \in 1 .. n, InList(a, g), NEW h \in 1 .. n, h = NextOf(a, g), Idle(a, g), Idle(a, h),
         StreamOf(a, g) = StreamOf(a, h), NEW x, x \in {g, h}, x \notin U, U \cup {x} = {g, h},
         b = RemoveFreeChunkFromBin(a, x), NEW R, R = Merge(b, g, h)
  PROVE  /\ R \in Arenas(n) /\ Sound(R, n, {g}) /\ InList(a, h) /\ InList(R, g) /\ Idle(R, g) /\ g # h
         /\ Coarser(a, R, n) /\ PrevOf(R, g) = PrevOf(a, g) /\ NextOf(R, g) = NextOf(a, h)
         /\ \A k \in 1 .. n : (InList(R, k) <=> InList(a, k) /\ k # h)
         /\ \A k \in 1 .. n : k # g /\ k # h => NextOf(R, k) = NextOf(a, k)
<1>1. h # None /\ Tiling(a, n)
  BY DEF None, Sound
<1>2. InList(a, h) /\ h # g
  BY <1>1, Neighbours
<1>3. x \in 1 .. n /\ InList(a, x) /\ Idle(a, x)
  BY <1>2
<1>4. Removed(a, b, n, x) /\ Sound(b, n, {g, h})
  BY <1>3, RemoveSound
<1>5. \A k \in 1 .. n : /\ InList(b, k) <=> InList(a, k)
        /\ PtrOf(b, k) = PtrOf(a, k) /\ SizeOf(b, k) = SizeOf(a, k) /\ NextOf(b, k) = NextOf(a, k)
        /\ PrevOf(b, k) = PrevOf(a, k) /\ (Idle(b, k) <=> Idle(a, k)) /\ StreamOf(b, k) = StreamOf(a, k)
  BY <1>4 DEF Removed, SameShape, SameUse, InList
<1>6. b.regions = a.regions
  BY <1>4 DEF Removed, SameShape
<1>7. /\ R \in Arenas(n) /\ Merged(b, R, n, g, h) /\ Sound(R, n, {g, h} \ {h}) /\ g # h
      /\ \A k \in 1 .. n : InList(R, k) <=> InList(b, k) /\ k # h
  BY <1>4, <1>5, MergeSound
<1>8. {g, h} \ {h} = {g}
  BY <1>2
<1>9. R.regions = a.regions
  BY <1>6, <1>7 DEF Merged
<1>10. \A k \in 1 .. n : k # h =>
         /\ PtrOf(R, k) = PtrOf(a, k) /\ StreamOf(R, k) = StreamOf(a, k) /\ (Idle(R, k) <=> Idle(a, k))
         /\ (k # g => SizeOf(R, k) = SizeOf(a, k)) /\ (k # g => NextOf(R, k) = NextOf(a, k))
  BY <1>5, <1>7 DEF Merged
<1>11. NextOf(R, g) = NextOf(a, h) /\ PrevOf(R, g) = PrevOf(a, g)
  BY <1>2, <1>5, <1>7 DEF Merged
<1>12. Coarser(a, R, n)
  BY <1>5, <1>7, <1>9, <1>10 DEF Coarser
<1> QED
  BY <1>2, <1>5, <1>7, <1>8, <1>10, <1>11, <1>12

\* The merge with the next chunk keeps the arena sound.
LEMMA MergeNextSound ==
  ASSUME NEW n \in Nat, NEW a \in Arenas(n), NEW h \in 1 .. n, Sound(a, n, {h}), InList(a, h), Idle(a, h),
         NEW x, x = NextOf(a, h), NEW R, R = MergeNext(a, h)
  PROVE  /\ R \in Arenas(n) /\ Sound(R, n, {h}) /\ InList(R, h) /\ Idle(R, h) /\ Coarser(a, R, n)
         /\ PrevOf(R, h) = PrevOf(a, h)
         /\ \A k \in 1 .. n : InList(R, k) => (k # h => NextOf(R, k) = NextOf(a, k))
         /\ ~Joinable(a, h, x) => R = a
         /\ Joinable(a, h, x) => /\ x \in 1 .. n /\ x # h /\ InList(a, x)
                                 /\ \A k \in 1 .. n : InList(R, k) <=> InList(a, k) /\ k # x
         /\ (x # None => Settled(a, x)) => Settled(R, h)
<1>1. CASE ~Joinable(a, h, x)
  <2>1. R = a
    BY <1>1, MergeableIsJoinable DEF MergeNext, NextOf
  <2>2. Settled(R, h)
    BY <1>1, <2>1 DEF Settled
  <2> QED
    BY <1>1, <2>1, <2>2, CoarserSelf
<1>2. CASE Joinable(a, h, x)
  <2>1. x \in 1 .. n /\ x # None /\ Idle(a, x) /\ StreamOf(a, x) = StreamOf(a, h)
    BY <1>2, FieldTypes DEF Joinable, None
  <2>2. InList(a, x) /\ x # h /\ Tiling(a, n)
    BY <2>1, Neighbours DEF Sound
  <2>3. R = Merge(RemoveFreeChunkFromBin(a, x), h, x)
    BY <1>2, MergeableIsJoinable DEF MergeNext, NextOf
  <2>4. RemoveFreeChunkFromBin(a, x) \in Arenas(n)
    BY <2>1, RemoveFields
  <2>5. x \notin {h} /\ {h} \cup {x} = {h, x} /\ x \in {h, x}
    BY <2>2
  <2>6. /\ R \in Arenas(n) /\ Sound(R, n, {h}) /\ InList(R, h) /\ Idle(R, h)
        /\ Coarser(a, R, n) /\ PrevOf(R, h) = PrevOf(a, h) /\ NextOf(R, h) = NextOf(a, x)
        /\ \A k \in 1 .. n : (InList(R, k) <=> InList(a, k) /\ k # x)
        /\ \A k \in 1 .. n : k # h /\ k # x => NextOf(R, k) = NextOf(a, k)
    BY <2>1, <2>2, <2>3, <2>4, <2>5, MergeCoarsens
  <2>7. ASSUME Settled(a, x) PROVE Settled(R, h)
    <3>1. SUFFICES ASSUME NextOf(R, h) # None, Idle(R, NextOf(R, h)) PROVE StreamOf(R, NextOf(R, h)) # StreamOf(R, h)
      BY DEF Settled, Joinable
    <3> PICK y : y = NextOf(R, h)
      OBVIOUS
    <3>2. y \in 1 .. n /\ InList(R, y)
      BY <2>6, <3>1, Neighbours DEF Sound
    <3>3. StreamOf(R, y) = StreamOf(a, y) /\ Idle(a, y) /\ StreamOf(R, h) = StreamOf(a, h)
      BY <2>6, <3>1, <3>2 DEF Coarser
    <3> QED
      BY <2>1, <2>2, <2>6, <2>7, <3>1, <3>3 DEF Settled, Joinable
  <2> QED
    BY <1>2, <2>1, <2>2, <2>6, <2>7
<1> QED
  BY <1>1, <1>2

\* There is no merge with the previous chunk unless the two may join.
LEMMA MergePrevStays ==
  ASSUME NEW n \in Nat, NEW a \in Arenas(n), NEW h \in 1 .. n, Sound(a, n, {h}), InList(a, h), Idle(a, h),
         NEW p, p = PrevOf(a, h), NEW R, R = MergePrev(a, h), ~Joinable(a, h, p)
  PROVE  R = a /\ (p # None => Settled(R, p))
<1>1. R = a
  BY MergeableIsJoinable DEF MergePrev, PrevOf
<1>2. p # None => Settled(a, p)
  <2>1. HAVE p # None
  <2>2. InList(a, p) /\ NextOf(a, p) = h
    BY <2>1 DEF Sound, Tiling, Backed
  <2> QED
    BY <2>1, <2>2 DEF Settled, Joinable
<1> QED
  BY <1>1, <1>2

\* The merge with the previous chunk keeps the arena sound.
LEMMA MergePrevSound ==
  ASSUME NEW n \in Nat, NEW a \in Arenas(n), NEW h \in 1 .. n, Sound(a, n, {h}), InList(a, h), Idle(a, h),
         NEW p, p = PrevOf(a, h), NEW R, R = MergePrev(a, h), Joinable(a, h, p)
  PROVE  /\ R \in Arenas(n) /\ Sound(R, n, {p}) /\ p \in 1 .. n /\ InList(R, p) /\ Idle(R, p)
         /\ Coarser(a, R, n) /\ NextOf(R, p) = NextOf(a, h)
         /\ \A k \in 1 .. n : InList(R, k) => (k # p => NextOf(R, k) = NextOf(a, k))
         /\ Settled(a, h) => Settled(R, p)
<1>1. p \in 1 .. n /\ p # None /\ Idle(a, p) /\ StreamOf(a, p) = StreamOf(a, h)
  BY FieldTypes DEF Joinable, None
<1>2. InList(a, p) /\ NextOf(a, p) = h /\ Tiling(a, n)
  BY <1>1 DEF Sound, Tiling, Backed
<1>3. h # p
  BY <1>1, <1>2, Neighbours DEF None
<1>4. R = Merge(RemoveFreeChunkFromBin(a, p), p, h)
  BY MergeableIsJoinable DEF MergePrev, PrevOf
<1>5. RemoveFreeChunkFromBin(a, p) \in Arenas(n)
  BY <1>1, RemoveFields
<1>6. p \notin {h} /\ {h} \cup {p} = {p, h} /\ p \in {p, h}
  BY <1>3
<1>7. /\ R \in Arenas(n) /\ Sound(R, n, {p}) /\ InList(R, p) /\ Idle(R, p)
      /\ Coarser(a, R, n) /\ NextOf(R, p) = NextOf(a, h)
      /\ \A k \in 1 .. n : (InList(R, k) <=> InList(a, k) /\ k # h)
      /\ \A k \in 1 .. n : k # p /\ k # h => NextOf(R, k) = NextOf(a, k)
  BY <1>1, <1>2, <1>4, <1>5, <1>6, MergeCoarsens
<1>8. ASSUME Settled(a, h) PROVE Settled(R, p)
  <2>1. SUFFICES ASSUME NextOf(R, p) # None, Idle(R, NextOf(R, p)) PROVE StreamOf(R, NextOf(R, p)) # StreamOf(R, p)
    BY DEF Settled, Joinable
  <2> PICK y : y = NextOf(R, p)
    OBVIOUS
  <2>2. y \in 1 .. n /\ InList(R, y)
    BY <1>1, <1>7, <2>1, Neighbours DEF Sound
  <2>3. StreamOf(R, y) = StreamOf(a, y) /\ Idle(a, y) /\ StreamOf(R, p) = StreamOf(a, p)
    BY <1>1, <1>7, <2>1, <2>2 DEF Coarser
  <2> QED
    BY <1>1, <1>7, <1>8, <2>1, <2>3 DEF Settled, Joinable
<1> QED
  BY <1>1, <1>7, <1>8

Held(a, k) == InList(a, k) /\ ~Idle(a, k)
SameHeld(a, R, n) ==
  \A k \in 1 .. n : /\ Held(R, k) <=> Held(a, k)
                    /\ Held(a, k) => PtrOf(R, k) = PtrOf(a, k) /\ SizeOf(R, k) = SizeOf(a, k)

\* Coalescing free chunks leaves the chunks in use alone.
LEMMA CoarserHolds ==
  ASSUME NEW n \in Nat, NEW a, NEW R, Coarser(a, R, n)
  PROVE  SameHeld(a, R, n)
<1> SUFFICES ASSUME NEW k \in 1 .. n
             PROVE  /\ Held(R, k) <=> Held(a, k)
                    /\ Held(a, k) => PtrOf(R, k) = PtrOf(a, k) /\ SizeOf(R, k) = SizeOf(a, k)
  BY DEF SameHeld
<1>1. CASE InList(R, k)
  BY <1>1 DEF Coarser, Held
<1>2. CASE ~InList(R, k)
  BY <1>2 DEF Coarser, Held
<1> QED
  BY <1>1, <1>2

\* Whether a chunk is settled depends on shape and use.
LEMMA SettledShape ==
  ASSUME NEW n \in Nat, NEW a \in Arenas(n), NEW R, SameShape(a, R, n), SameUse(a, R, n), NEW k \in 1 .. n
  PROVE  Settled(R, k) <=> Settled(a, k)
<1> PICK x : x = NextOf(a, k)
  OBVIOUS
<1>1. x = None \/ x \in 1 .. n
  BY FieldTypes DEF None
<1>2. NextOf(R, k) = x /\ PtrOf(R, k) = PtrOf(a, k) /\ (Idle(R, k) <=> Idle(a, k)) /\ StreamOf(R, k) = StreamOf(a, k)
  BY DEF SameShape, SameUse
<1>3. CASE x = None
  BY <1>2, <1>3 DEF Settled, Joinable
<1>4. CASE x \in 1 .. n
  <2>1. (Idle(R, x) <=> Idle(a, x)) /\ StreamOf(R, x) = StreamOf(a, x)
    BY <1>4 DEF SameUse
  <2> QED
    BY <1>2, <2>1 DEF Settled, Joinable, InList
<1> QED
  BY <1>1, <1>3, <1>4

Freed(a, h) ==
  Enforce([a EXCEPT !.chunks[h].used = FALSE], a.chunks[h].used /\ a.chunks[h].bin = NoBin)

\* Freeing a chunk in use and in no bin raises no fault.
LEMMA FreedFields ==
  ASSUME NEW n \in Nat, NEW a \in Arenas(n), NEW h \in 1 .. n, NEW R, R = Freed(a, h)
  PROVE  /\ R \in Arenas(n) /\ Marked(a, R, n, h) /\ Idle(R, h) /\ StreamOf(R, h) = StreamOf(a, h)
         /\ ~Idle(a, h) /\ BinOf(a, h) = NoBin => R.fault = a.fault
<1> DEFINE ok == a.chunks[h].used /\ a.chunks[h].bin = NoBin
<1>1. R = Enforce([a EXCEPT !.chunks[h].used = FALSE], ok) /\ ok \in BOOLEAN
  BY DEF Freed
<1>2. ~Idle(a, h) /\ BinOf(a, h) = NoBin => ok
  BY DEF Idle, BinOf
<1>3. a.fault \in BOOLEAN /\ R.fault \in BOOLEAN
  BY <1>1 DEF Arenas, Enforce
<1> HIDE DEF ok
<1>4. /\ R \in Arenas(n) /\ Marked(a, R, n, h) /\ Idle(R, h) /\ (R.fault <=> a.fault \/ ~ok)
      /\ StreamOf(R, h) = StreamOf(a, h)
  BY <1>1, FreeFields
<1> QED
  BY <1>2, <1>3, <1>4

\* FreeAndMaybeCoalesce keeps the arena sound, leaves no free neighbours and
\* frees one chunk.
LEMMA FreeSound ==
  ASSUME NEW n \in Nat, NEW a \in Arenas(n), Sound(a, n, {}), \A k \in 1 .. n : Settled(a, k),
         NEW h \in 1 .. n, Held(a, h), NEW R, R = FreeAndMaybeCoalesce(a, h)
  PROVE  /\ R \in Arenas(n) /\ Sound(R, n, {}) /\ \A k \in 1 .. n : Settled(R, k)
         /\ R.regions = a.regions
         /\ \A k \in 1 .. n : /\ Held(R, k) <=> Held(a, k) /\ k # h
                              /\ Held(R, k) => PtrOf(R, k) = PtrOf(a, k) /\ SizeOf(R, k) = SizeOf(a, k)
<1> PICK b : b = Freed(a, h)
  OBVIOUS
<1>1. ~Idle(a, h) /\ BinOf(a, h) = NoBin
  BY DEF Held, Sound, Filed
<1>2. /\ b \in Arenas(n) /\ Marked(a, b, n, h) /\ Idle(b, h) /\ b.fault = a.fault
      /\ StreamOf(b, h) = StreamOf(a, h)
  BY <1>1, FreedFields
<1> PICK V : V = {h}
  OBVIOUS
<1> PICK U : U = {}
  OBVIOUS
<1>3. Sound(b, n, V) /\ \A k \in 1 .. n : InList(b, k) <=> InList(a, k)
  <2>1. ~b.fault
    BY <1>2 DEF Sound
  <2>2. \A k \in 1 .. n : InList(a, k) => (Idle(b, k) /\ k \notin V <=> Idle(a, k) /\ k \notin U)
    BY <1>2 DEF Marked, Held
  <2>4. Sound(a, n, U)
    OBVIOUS
  <2>3. SameShape(a, b, n) /\ SameFiling(a, b, n) /\ b \in Arenas(n)
    BY <1>2 DEF Marked
  <2> QED
    BY <2>1, <2>2, <2>3, <2>4, MarkSound
<1>4. /\ \A k \in 1 .. n : /\ NextOf(b, k) = NextOf(a, k) /\ PrevOf(b, k) = PrevOf(a, k)
                           /\ PtrOf(b, k) = PtrOf(a, k) /\ SizeOf(b, k) = SizeOf(a, k)
                           /\ (k # h => (Idle(b, k) <=> Idle(a, k))) /\ StreamOf(b, k) = StreamOf(a, k)
      /\ b.regions = a.regions
  BY <1>2 DEF Marked, SameShape
<1> PICK p : p = PrevOf(b, h)
  OBVIOUS
<1>5. ASSUME NEW k \in 1 .. n, k # h, k # p PROVE Settled(b, k)
  <2>1. SUFFICES ASSUME InList(b, k), Idle(b, k), NextOf(b, k) # None, Idle(b, NextOf(b, k))
                 PROVE  StreamOf(b, NextOf(b, k)) # StreamOf(b, k)
    BY DEF Settled, Joinable
  <2> PICK x : x = NextOf(b, k)
    OBVIOUS
  <2>2. x \in 1 .. n /\ PrevOf(b, x) = k
    BY <1>2, <1>3, <2>1, Neighbours DEF Sound
  <2>3. x # h
    BY <1>5, <2>2
  <2>4. Settled(a, k) /\ InList(a, k) /\ Idle(a, k) /\ NextOf(a, k) = x /\ Idle(a, x)
    BY <1>3, <1>4, <1>5, <2>1, <2>2, <2>3
  <2> QED
    BY <1>4, <2>1, <2>2, <2>4 DEF Settled, Joinable
<1> PICK x : x = NextOf(b, h)
  OBVIOUS
<1>6. x # None => Settled(b, x)
  <2>1. HAVE x # None
  <2>2. x \in 1 .. n /\ InList(b, h) /\ Tiling(b, n)
    <3>1. InList(b, h) /\ Tiling(b, n)
      BY <1>3 DEF Held, Sound
    <3>2. x \in 0 .. n
      BY <1>2, FieldTypes
    <3> QED
      BY <2>1, <3>1, <3>2 DEF None
  <2>3. InList(b, x) /\ x # h /\ PtrOf(b, x) = EndOf(b, h)
    BY <1>2, <2>1, <2>2, Neighbours
  <2>4. x # p
    <3>1. SUFFICES ASSUME x = p PROVE FALSE
      OBVIOUS
    <3>2. NextOf(b, x) = h
      BY <2>1, <2>2, <3>1 DEF Tiling, Backed
    <3>3. PtrOf(b, h) = EndOf(b, x)
      <4>1. h # None
        BY DEF None
      <4> QED
        BY <1>2, <2>2, <2>3, <3>2, <4>1, Neighbours
    <3>4. Known(b, h) /\ Known(b, x) /\ PtrOf(b, h) \in Int /\ SizeOf(b, h) \in Int /\ PtrOf(b, x) \in Int
          /\ SizeOf(b, x) \in Int
      BY <1>2, <2>2, <2>3, TypesOfLinked DEF Tiling
    <3> QED
      BY <2>3, <3>3, <3>4 DEF Known, EndOf
  <2> QED
    BY <1>5, <2>2, <2>3, <2>4
<1> PICK c : c = MergeNext(b, h)
  OBVIOUS
<1>7. InList(b, h)
  BY <1>3 DEF Held
<1>8. /\ c \in Arenas(n) /\ Sound(c, n, {h}) /\ InList(c, h) /\ Idle(c, h) /\ Coarser(b, c, n)
      /\ PrevOf(c, h) = p /\ \A k \in 1 .. n : InList(c, k) => (k # h => NextOf(c, k) = NextOf(b, k))
      /\ Settled(c, h)
  <2>1. b \in Arenas(n) /\ Sound(b, n, {h}) /\ Idle(b, h)
    BY <1>2, <1>3
  <2> QED
    BY <2>1, <1>6, <1>7, MergeNextSound
<1>9. ASSUME NEW k \in 1 .. n, InList(c, k), k # p PROVE Settled(c, k)
  <2>1. CASE k = h
    BY <1>8, <2>1
  <2>2. CASE k # h
    <3>1. NextOf(c, k) = NextOf(b, k) /\ Settled(b, k) /\ Tiling(c, n)
      BY <1>5, <1>8, <1>9, <2>2 DEF Sound
    <3> QED
      BY <1>2, <1>8, <1>9, <3>1, SettledStays
  <2> QED
    BY <2>1, <2>2
<1> PICK d : d = MergePrev(c, h)
  OBVIOUS
<1> PICK g : (Joinable(c, h, p) => g = p) /\ (~Joinable(c, h, p) => g = h)
  OBVIOUS
<1>10. /\ d \in Arenas(n) /\ Sound(d, n, {g}) /\ g \in 1 .. n /\ InList(d, g) /\ Idle(d, g)
       /\ Coarser(c, d, n) /\ \A k \in 1 .. n : InList(d, k) => (k # g => NextOf(d, k) = NextOf(c, k))
       /\ Settled(d, g) /\ (~Joinable(c, h, p) /\ p # None => Settled(d, p))
  <2>1. c \in Arenas(n) /\ Sound(c, n, {h}) /\ InList(c, h) /\ Idle(c, h) /\ p = PrevOf(c, h)
    BY <1>8
  <2>2. CASE Joinable(c, h, p)
    <3>1. /\ d \in Arenas(n) /\ Sound(d, n, {p}) /\ p \in 1 .. n /\ InList(d, p) /\ Idle(d, p)
          /\ Coarser(c, d, n) /\ NextOf(d, p) = NextOf(c, h)
          /\ \A k \in 1 .. n : InList(d, k) => (k # p => NextOf(d, k) = NextOf(c, k))
          /\ Settled(c, h) => Settled(d, p)
      BY <2>1, <2>2, MergePrevSound
    <3> QED
      BY <1>8, <2>2, <3>1
  <2>3. CASE ~Joinable(c, h, p)
    <3>1. d = c /\ (p # None => Settled(d, p))
      BY <2>1, <2>3, MergePrevStays
    <3> QED
      BY <1>8, <2>3, <3>1, CoarserSelf
  <2> QED
    BY <2>2, <2>3
<1>11. ASSUME NEW k \in 1 .. n, InList(d, k) PROVE Settled(d, k)
  <2>1. CASE k = g
    BY <1>10, <2>1
  <2>2. CASE k # g /\ k = p
    BY <1>10, <2>2 DEF None
  <2>3. CASE k # g /\ k # p
    <3>1. InList(c, k)
      BY <1>10, <1>11 DEF Coarser
    <3>2. NextOf(d, k) = NextOf(c, k) /\ Settled(c, k) /\ Tiling(d, n)
      BY <1>9, <1>10, <1>11, <2>3, <3>1 DEF Sound
    <3> QED
      BY <1>8, <1>10, <1>11, <3>2, SettledStays
  <2> QED
    BY <2>1, <2>2, <2>3
<1>12. Reassigned(b, h) = g
  <2>1. Joinable(b, h, p) <=> Joinable(c, h, p)
    <3>1. CASE p = None
      BY <3>1 DEF Joinable
    <3>2. CASE p # None
      <4>1. p \in 1 .. n
        BY <1>2, <3>2, FieldTypes DEF None
      <4>2. InList(c, p)
        BY <1>8, <3>2 DEF Sound, Tiling, Backed
      <4> QED
        BY <1>8, <4>1, <4>2 DEF Coarser, Joinable
    <3> QED
      BY <3>1, <3>2
  <2> QED
    BY <2>1, MergeableIsJoinable DEF Reassigned, PrevOf
<1>13. R = InsertFreeChunkIntoBin(d, g)
  BY <1>12 DEF FreeAndMaybeCoalesce, Coalesce, Freed
<1>14. R \in Arenas(n) /\ Inserted(d, R, n, g) /\ Sound(R, n, {})
  <2>1. {g} \ {g} = {}
    OBVIOUS
  <2>2. d \in Arenas(n) /\ Sound(d, n, {g}) /\ g \in 1 .. n /\ InList(d, g) /\ Idle(d, g) /\ g \in {g}
    BY <1>10
  <2>3. R \in Arenas(n) /\ Inserted(d, R, n, g) /\ Sound(R, n, {g} \ {g})
    BY <1>13, <2>2, InsertSound
  <2> QED
    BY <2>1, <2>3
<1>15. ASSUME NEW k \in 1 .. n PROVE Settled(R, k)
  <2>1. Settled(d, k)
    BY <1>11 DEF Settled
  <2> QED
    BY <1>10, <1>14, <2>1, SettledShape DEF Inserted
<1>16. R.regions = a.regions
  BY <1>4, <1>8, <1>10, <1>14 DEF Inserted, SameShape, Coarser
<1>17. ASSUME NEW k \in 1 .. n
       PROVE  /\ Held(R, k) <=> Held(a, k) /\ k # h
              /\ Held(R, k) => PtrOf(R, k) = PtrOf(a, k) /\ SizeOf(R, k) = SizeOf(a, k)
  <2>1. SameHeld(b, d, n)
    BY <1>8, <1>10, CoarserTwice, CoarserHolds
  <2>2. /\ Held(R, k) <=> Held(d, k)
        /\ PtrOf(R, k) = PtrOf(d, k) /\ SizeOf(R, k) = SizeOf(d, k)
    BY <1>14 DEF Inserted, SameShape, SameUse, Held, InList
  <2>3. Held(b, k) <=> Held(a, k) /\ k # h
    BY <1>2, <1>3, <1>4 DEF Held
  <2> QED
    BY <1>4, <2>1, <2>2, <2>3 DEF SameHeld
<1> QED
  BY <1>14, <1>15, <1>16, <1>17

Calm(a, n) == \A k \in 1 .. n : Settled(a, k)

\* The chunk h of a was handed out, cut to what was asked for.
Taken(a, R, n, N, h, rounded) ==
  /\ R \in Arenas(N) /\ Sound(R, N, {}) /\ Calm(R, N)
  /\ R.regions = a.regions
  /\ n <= N /\ Held(R, h) /\ PtrOf(R, h) = PtrOf(a, h)
  /\ rounded <= SizeOf(R, h) /\ SizeOf(R, h) < 2 * rounded /\ SizeOf(R, h) - rounded < MaxDead
  /\ \A k \in 1 .. N : k # h => (Held(R, k) <=> k \in 1 .. n /\ Held(a, k))
  /\ \A k \in 1 .. n : Held(a, k) => PtrOf(R, k) = PtrOf(a, k) /\ SizeOf(R, k) = SizeOf(a, k)

\* Marking a chunk out of its bin used keeps the arena sound.
LEMMA MarkedSound ==
  ASSUME NEW n \in Nat, NEW a \in Arenas(n), NEW h \in 1 .. n, Sound(a, n, {h}), InList(a, h), Idle(a, h),
         NEW R \in Arenas(n), Marked(a, R, n, h), ~Idle(R, h), R.fault = a.fault
  PROVE  Sound(R, n, {}) /\ Held(R, h) /\ \A k \in 1 .. n : InList(R, k) <=> InList(a, k)
<1> PICK U, V : U = {h} /\ V = {}
  OBVIOUS
<1>2. SameShape(a, R, n) /\ SameFiling(a, R, n) /\ ~R.fault /\ Sound(a, n, U)
  BY DEF Marked, Sound
<1>3. \A k \in 1 .. n : InList(a, k) => (Idle(R, k) /\ k \notin V <=> Idle(a, k) /\ k \notin U)
  BY DEF Marked
<1>4. Sound(R, n, V) /\ \A k \in 1 .. n : InList(R, k) <=> InList(a, k)
  BY <1>2, <1>3, MarkSound
<1> QED
  BY <1>4 DEF Held

\* SplitFreeChunkFromBin hands out a chunk too small to split.
LEMMA TakeWhole ==
  ASSUME NEW n \in Nat, NEW a \in Arenas(n), Sound(a, n, {}), Calm(a, n),
         NEW h \in 1 .. n, InList(a, h), Idle(a, h), NEW rounded \in Nat, rounded > 0, rounded <= SizeOf(a, h),
         ~WorthSplitting(SizeOf(a, h), rounded), MaxDead > 0,
         NEW R, R = SplitFreeChunkFromBin(a, h, rounded)
  PROVE  Taken(a, R, n, n, h, rounded) /\ R.streamChunks = a.streamChunks
<1> PICK b : b = RemoveFreeChunkFromBin(a, h)
  OBVIOUS
<1>1. /\ b \in Arenas(n) /\ Removed(a, b, n, h) /\ Sound(b, n, {h}) /\ InList(b, h) /\ Idle(b, h)
  <2>1. b \in Arenas(n) /\ Removed(a, b, n, h) /\ Sound(b, n, {} \cup {h})
    BY RemoveSound
  <2>2. {} \cup {h} = {h}
    OBVIOUS
  <2> QED
    BY <2>1, <2>2 DEF Removed, SameShape, SameUse, InList
<1>2. R = [b EXCEPT !.chunks[h].used = TRUE]
  BY DEF SplitFreeChunkFromBin, SizeOf
<1>3. /\ R \in Arenas(n) /\ Marked(b, R, n, h) /\ Sound(R, n, {}) /\ Held(R, h)
      /\ R.streamChunks = b.streamChunks /\ \A k \in 1 .. n : InList(R, k) <=> InList(b, k)
  <2>1. R \in Arenas(n) /\ Marked(b, R, n, h) /\ ~Idle(R, h) /\ R.fault = b.fault /\ R.streamChunks = b.streamChunks
    BY <1>1, <1>2, UseFields
  <2> QED
    BY <1>1, <2>1, MarkedSound
<1>4. ASSUME NEW k \in 1 .. n
      PROVE  /\ PtrOf(R, k) = PtrOf(a, k) /\ SizeOf(R, k) = SizeOf(a, k) /\ NextOf(R, k) = NextOf(a, k)
             /\ (k # h => (Idle(R, k) <=> Idle(a, k)) /\ StreamOf(R, k) = StreamOf(a, k))
  BY <1>1, <1>3 DEF Removed, SameShape, SameUse, Marked
<1>5. R.regions = a.regions /\ R.streamChunks = a.streamChunks
  BY <1>1, <1>3 DEF Removed, SameShape, Marked
<1>6. SizeOf(a, h) < 2 * rounded /\ SizeOf(a, h) - rounded < MaxDead
  BY FieldTypes, ArenaConstants DEF WorthSplitting
<1>7. ASSUME NEW k \in 1 .. n PROVE Settled(R, k)
  <2>1. CASE k = h
    BY <1>3, <2>1 DEF Held, Settled
  <2>2. CASE k # h
    <3> PICK y : y = NextOf(a, k)
      OBVIOUS
    <3>1. y = None \/ y = h \/ y \in (1 .. n) \ {h}
      BY FieldTypes DEF None
    <3>2. Settled(a, k) /\ NextOf(R, k) = y /\ (Idle(R, k) <=> Idle(a, k)) /\ StreamOf(R, k) = StreamOf(a, k)
          /\ (InList(R, k) <=> InList(a, k))
      BY <1>4, <2>2 DEF Calm, InList
    <3>3. y = h => ~Idle(R, y)
      BY <1>3 DEF Held
    <3>4. y \in (1 .. n) \ {h} => (Idle(R, y) <=> Idle(a, y)) /\ StreamOf(R, y) = StreamOf(a, y)
      BY <1>4
    <3> QED
      BY <3>1, <3>2, <3>3, <3>4 DEF Settled, Joinable
  <2> QED
    BY <2>1, <2>2
<1>8. \A k \in 1 .. n : /\ k # h => (Held(R, k) <=> Held(a, k))
                        /\ Held(a, k) => PtrOf(R, k) = PtrOf(a, k) /\ SizeOf(R, k) = SizeOf(a, k)
  BY <1>4 DEF Held, InList
<1> QED
  BY <1>3, <1>4, <1>5, <1>6, <1>7, <1>8 DEF Taken, Calm

\* SplitFreeChunkFromBin hands out the first part of a chunk worth splitting.
LEMMA TakePart ==
  ASSUME NEW n \in Nat, NEW a \in Arenas(n), Sound(a, n, {}), Calm(a, n),
         NEW h \in 1 .. n, InList(a, h), Idle(a, h), NEW rounded, Whole(rounded), rounded > 0,
         rounded <= SizeOf(a, h), WorthSplitting(SizeOf(a, h), rounded), MaxDead > 0,
         NEW R, R = SplitFreeChunkFromBin(a, h, rounded)
  PROVE  (\E N \in Nat : Taken(a, R, n, N, h, rounded)) /\ R.streamChunks = a.streamChunks
<1> PICK b : b = RemoveFreeChunkFromBin(a, h)
  OBVIOUS
<1>1. /\ b \in Arenas(n) /\ Removed(a, b, n, h) /\ Sound(b, n, {h}) /\ InList(b, h) /\ Idle(b, h)
  <2>1. b \in Arenas(n) /\ Removed(a, b, n, h) /\ Sound(b, n, {} \cup {h})
    BY RemoveSound
  <2>2. {} \cup {h} = {h}
    OBVIOUS
  <2> QED
    BY <2>1, <2>2 DEF Removed, SameShape, SameUse, InList
<1>2. ASSUME NEW k \in 1 .. n
      PROVE  /\ PtrOf(b, k) = PtrOf(a, k) /\ SizeOf(b, k) = SizeOf(a, k) /\ NextOf(b, k) = NextOf(a, k)
             /\ (Idle(b, k) <=> Idle(a, k)) /\ StreamOf(b, k) = StreamOf(a, k)
             /\ (InList(b, k) <=> InList(a, k))
  BY <1>1 DEF Removed, SameShape, SameUse, InList
<1>3. rounded \in Nat /\ MaxDead \in Nat /\ SizeOf(a, h) \in Nat /\ rounded < SizeOf(b, h)
  <2>1. rounded \in Nat /\ MaxDead \in Nat /\ SizeOf(a, h) \in Nat /\ SizeOf(b, h) = SizeOf(a, h)
    BY <1>2, FieldTypes, ArenaConstants DEF Whole
  <2> QED
    BY <2>1 DEF WorthSplitting
<1> PICK c : c = SplitChunk(b, h, rounded)
  OBVIOUS
<1> PICK N : N = Grown(b, n)
  OBVIOUS
<1> PICK m : m = NewHandle(b)
  OBVIOUS
<1>4. /\ c \in Arenas(N) /\ Split(b, c, n, h, rounded) /\ Sound(c, N, {h})
      /\ InList(c, m) /\ m # h /\ m \in 1 .. N /\ h \in 1 .. N /\ (m \in 1 .. n => ~InList(b, m))
      /\ \A k \in 1 .. n : k # m => (InList(c, k) <=> InList(b, k))
      /\ N \in Nat /\ 1 .. N = 1 .. n \cup {m}
  <2>1. /\ b \in Arenas(n) /\ Sound(b, n, {h}) /\ InList(b, h) /\ Idle(b, h)
        /\ Whole(rounded) /\ 0 < rounded /\ rounded < SizeOf(b, h)
    BY <1>1, <1>3
  <2>2. c = SplitChunk(b, h, rounded) /\ N = Grown(b, n) /\ m = NewHandle(b)
    OBVIOUS
  <2> QED
    BY <2>1, <2>2, SplitSound
<1>5. /\ c.regions = b.regions /\ c.streamChunks = b.streamChunks
      /\ NextOf(c, m) = NextOf(b, h) /\ Idle(c, m) /\ StreamOf(c, m) = StreamOf(b, h)
      /\ \A k \in 1 .. n : k # m =>
           /\ PtrOf(c, k) = PtrOf(b, k) /\ StreamOf(c, k) = StreamOf(b, k) /\ (Idle(c, k) <=> Idle(b, k))
           /\ SizeOf(c, k) = IF k = h THEN rounded ELSE SizeOf(b, k)
           /\ NextOf(c, k) = IF k = h THEN m ELSE NextOf(b, k)
  BY <1>4 DEF Split
<1>6. InList(c, h) /\ Idle(c, h)
  BY <1>1, <1>4, <1>5
<1>7. R = [c EXCEPT !.chunks[h].used = TRUE]
  BY DEF SplitFreeChunkFromBin, SizeOf
<1>8. /\ R \in Arenas(N) /\ Marked(c, R, N, h) /\ Sound(R, N, {}) /\ Held(R, h)
      /\ R.streamChunks = c.streamChunks /\ \A k \in 1 .. N : InList(R, k) <=> InList(c, k)
  <2>1. R \in Arenas(N) /\ Marked(c, R, N, h) /\ ~Idle(R, h) /\ R.fault = c.fault /\ R.streamChunks = c.streamChunks
    BY <1>4, <1>6, <1>7, UseFields
  <2> QED
    BY <1>4, <1>6, <2>1, MarkedSound
<1>9. ASSUME NEW k \in 1 .. N
      PROVE  /\ PtrOf(R, k) = PtrOf(c, k) /\ SizeOf(R, k) = SizeOf(c, k) /\ NextOf(R, k) = NextOf(c, k)
             /\ (k # h => (Idle(R, k) <=> Idle(c, k)) /\ StreamOf(R, k) = StreamOf(c, k))
  BY <1>8 DEF SameShape, SameUse, Marked
<1>10. R.regions = a.regions /\ R.streamChunks = a.streamChunks
  BY <1>1, <1>5, <1>8 DEF Removed, SameShape, Marked
<1>11. n <= N
  <2>1. n = 0 \/ n \in 1 .. N
    BY <1>4
  <2> QED
    BY <1>4, <2>1
<1>12. ASSUME NEW k \in 1 .. n, InList(a, k), NextOf(a, k) # None
       PROVE  NextOf(a, k) \in 1 .. n /\ NextOf(a, k) # m /\ InList(a, NextOf(a, k))
  <2>1. NextOf(a, k) \in 1 .. n /\ InList(a, NextOf(a, k))
    BY <1>12, Neighbours DEF Sound
  <2> QED
    BY <1>2, <1>4, <2>1
<1>13. ASSUME NEW k \in 1 .. N, k # h, k # m PROVE Settled(R, k)
  <2> PICK y : y = NextOf(a, k)
    OBVIOUS
  <2>1. k \in 1 .. n
    BY <1>4, <1>13
  <2>2. /\ Settled(a, k) /\ NextOf(R, k) = y /\ (Idle(R, k) <=> Idle(a, k)) /\ StreamOf(R, k) = StreamOf(a, k)
        /\ (InList(R, k) <=> InList(a, k))
    BY <1>2, <1>4, <1>5, <1>8, <1>9, <1>13, <2>1 DEF Calm
  <2>3. CASE y = None \/ ~InList(a, k)
    BY <2>2, <2>3 DEF Settled, Joinable
  <2>4. CASE y # None /\ InList(a, k)
    <3>1. y \in 1 .. n /\ y # m /\ y \in 1 .. N
      BY <1>4, <1>12, <2>1, <2>4
    <3>2. y = h => ~Idle(R, y)
      BY <1>8 DEF Held
    <3>3. y # h => (Idle(R, y) <=> Idle(a, y)) /\ StreamOf(R, y) = StreamOf(a, y)
      BY <1>2, <1>5, <1>9, <3>1
    <3> QED
      BY <2>2, <3>2, <3>3 DEF Settled, Joinable
  <2> QED
    BY <2>3, <2>4
<1>14. Settled(R, m)
  <2> PICK y : y = NextOf(a, h)
    OBVIOUS
  <2>1. Settled(a, h) /\ NextOf(R, m) = y /\ StreamOf(R, m) = StreamOf(a, h)
    BY <1>2, <1>4, <1>5, <1>9 DEF Calm
  <2>2. CASE y = None
    BY <2>1, <2>2 DEF Settled, Joinable
  <2>3. CASE y # None
    <3>1. y \in 1 .. n /\ y # m /\ y \in 1 .. N
      BY <1>4, <1>12, <2>3
    <3>2. y = h => ~Idle(R, y)
      BY <1>8 DEF Held
    <3>3. y # h => (Idle(R, y) <=> Idle(a, y)) /\ StreamOf(R, y) = StreamOf(a, y)
      BY <1>2, <1>5, <1>9, <3>1
    <3>4. ~Joinable(a, h, y)
      BY <2>1 DEF Settled
    <3> QED
      BY <2>1, <3>2, <3>3, <3>4 DEF Settled, Joinable
  <2> QED
    BY <2>2, <2>3
<1>15. Settled(R, h)
  BY <1>8 DEF Settled, Held
<1>16. PtrOf(R, h) = PtrOf(a, h) /\ SizeOf(R, h) = rounded
  BY <1>2, <1>4, <1>5, <1>9
<1>17. ASSUME NEW k \in 1 .. N, k # h PROVE Held(R, k) <=> k \in 1 .. n /\ Held(a, k)
  <2>1. CASE k = m
    BY <1>2, <1>4, <1>5, <1>8, <1>9, <2>1 DEF Held
  <2>2. CASE k # m
    BY <1>2, <1>4, <1>5, <1>8, <1>9, <1>17, <2>2 DEF Held
  <2> QED
    BY <2>1, <2>2
<1>18. ASSUME NEW k \in 1 .. n, Held(a, k) PROVE PtrOf(R, k) = PtrOf(a, k) /\ SizeOf(R, k) = SizeOf(a, k)
  <2>1. k # m /\ k # h /\ k \in 1 .. N
    BY <1>2, <1>4, <1>18 DEF Held
  <2> QED
    BY <1>2, <1>5, <1>9, <2>1
<1> QED
  BY <1>3, <1>4, <1>8, <1>10, <1>11, <1>13, <1>14, <1>15, <1>16, <1>17, <1>18 DEF Taken, Calm

ClockTypes ==
  /\ clock.id \in [Streams -> 0 .. MaxSync]

Fits(a, n, rounded, s, h) ==
  /\ h \in 1 .. n /\ InList(a, h) /\ Idle(a, h) /\ SizeOf(a, h) >= rounded
  /\ SafeToUse(a.chunks[h], s)

\* The search over the bins from the request's up misses no free chunk that
\* fits.
LEMMA FittingMembers ==
  ASSUME NEW n \in Nat, NEW a \in Arenas(n), Sound(a, n, {}), NEW rounded \in Nat, NEW s
  PROVE  \A h : h \in Fitting(a, rounded, s) <=> Fits(a, n, rounded, s, h)
<1>1. ASSUME NEW h, h \in Fitting(a, rounded, s) PROVE Fits(a, n, rounded, s, h)
  <2>1. PICK b \in BinNumForSize(rounded) .. NumBins - 1 : h \in a.bins[b]
    BY <1>1 DEF Fitting
  <2>2. b \in Bins
    <3>1. BinNumForSize(rounded) \in Bins
      BY BinsOfSizes
    <3>2. NumBins \in Nat
      BY ArenaConstants
    <3> QED
      BY <2>1, <3>1, <3>2 DEF Bins
  <2>3. h \in 1 .. n
    BY <2>1, <2>2 DEF Arenas
  <2>4. BinOf(a, h) = b /\ b # NoBin
    <3>1. NoBin \notin Bins
      BY DEF NoBin, Bins
    <3> QED
      BY <2>1, <2>2, <2>3, <3>1 DEF Sound, Filed
  <2>5. InList(a, h) /\ Idle(a, h)
    BY <2>3, <2>4 DEF Sound, Filed
  <2>6. SizeOf(a, h) >= rounded /\ SafeToUse(a.chunks[h], s)
    BY <1>1 DEF Fitting, SizeOf
  <2> QED
    BY <2>3, <2>5, <2>6 DEF Fits
<1>2. ASSUME NEW h, Fits(a, n, rounded, s, h) PROVE h \in Fitting(a, rounded, s)
  <2> PICK b : b = BinNumForSize(SizeOf(a, h))
    OBVIOUS
  <2>1. h \in 1 .. n /\ SizeOf(a, h) \in Nat /\ BinOf(a, h) = b
    <3>1. h \in 1 .. n
      BY <1>2 DEF Fits
    <3> QED
      BY <1>2, <3>1, FieldTypes DEF Fits, Sound, Filed
  <2>2. b \in Bins /\ BinNumForSize(rounded) <= b /\ BinNumForSize(rounded) \in Bins
    BY <1>2, <2>1, BinsOfSizes DEF Fits
  <2>3. b \in BinNumForSize(rounded) .. NumBins - 1
    BY <2>2, ArenaConstants DEF Bins
  <2>4. h \in a.bins[b]
    BY <2>1, <2>2 DEF Sound, Filed
  <2> QED
    BY <1>2, <2>3, <2>4 DEF Fitting, Fits, SizeOf
<1> QED
  BY <1>1, <1>2

\* A set of numbered things has one of least number.
LEMMA LeastBy ==
  ASSUME NEW S, S # {}, NEW f, \A x \in S : f[x] \in Nat
  PROVE  \E x \in S : \A y \in S : f[x] <= f[y]
<1> DEFINE T == {f[x] : x \in S}
<1>1. T \subseteq Nat /\ T # {}
  OBVIOUS
<1>2. PICK v \in T : \A w \in T : v <= w
  <2> HIDE DEF T
  <2> QED
    BY <1>1, LeastNumber
<1> QED
  BY <1>2

\* The chunk the search stops at is the smallest over all bins.
LEMMA BestFits ==
  ASSUME NEW n \in Nat, NEW a \in Arenas(n), Sound(a, n, {}), NEW rounded \in Nat, NEW s,
         Fitting(a, rounded, s) # {}, NEW h, h = BestFit(a, rounded, s)
  PROVE  /\ Fits(a, n, rounded, s, h)
         /\ \A g \in 1 .. n : Fits(a, n, rounded, s, g) => SizeOf(a, h) <= SizeOf(a, g)
<1> PICK F : F = Fitting(a, rounded, s)
  OBVIOUS
<1>1. \A k : k \in F <=> Fits(a, n, rounded, s, k)
  BY FittingMembers
<1>2. ASSUME NEW k \in F
      PROVE  /\ k \in 1 .. n /\ InList(a, k) /\ Idle(a, k) /\ BinOf(a, k) \in Nat /\ SizeOf(a, k) \in Nat
             /\ PtrOf(a, k) \in Nat /\ BinOf(a, k) = BinNumForSize(SizeOf(a, k))
  <2>1. k \in 1 .. n /\ InList(a, k) /\ Idle(a, k)
    BY <1>1 DEF Fits
  <2>2. BinOf(a, k) = BinNumForSize(SizeOf(a, k)) /\ SizeOf(a, k) \in Nat
    BY <2>1, FieldTypes DEF Sound, Filed
  <2>3. BinOf(a, k) \in Nat
    BY <2>2, BinsOfSizes DEF Bins
  <2>4. PtrOf(a, k) \in Nat
    BY <2>1, TypesOfLinked DEF Addresses
  <2> QED
    BY <2>1, <2>2, <2>3, <2>4
<1>3. ASSUME NEW k \in F, NEW g \in F, k # g PROVE PtrOf(a, k) # PtrOf(a, g)
  <2>1. Known(a, k) /\ Known(a, g)
    BY <1>2 DEF Sound, Tiling
  <2> QED
    BY <1>3, <2>1 DEF Known
<1>4. \E k \in F : \A g \in F \ {k} : Precedes(a.chunks[k], a.chunks[g])
  <2> PICK bin : bin = [k \in F |-> BinOf(a, k)]
    OBVIOUS
  <2> PICK size : size = [k \in F |-> SizeOf(a, k)]
    OBVIOUS
  <2> PICK ptr : ptr = [k \in F |-> PtrOf(a, k)]
    OBVIOUS
  <2>1. \A k \in F : bin[k] \in Nat /\ size[k] \in Nat /\ ptr[k] \in Nat
    BY <1>2
  <2>2. PICK x \in F : \A y \in F : bin[x] <= bin[y]
    BY <2>1, LeastBy, ZenonT(30)
  <2> PICK F1 : F1 = {y \in F : bin[y] = bin[x]}
    OBVIOUS
  <2>3. F1 # {} /\ (\A y \in F1 : y \in F)
    BY <2>2
  <2>10. \A z \in F1 : size[z] \in Nat
    BY <2>1, <2>3
  <2>11. F1 # {}
    BY <2>3
  <2>4. PICK y \in F1 : \A z \in F1 : size[y] <= size[z]
    BY <2>10, <2>11, LeastBy, ZenonT(30)
  <2>9. PICK F2 : F2 = {z \in F1 : size[z] = size[y]}
    OBVIOUS
  <2>5. F2 # {} /\ \A z \in F2 : z \in F
    BY <2>3, <2>4, <2>9
  <2>6. PICK z \in F2 : \A t \in F2 : ptr[z] <= ptr[t]
    <3>1. F2 # {} /\ \A t \in F2 : ptr[t] \in Nat
      BY <2>1, <2>5
    <3> QED
      BY <3>1, LeastBy, ZenonT(30)
  <2>7. z \in F /\ bin[z] = bin[x] /\ size[z] = size[y] /\ z \in F1
    BY <2>5, <2>6, <2>9
  <2>8. ASSUME NEW g \in F, g # z PROVE Precedes(a.chunks[z], a.chunks[g])
    <3>1. /\ bin[g] \in Nat /\ size[g] \in Nat /\ ptr[g] \in Nat
          /\ bin[z] \in Nat /\ size[z] \in Nat /\ ptr[z] \in Nat /\ bin[z] <= bin[g]
      BY <2>1, <2>2, <2>7
    <3>2. bin[g] = bin[z] => size[z] <= size[g]
      BY <2>4, <2>7
    <3>3. bin[g] = bin[z] /\ size[g] = size[z] => ptr[z] <= ptr[g]
      BY <2>6, <2>7, <2>9
    <3>4. ptr[z] # ptr[g]
      BY <1>3, <2>7, <2>8
    <3>5. /\ bin[z] = a.chunks[z].bin /\ bin[g] = a.chunks[g].bin /\ size[z] = a.chunks[z].size
          /\ size[g] = a.chunks[g].size /\ ptr[z] = a.chunks[z].ptr /\ ptr[g] = a.chunks[g].ptr
      BY <2>7 DEF BinOf, SizeOf, PtrOf
    <3> QED
      BY <3>1, <3>2, <3>3, <3>4, <3>5 DEF Precedes
  <2> QED
    BY <2>7, <2>8
<1>5. h \in F /\ \A g \in F \ {h} : Precedes(a.chunks[h], a.chunks[g])
  BY <1>4 DEF BestFit
<1>6. ASSUME NEW g \in 1 .. n, Fits(a, n, rounded, s, g) PROVE SizeOf(a, h) <= SizeOf(a, g)
  <2>1. g \in F
    BY <1>1, <1>6
  <2>2. CASE g = h
    BY <1>2, <1>5, <2>2
  <2>3. CASE g # h
    <3>1. Precedes(a.chunks[h], a.chunks[g])
      BY <1>5, <2>1, <2>3
    <3>2. \/ BinOf(a, h) < BinOf(a, g)
          \/ SizeOf(a, h) <= SizeOf(a, g)
      BY <3>1, <1>2, <1>5, <2>1 DEF Precedes, BinOf, SizeOf
    <3>3. SizeOf(a, g) <= SizeOf(a, h) => BinOf(a, g) <= BinOf(a, h)
      BY <1>2, <1>5, <2>1, BinsOfSizes
    <3> QED
      BY <1>2, <1>5, <2>1, <3>2, <3>3
  <2> QED
    BY <2>2, <2>3
<1> QED
  BY <1>1, <1>5, <1>6

\* A stream's first request keeps the arena sound.
LEMMA RegisterSound ==
  ASSUME NEW n \in Nat, NEW a \in Arenas(n), Sound(a, n, {}), Calm(a, n), NEW s \in Streams \cup {NoStream},
         NEW R, R = RegisterStream(a, s)
  PROVE  /\ R \in Arenas(n) /\ Sound(R, n, {}) /\ Calm(R, n) /\ R.chunks = a.chunks
         /\ SameShape(a, R, n) /\ (s # NoStream => s \in DOMAIN R.streamChunks)
<1>1. /\ R \in Arenas(n) /\ SameShape(a, R, n) /\ SameUse(a, R, n) /\ SameFiling(a, R, n)
      /\ R.fault = a.fault /\ R.chunks = a.chunks /\ (s # NoStream => s \in DOMAIN R.streamChunks)
  BY RegisterFields
<1> PICK U : U = {}
  OBVIOUS
<1>2. Sound(R, n, U)
  <2>1. \A k \in 1 .. n : InList(a, k) => (Idle(R, k) /\ k \notin U <=> Idle(a, k) /\ k \notin U)
    BY <1>1 DEF SameUse
  <2>2. ~R.fault /\ Sound(a, n, U)
    BY <1>1 DEF Sound
  <2> QED
    BY <1>1, <2>1, <2>2, MarkSound
<1>3. Calm(R, n)
  BY <1>1, SettledShape DEF Calm
<1> QED
  BY <1>1, <1>2, <1>3

\* Putting the chunk handed out on a stream keeps the arena sound.
LEMMA AssignSound ==
  ASSUME NEW n \in Nat, NEW a, NEW N \in Nat, NEW b \in Arenas(N), NEW h \in 1 .. N, NEW rounded,
         Taken(a, b, n, N, h, rounded), NEW s \in Streams, s \in DOMAIN b.streamChunks, NEW sync \in 0 .. MaxSync,
         NEW R, R = Assigned(b, h, s, sync)
  PROVE  Taken(a, R, n, N, h, rounded)
<1>1. R \in Arenas(N) /\ Marked(b, R, N, h) /\ (Idle(R, h) <=> Idle(b, h)) /\ R.fault = b.fault
  BY AssignFields
<1>2. /\ Sound(b, N, {}) /\ Calm(b, N) /\ b.regions = a.regions
      /\ n <= N /\ Held(b, h) /\ PtrOf(b, h) = PtrOf(a, h)
      /\ rounded <= SizeOf(b, h) /\ SizeOf(b, h) < 2 * rounded /\ SizeOf(b, h) - rounded < MaxDead
      /\ \A k \in 1 .. N : k # h => (Held(b, k) <=> k \in 1 .. n /\ Held(a, k))
      /\ \A k \in 1 .. n : Held(a, k) => PtrOf(b, k) = PtrOf(a, k) /\ SizeOf(b, k) = SizeOf(a, k)
  BY DEF Taken
<1> PICK U : U = {}
  OBVIOUS
<1>3. Sound(R, N, U) /\ \A k \in 1 .. N : InList(R, k) <=> InList(b, k)
  <2>1. \A k \in 1 .. N : InList(b, k) => (Idle(R, k) /\ k \notin U <=> Idle(b, k) /\ k \notin U)
    BY <1>1 DEF Marked
  <2>2. ~R.fault /\ Sound(b, N, U) /\ SameShape(b, R, N) /\ SameFiling(b, R, N)
    BY <1>1, <1>2 DEF Sound, Marked
  <2> QED
    BY <1>1, <2>1, <2>2, MarkSound
<1>4. ASSUME NEW k \in 1 .. N
      PROVE  /\ PtrOf(R, k) = PtrOf(b, k) /\ SizeOf(R, k) = SizeOf(b, k) /\ NextOf(R, k) = NextOf(b, k)
             /\ (Idle(R, k) <=> Idle(b, k)) /\ (k # h => StreamOf(R, k) = StreamOf(b, k))
  BY <1>1 DEF SameShape, Marked
<1>5. ASSUME NEW k \in 1 .. N PROVE Settled(R, k)
  <2> PICK y : y = NextOf(b, k)
    OBVIOUS
  <2>1. CASE k = h
    BY <1>2, <1>4, <2>1 DEF Held, Settled
  <2>2. CASE k # h
    <3>1. y = None \/ y \in 1 .. N
      BY FieldTypes DEF None
    <3>2. Settled(b, k) /\ NextOf(R, k) = y /\ (Idle(R, k) <=> Idle(b, k)) /\ StreamOf(R, k) = StreamOf(b, k)
          /\ (InList(R, k) <=> InList(b, k))
      BY <1>2, <1>3, <1>4, <2>2 DEF Calm
    <3>3. y \in 1 .. N /\ Idle(R, y) => y # h /\ Idle(b, y) /\ StreamOf(R, y) = StreamOf(b, y)
      BY <1>2, <1>4 DEF Held
    <3> QED
      BY <3>1, <3>2, <3>3 DEF Settled, Joinable
  <2> QED
    BY <2>1, <2>2
<1>6. R.regions = a.regions
  BY <1>1, <1>2 DEF Marked, SameShape
<1>7. \A k \in 1 .. N : Held(R, k) <=> Held(b, k)
  BY <1>3, <1>4 DEF Held
<1>8. \A k \in 1 .. n : Held(a, k) => PtrOf(R, k) = PtrOf(a, k) /\ SizeOf(R, k) = SizeOf(a, k)
  <2>1. \A k \in 1 .. n : k \in 1 .. N
    BY <1>2
  <2> QED
    BY <1>2, <1>4, <2>1
<1>9. \A k \in 1 .. N : k # h => (Held(R, k) <=> k \in 1 .. n /\ Held(a, k))
  BY <1>2, <1>7
<1>10. /\ Held(R, h) /\ PtrOf(R, h) = PtrOf(a, h)
       /\ rounded <= SizeOf(R, h) /\ SizeOf(R, h) < 2 * rounded /\ SizeOf(R, h) - rounded < MaxDead
  BY <1>2, <1>4, <1>7
<1> QED
  BY <1>1, <1>2, <1>3, <1>5, <1>6, <1>8, <1>9, <1>10 DEF Taken, Calm

\* FindChunkPtr hands out the best fit, cut to what was asked for.
LEMMA TakeSound ==
  ASSUME NEW n \in Nat, NEW a \in Arenas(n), Sound(a, n, {}), Calm(a, n), NEW s \in Streams \cup {NoStream},
         s # NoStream => s \in DOMAIN a.streamChunks, NEW rounded, Whole(rounded), rounded > 0, MaxDead > 0,
         ClockTypes, Fitting(a, rounded, s) # {}, NEW h, h = BestFit(a, rounded, s),
         NEW R, R = TakeBestFit(a, rounded, s)
  PROVE  /\ Fits(a, n, rounded, s, h)
         /\ \A g \in 1 .. n : Fits(a, n, rounded, s, g) => SizeOf(a, h) <= SizeOf(a, g)
         /\ \E N \in Nat : h \in 1 .. N /\ Taken(a, R, n, N, h, rounded)
<1>1. rounded \in Nat
  BY DEF Whole
<1>2. /\ Fits(a, n, rounded, s, h)
      /\ \A g \in 1 .. n : Fits(a, n, rounded, s, g) => SizeOf(a, h) <= SizeOf(a, g)
  BY <1>1, BestFits
<1>3. h \in 1 .. n /\ InList(a, h) /\ Idle(a, h) /\ rounded <= SizeOf(a, h)
  BY <1>1, <1>2, FieldTypes DEF Fits
<1> PICK b : b = SplitFreeChunkFromBin(a, h, rounded)
  OBVIOUS
<1>4. (\E N \in Nat : Taken(a, b, n, N, h, rounded)) /\ b.streamChunks = a.streamChunks
  <2>1. CASE WorthSplitting(SizeOf(a, h), rounded)
    BY <1>3, <2>1, TakePart
  <2>2. CASE ~WorthSplitting(SizeOf(a, h), rounded)
    BY <1>1, <1>3, <2>2, TakeWhole
  <2> QED
    BY <2>1, <2>2
<1>5. PICK N \in Nat : Taken(a, b, n, N, h, rounded)
  BY <1>4
<1>6. h \in 1 .. N /\ b \in Arenas(N)
  BY <1>3, <1>5 DEF Taken
<1>7. CASE s = NoStream
  <2>1. R = b
    BY <1>7 DEF TakeBestFit
  <2> QED
    BY <1>2, <1>5, <1>6, <2>1
<1>8. CASE s # NoStream
  <2> PICK sync : sync = clock.id[s]
    OBVIOUS
  <2>1. s \in Streams /\ sync \in 0 .. MaxSync /\ s \in DOMAIN b.streamChunks
    BY <1>4, <1>8 DEF ClockTypes
  <2>2. R = Assigned(b, h, s, sync)
    BY <1>8 DEF TakeBestFit, Assigned
  <2>3. Taken(a, R, n, N, h, rounded)
    BY <1>5, <1>6, <2>1, <2>2, AssignSound
  <2> QED
    BY <1>2, <1>6, <2>3
<1> QED
  BY <1>7, <1>8

\* Coalesce and its parts yield arenas.
LEMMA CoalesceIn ==
  ASSUME NEW n \in Nat, NEW a \in Arenas(n), NEW h \in 1 .. n
  PROVE  MergeNext(a, h) \in Arenas(n) /\ MergePrev(a, h) \in Arenas(n) /\ Coalesce(a, h) \in Arenas(n)
<1>1. ASSUME NEW b \in Arenas(n) PROVE MergeNext(b, h) \in Arenas(n)
  <2> PICK x : x = NextOf(b, h)
    OBVIOUS
  <2>1. CASE ~Mergeable(b, h, x)
    BY <2>1 DEF MergeNext, NextOf
  <2>2. CASE Mergeable(b, h, x)
    <3>1. x \in 1 .. n
      BY <2>2, FieldTypes DEF Mergeable, None
    <3>2. RemoveFreeChunkFromBin(b, x) \in Arenas(n)
      BY <3>1, RemoveFields
    <3>3. Merge(RemoveFreeChunkFromBin(b, x), h, x) \in Arenas(n)
      BY <3>1, <3>2, MergeFields
    <3> QED
      BY <2>2, <3>3 DEF MergeNext, NextOf
  <2> QED
    BY <2>1, <2>2
<1>2. ASSUME NEW b \in Arenas(n) PROVE MergePrev(b, h) \in Arenas(n)
  <2> PICK x : x = PrevOf(b, h)
    OBVIOUS
  <2>1. CASE ~Mergeable(b, h, x)
    BY <2>1 DEF MergePrev, PrevOf
  <2>2. CASE Mergeable(b, h, x)
    <3>1. x \in 1 .. n
      BY <2>2, FieldTypes DEF Mergeable, None
    <3>2. RemoveFreeChunkFromBin(b, x) \in Arenas(n)
      BY <3>1, RemoveFields
    <3>3. Merge(RemoveFreeChunkFromBin(b, x), x, h) \in Arenas(n)
      BY <3>1, <3>2, MergeFields
    <3> QED
      BY <2>2, <3>3 DEF MergePrev, PrevOf
  <2> QED
    BY <2>1, <2>2
<1> QED
  BY <1>1, <1>2 DEF Coalesce

\* One round of the loop that joins a chunk with those after it.
JoinNext(b, h) == IF Mergeable(b, h, NextOf(b, h)) THEN Coalesce(b, h) ELSE b
Rounds(f, n, b, h) == f[0] = b /\ \A i \in 1 .. n : f[i] = JoinNext(f[i - 1], h)

\* The loop that joins the chunks after h is a fold of its rounds.
LEMMA JoinedBack ==
  ASSUME NEW n \in Nat, NEW a \in Arenas(n), NEW h \in 1 .. n
  PROVE  \E f \in [0 .. n -> Arenas(n)] :
            /\ Rounds(f, n, RemoveFreeChunkFromBin(a, h), h)
            /\ CoalesceFollowers(a, h) = IF BinOf(f[n], h) = NoBin THEN InsertFreeChunkIntoBin(f[n], h) ELSE f[n]
<1> PICK b : b = RemoveFreeChunkFromBin(a, h)
  OBVIOUS
<1> DEFINE S == 1 .. n
           Step(it) == [s \in SUBSET S |-> IF s = {} THEN b ELSE JoinNext(it[s \ {Max(s)}], h)]
           iter == CHOOSE it : it = Step(it)
           V == Arenas(n)
           G == [i \in S |-> [v \in V |-> JoinNext(v, h)]]
<1>1. b \in V
  BY RemoveFields
<1>2. \A v \in V : JoinNext(v, h) \in V
  BY CoalesceIn DEF JoinNext
<1>3. PICK it \in [SUBSET S -> V] : Unwinds(it, n, b, G)
  <2>1. Transforms(G, S, V)
    BY <1>2 DEF Transforms
  <2> HIDE DEF G, V
  <2> QED
    BY <1>1, <2>1, PrefixRecursion
<1>4. it = Step(it)
  <2> HIDE DEF V
  <2>1. ASSUME NEW s \in SUBSET S PROVE it[s] = IF s = {} THEN b ELSE JoinNext(it[s \ {Max(s)}], h)
    <3>1. it[s \ {Max(s)}] \in V
      OBVIOUS
    <3>2. s # {} => Max(s) \in S
      BY GreatestMember
    <3> QED
      BY <1>3, <3>1, <3>2 DEF Unwinds
  <2> QED
    BY <2>1
<1>5. iter = Step(iter)
  <2> HIDE DEF Step
  <2> QED
    BY <1>4
<1>6. CoalesceFollowers(a, h) = IF BinOf(iter[S], h) = NoBin THEN InsertFreeChunkIntoBin(iter[S], h) ELSE iter[S]
  <2>1. DOMAIN a.chunks = 1 .. n
    BY DEF Arenas
  <2>2. FoldLeft(LAMBDA c, i : IF Mergeable(c, h, c.chunks[h].next) THEN Coalesce(c, h) ELSE c, b, a.chunks) = iter[S]
    BY <2>1 DEF FoldLeft, MapThenFoldSet, JoinNext, NextOf
  <2> HIDE DEF iter, S
  <2> QED
    BY <2>2 DEF CoalesceFollowers, BinOf
<1> HIDE DEF iter
<1>7. \E f \in [0 .. n -> V] : Proceeds(f, n, b, G) /\ f[n] = iter[1 .. n]
  <2>1. Transforms(G, 1 .. n, V)
    BY <1>2 DEF Transforms
  <2>2. \A s \in SUBSET (1 .. n) : iter[s] = IF s = {} THEN b ELSE JoinNext(iter[s \ {Max(s)}], h)
    BY <1>5
  <2>3. iter[{}] = b
    BY <2>2
  <2>4. ASSUME NEW s \in SUBSET (1 .. n), s # {}, iter[s \ {Max(s)}] \in V
        PROVE  iter[s] = G[Max(s)][iter[s \ {Max(s)}]]
    BY <2>2, <2>4, GreatestMember
  <2>5. Advances(iter, n, V, b, G)
    BY <2>3, <2>4 DEF Advances
  <2> HIDE DEF G, V
  <2> QED
    BY <1>1, <2>1, <2>5, PrefixPath
<1>8. PICK f \in [0 .. n -> V] : Proceeds(f, n, b, G) /\ f[n] = iter[1 .. n]
  BY <1>7
<1>9. \A i \in 1 .. n : f[i] = JoinNext(f[i - 1], h)
  <2>1. TAKE i \in 1 .. n
  <2>2. f[i - 1] \in V
    <3>1. i - 1 \in 0 .. n
      OBVIOUS
    <3> HIDE DEF V
    <3> QED
      BY <3>1
  <2> QED
    BY <1>8, <2>2 DEF Proceeds
<1> QED
  BY <1>6, <1>8, <1>9 DEF Rounds, Proceeds

\* A change of streams alone coarsens nothing.
LEMMA ShapeCoarsens ==
  ASSUME NEW n \in Nat, NEW a, NEW R, SameShape(a, R, n), SameUse(a, R, n)
  PROVE  Coarser(a, R, n)
BY DEF Coarser, SameShape, SameUse, InList

\* b is a with the chunk h out of its bin and grown over some that followed it.
Joining(a, b, n, h, p) ==
  /\ b \in Arenas(n) /\ Sound(b, n, {h}) /\ InList(b, h) /\ Idle(b, h)
  /\ Coarser(a, b, n) /\ PrevOf(b, h) = p
  /\ \A k \in 1 .. n : InList(b, k) /\ k # h => NextOf(b, k) = NextOf(a, k)

\* A round joins one more chunk or finds none to join.
LEMMA JoiningStep ==
  ASSUME NEW n \in Nat, NEW a \in Arenas(n), NEW h \in 1 .. n, NEW p \in 0 .. n, ~Joinable(a, h, p),
         NEW b, Joining(a, b, n, h, p), NEW c, c = JoinNext(b, h)
  PROVE  /\ Joining(a, c, n, h, p)
         /\ Settled(b, h) => c = b
         /\ ~Settled(b, h) => \E x \in 1 .. n : /\ InList(b, x)
                                                /\ \A k \in 1 .. n : InList(c, k) <=> InList(b, k) /\ k # x
<1> PICK x : x = NextOf(b, h)
  OBVIOUS
<1>1. /\ b \in Arenas(n) /\ Sound(b, n, {h}) /\ InList(b, h) /\ Idle(b, h)
      /\ Coarser(a, b, n) /\ PrevOf(b, h) = p
      /\ \A k \in 1 .. n : InList(b, k) /\ k # h => NextOf(b, k) = NextOf(a, k)
  BY DEF Joining
<1>2. CASE ~Joinable(b, h, x)
  <2>1. c = b
    BY <1>2, MergeableIsJoinable DEF JoinNext
  <2>2. Settled(b, h)
    BY <1>2 DEF Settled
  <2> QED
    BY <2>1, <2>2
<1>3. CASE Joinable(b, h, x)
  <2> PICK d : d = MergeNext(b, h)
    OBVIOUS
  <2>1. /\ d \in Arenas(n) /\ Sound(d, n, {h}) /\ InList(d, h) /\ Idle(d, h) /\ Coarser(b, d, n)
        /\ PrevOf(d, h) = p
        /\ \A k \in 1 .. n : InList(d, k) => (k # h => NextOf(d, k) = NextOf(b, k))
        /\ x \in 1 .. n /\ x # h /\ InList(b, x)
        /\ \A k \in 1 .. n : InList(d, k) <=> InList(b, k) /\ k # x
    <3>1. b \in Arenas(n) /\ Sound(b, n, {h}) /\ InList(b, h) /\ Idle(b, h)
      BY <1>1
    <3>2. /\ d \in Arenas(n) /\ Sound(d, n, {h}) /\ InList(d, h) /\ Idle(d, h) /\ Coarser(b, d, n)
          /\ PrevOf(d, h) = PrevOf(b, h)
          /\ \A k \in 1 .. n : InList(d, k) => (k # h => NextOf(d, k) = NextOf(b, k))
          /\ Joinable(b, h, x) => /\ x \in 1 .. n /\ x # h /\ InList(b, x)
                                  /\ \A k \in 1 .. n : InList(d, k) <=> InList(b, k) /\ k # x
      BY <3>1, MergeNextSound
    <3> QED
      BY <1>1, <1>3, <3>2
  <2>2. ~Joinable(d, h, p)
    <3>1. CASE p = None
      BY <3>1 DEF Joinable
    <3>2. CASE p # None
      <4>1. p \in 1 .. n
        BY <3>2 DEF None
      <4>2. InList(d, p)
        BY <2>1, <3>2 DEF Sound, Tiling, Backed
      <4>3. /\ Idle(d, p) <=> Idle(a, p)
            /\ StreamOf(d, p) = StreamOf(a, p) /\ StreamOf(d, h) = StreamOf(a, h)
        <5>1. Coarser(a, d, n)
          BY <1>1, <2>1, CoarserTwice
        <5> QED
          BY <2>1, <4>1, <4>2, <5>1 DEF Coarser
      <4> QED
        BY <4>3 DEF Joinable
    <3> QED
      BY <3>1, <3>2
  <2>3. c = d
    <3>1. c = MergePrev(d, h)
      BY <1>3, MergeableIsJoinable DEF JoinNext, Coalesce
    <3>2. MergePrev(d, h) = d
      BY <2>1, <2>2, MergePrevStays
    <3> QED
      BY <3>1, <3>2
  <2>4. Coarser(a, d, n)
    BY <1>1, <2>1, CoarserTwice
  <2>5. \A k \in 1 .. n : InList(d, k) /\ k # h => NextOf(d, k) = NextOf(a, k)
    BY <1>1, <2>1
  <2>6. Joining(a, c, n, h, p)
    BY <2>1, <2>3, <2>4, <2>5 DEF Joining
  <2>7. ~Settled(b, h)
    BY <1>1, <1>3 DEF Settled
  <2> QED
    BY <2>1, <2>3, <2>6, <2>7
<1> QED
  BY <1>2, <1>3

\* As many rounds as there are chunks find none left to join.
LEMMA JoiningEnds ==
  ASSUME NEW n \in Nat, NEW a \in Arenas(n), NEW h \in 1 .. n, NEW p \in 0 .. n, ~Joinable(a, h, p),
         NEW b, Joining(a, b, n, h, p), NEW f, Rounds(f, n, b, h)
  PROVE  Joining(a, f[n], n, h, p) /\ Settled(f[n], h)
<1> DEFINE L(c) == {k \in 1 .. n : InList(c, k)}
           Close(c, i) == Settled(c, h) \/ Cardinality(L(c)) <= n - i
           T == {i \in Nat : i <= n => Joining(a, f[i], n, h, p) /\ Close(f[i], i)}
<1>1. ASSUME NEW c PROVE IsFiniteSet(L(c)) /\ Cardinality(L(c)) \in Nat /\ Cardinality(L(c)) <= n
  <2>1. IsFiniteSet(1 .. n) /\ Cardinality(1 .. n) = n
    BY FS_Interval
  <2>2. IsFiniteSet(L(c)) /\ Cardinality(L(c)) <= n
    BY <2>1, FS_Subset
  <2>3. Cardinality(L(c)) \in Nat
    BY <2>2, FS_CardinalityType
  <2> QED
    BY <2>2, <2>3
<1>2. 0 \in T
  <2>1. f[0] = b
    BY DEF Rounds
  <2> HIDE DEF L
  <2> QED
    BY <1>1, <2>1
<1>3. ASSUME NEW i \in T PROVE i + 1 \in T
  <2>1. SUFFICES ASSUME i + 1 <= n PROVE Joining(a, f[i + 1], n, h, p) /\ Close(f[i + 1], i + 1)
    <3> HIDE DEF Close
    <3> QED
      OBVIOUS
  <2> PICK c : c = f[i]
    OBVIOUS
  <2> PICK d : d = f[i + 1]
    OBVIOUS
  <2>2. i \in Nat /\ Joining(a, c, n, h, p) /\ Close(c, i)
    <3> HIDE DEF Close
    <3> QED
      BY <2>1
  <2>3. d = JoinNext(c, h)
    <3>1. i + 1 \in 1 .. n /\ (i + 1) - 1 = i
      BY <2>1, <2>2
    <3> QED
      BY <3>1 DEF Rounds
  <2>4. /\ Joining(a, d, n, h, p)
        /\ Settled(c, h) => d = c
        /\ ~Settled(c, h) => \E x \in 1 .. n : /\ InList(c, x)
                                               /\ \A k \in 1 .. n : InList(d, k) <=> InList(c, k) /\ k # x
    BY <2>2, <2>3, JoiningStep
  <2>5. CASE Settled(c, h)
    BY <2>4, <2>5
  <2>6. CASE ~Settled(c, h)
    <3>1. PICK x \in 1 .. n : InList(c, x) /\ \A k \in 1 .. n : InList(d, k) <=> InList(c, k) /\ k # x
      BY <2>4, <2>6
    <3>2. L(d) = L(c) \ {x} /\ x \in L(c)
      BY <3>1
    <3>3. Cardinality(L(d)) = Cardinality(L(c)) - 1
      <4> HIDE DEF L
      <4> QED
        BY <1>1, <3>2, FS_RemoveElement
    <3>4. Cardinality(L(c)) <= n - i
      BY <2>2, <2>6
    <3> HIDE DEF L
    <3> QED
      BY <1>1, <2>2, <2>4, <3>3, <3>4
  <2> QED
    BY <2>5, <2>6
<1>4. T = Nat
  <2>1. T \subseteq Nat
    OBVIOUS
  <2> HIDE DEF T
  <2> QED
    BY <1>2, <1>3, <2>1, NumberInduction
<1>5. n \in T
  <2> HIDE DEF T
  <2> QED
    BY <1>4
<1>6. Joining(a, f[n], n, h, p) /\ Close(f[n], n)
  <2> HIDE DEF Close
  <2> QED
    BY <1>5
<1>7. Cardinality(L(f[n])) > 0
  <2>1. h \in L(f[n])
    BY <1>6 DEF Joining
  <2> HIDE DEF L
  <2> QED
    BY <1>1, <2>1, FS_EmptySet
<1> HIDE DEF L
<1> QED
  BY <1>1, <1>6, <1>7

\* CoalesceFollowers keeps the arena sound and settles its chunk.
LEMMA FollowersSound ==
  ASSUME NEW n \in Nat, NEW a \in Arenas(n), NEW h \in 1 .. n, Sound(a, n, {}), InList(a, h), Idle(a, h),
         ~Joinable(a, h, PrevOf(a, h)), NEW R, R = CoalesceFollowers(a, h)
  PROVE  /\ R \in Arenas(n) /\ Sound(R, n, {}) /\ Coarser(a, R, n) /\ InList(R, h) /\ Settled(R, h)
         /\ \A k \in 1 .. n : InList(R, k) /\ k # h => NextOf(R, k) = NextOf(a, k)
<1> PICK p : p = PrevOf(a, h)
  OBVIOUS
<1> PICK b : b = RemoveFreeChunkFromBin(a, h)
  OBVIOUS
<1>1. p \in 0 .. n
  BY FieldTypes
<1>2. Joining(a, b, n, h, p)
  <2>1. b \in Arenas(n) /\ Removed(a, b, n, h) /\ Sound(b, n, {} \cup {h})
    BY RemoveSound
  <2>2. {} \cup {h} = {h}
    OBVIOUS
  <2>3. SameShape(a, b, n) /\ SameUse(a, b, n) /\ Coarser(a, b, n)
    BY <2>1, ShapeCoarsens DEF Removed
  <2> QED
    BY <2>1, <2>2, <2>3 DEF Joining, SameShape, SameUse, InList
<1>3. PICK f \in [0 .. n -> Arenas(n)] :
         /\ Rounds(f, n, b, h)
         /\ R = IF BinOf(f[n], h) = NoBin THEN InsertFreeChunkIntoBin(f[n], h) ELSE f[n]
  BY JoinedBack
<1> PICK c : c = f[n]
  OBVIOUS
<1>4. Joining(a, c, n, h, p) /\ Settled(c, h)
  BY <1>1, <1>2, <1>3, JoiningEnds
<1>5. c \in Arenas(n) /\ Sound(c, n, {h}) /\ InList(c, h) /\ Idle(c, h) /\ Coarser(a, c, n)
      /\ \A k \in 1 .. n : InList(c, k) /\ k # h => NextOf(c, k) = NextOf(a, k)
  BY <1>4 DEF Joining
<1>6. BinOf(c, h) = NoBin
  BY <1>5 DEF Sound, Filed
<1>7. R = InsertFreeChunkIntoBin(c, h)
  BY <1>3, <1>6
<1>8. R \in Arenas(n) /\ Inserted(c, R, n, h) /\ Sound(R, n, {})
  <2>1. {h} \ {h} = {} /\ h \in {h}
    OBVIOUS
  <2>2. R \in Arenas(n) /\ Inserted(c, R, n, h) /\ Sound(R, n, {h} \ {h})
    BY <1>5, <1>7, <2>1, InsertSound
  <2> QED
    BY <2>1, <2>2
<1>9. SameShape(c, R, n) /\ SameUse(c, R, n)
  BY <1>8 DEF Inserted
<1>10. Coarser(a, R, n)
  BY <1>5, <1>9, CoarserTwice, ShapeCoarsens
<1>11. Settled(R, h)
  BY <1>4, <1>5, <1>9, SettledShape
<1>12. InList(R, h) /\ \A k \in 1 .. n : InList(R, k) /\ k # h => NextOf(R, k) = NextOf(a, k)
  BY <1>5, <1>9 DEF SameShape, InList
<1> QED
  BY <1>8, <1>10, <1>11, <1>12

Inside(a, k, r) == r.ptr <= PtrOf(a, k) /\ PtrOf(a, k) < r.ptr + r.size

\* A chunk that begins in a region lies in it, and in no other.
LEMMA InsideWithin ==
  ASSUME NEW n \in Nat, NEW a \in Arenas(n), Tiling(a, n), NEW r \in a.regions, NEW k \in 1 .. n, InList(a, k)
  PROVE  /\ Inside(a, k, r) <=> Within(a, k, r)
         /\ \A q \in a.regions : Within(a, k, q) /\ Within(a, k, r) => q = r
<1>1. PtrOf(a, k) \in Int /\ SizeOf(a, k) \in Int /\ SizeOf(a, k) > 0
  BY TypesOfLinked DEF Tiling, Known
<1>2. ASSUME NEW q \in a.regions
      PROVE  /\ q.ptr \in Int /\ q.size \in Int
             /\ (Within(a, k, q) => Inside(a, k, q))
  <2>1. q.ptr \in Int /\ q.size \in Int
    BY RegionTypes DEF Tiling
  <2> QED
    BY <1>1, <2>1 DEF Within, Inside, EndOf
<1>3. ASSUME NEW q \in a.regions, NEW t \in a.regions, Inside(a, k, q), Inside(a, k, t) PROVE q = t
  BY <1>1, <1>3, OneRegion DEF Tiling, Inside
<1>4. PICK q \in a.regions : Within(a, k, q)
  BY DEF Tiling, Placed
<1> QED
  BY <1>2, <1>3, <1>4

Downward(a, n) == [k \in 1 .. n |-> 0 - PtrOf(a, k)]
InRegion(a, n, r) == {k \in 1 .. n : InList(a, k) /\ Within(a, k, r)}

\* The walk over a region meets its chunks, all of them, by rising address.
Meets(a, n, r, s, len) ==
  /\ s \in [1 .. len -> InRegion(a, n, r)]
  /\ \A i, j \in 1 .. len : i < j => PtrOf(a, s[i]) < PtrOf(a, s[j])
  /\ \A k \in InRegion(a, n, r) : \E i \in 1 .. len : s[i] = k
  /\ 1 \in 1 .. len => PtrOf(a, s[1]) = r.ptr

\* The walk over a region meets all of its chunks.
LEMMA ChainMeetsAll ==
  ASSUME NEW n \in Nat, NEW a \in Arenas(n), Tiling(a, n), NEW r \in a.regions
  PROVE  \E len \in 0 .. n : Meets(a, n, r, Chain(a, r), len) /\ len > 0
<1> PICK h : h = a.handles[r.ptr]
  OBVIOUS
<1> PICK S : S = InRegion(a, n, r)
  OBVIOUS
<1> PICK rank : rank = Downward(a, n)
  OBVIOUS
<1> PICK s : s = Following(a, h)
  OBVIOUS
<1>0. \A k : k \in S <=> k \in 1 .. n /\ InList(a, k) /\ Within(a, k, r)
  BY DEF InRegion
<1>1. r.ptr \in Addresses /\ r.ptr \in Int /\ r.size \in Int /\ r.size > 0
  BY RegionTypes DEF Tiling
<1>2. ASSUME NEW k \in 1 .. n PROVE PtrOf(a, k) \in Int /\ rank[k] = 0 - PtrOf(a, k)
  BY FieldTypes, NullIsNoAddress DEF Null, Downward
<1>3. h \in 1 .. n /\ h \in S /\ PtrOf(a, h) = r.ptr
  <2>1. h \in 0 .. n /\ h # None
    BY <1>1 DEF Arenas, Tiling, Based
  <2>2. h \in 1 .. n
    BY <2>1 DEF None
  <2>3. PtrOf(a, h) = r.ptr
    BY <1>1, <2>1 DEF Tiling, Handled
  <2>4. InList(a, h)
    BY <1>1, <2>3, NullIsNoAddress DEF InList
  <2>5. Inside(a, h, r)
    BY <1>1, <2>3 DEF Inside
  <2> QED
    BY <1>0, <2>2, <2>3, <2>4, <2>5, InsideWithin
<1>4. Ranked(a, n, rank, S)
  <2>1. S \subseteq 1 .. n
    BY <1>0
  <2>2. Integral(rank, 1 .. n)
    BY <1>2 DEF Downward, Integral
  <2>3. ASSUME NEW k \in S, NextOf(a, k) # None
        PROVE  NextOf(a, k) \in S /\ rank[NextOf(a, k)] < rank[k]
    <3> PICK x : x = NextOf(a, k)
      OBVIOUS
    <3>1. k \in 1 .. n /\ InList(a, k) /\ Within(a, k, r)
      BY <1>0
    <3>2. /\ x \in 1 .. n /\ InList(a, x) /\ PtrOf(a, x) = EndOf(a, k)
          /\ \E q \in a.regions : Within(a, k, q) /\ Within(a, x, q)
      BY <2>3, <3>1, Neighbours
    <3>3. Within(a, x, r)
      BY <3>1, <3>2, InsideWithin
    <3>4. PtrOf(a, k) \in Int /\ SizeOf(a, k) \in Int /\ SizeOf(a, k) > 0
      BY <3>1, TypesOfLinked DEF Tiling, Known
    <3> QED
      BY <1>0, <1>2, <3>1, <3>2, <3>3, <3>4 DEF EndOf
  <2> QED
    BY <2>1, <2>2, <2>3 DEF Ranked
<1>5. ASSUME NEW k \in S, k # h PROVE \E j \in S : NextOf(a, j) = k
  <2>1. k \in 1 .. n /\ InList(a, k) /\ Within(a, k, r) /\ Backed(a, k) /\ Known(a, k)
    BY <1>0 DEF Tiling
  <2> PICK j : j = PrevOf(a, k)
    OBVIOUS
  <2>2. j # None
    <3>1. SUFFICES ASSUME j = None PROVE FALSE
      OBVIOUS
    <3>2. PICK q \in a.regions : q.ptr = PtrOf(a, k)
      BY <2>1, <3>1 DEF Backed
    <3>3. q.ptr \in Int /\ q.size \in Int /\ q.size > 0
      BY RegionTypes DEF Tiling
    <3>4. Inside(a, k, q)
      BY <1>2, <2>1, <3>2, <3>3 DEF Inside
    <3>5. q = r
      BY <2>1, <3>4, InsideWithin
    <3> QED
      BY <1>5, <2>1, <3>2, <3>5 DEF Known
  <2>3. InList(a, j) /\ NextOf(a, j) = k /\ j \in 1 .. n
    <3>1. j \in 0 .. n
      BY <2>1, FieldTypes
    <3> QED
      BY <2>1, <2>2, <3>1 DEF Backed, None
  <2>4. k # None
    BY <2>1 DEF None
  <2>5. \E q \in a.regions : Within(a, j, q) /\ Within(a, k, q)
    BY <2>3, <2>4, Neighbours
  <2>6. Within(a, j, r)
    BY <2>1, <2>5, InsideWithin
  <2> QED
    BY <1>0, <2>3, <2>6
<1>6. h \in 0 .. n /\ (h # None => h \in S)
  BY <1>3
<1>7. PICK len \in 0 .. n : Tour(a, S, rank, h, s, len)
  BY <1>4, <1>6, FollowingTours
<1>8. \A k \in S : \E i \in 1 .. len : s[i] = k
  BY <1>4, <1>5, <1>6, <1>7, TourMeetsAll
<1>9. s \in [1 .. len -> S] /\ len > 0 /\ s[1] = h
  <2>1. h # None
    BY <1>3 DEF None
  <2> QED
    BY <1>7, <2>1 DEF Tour
<1>10. ASSUME NEW i \in 1 .. len, NEW j \in 1 .. len, i < j PROVE PtrOf(a, s[i]) < PtrOf(a, s[j])
  <2>1. rank[s[j]] < rank[s[i]]
    BY <1>7, <1>10 DEF Tour
  <2>2. s[i] \in 1 .. n /\ s[j] \in 1 .. n
    BY <1>0, <1>9
  <2> QED
    BY <1>2, <2>1, <2>2
<1>11. Meets(a, n, r, s, len)
  BY <1>3, <1>8, <1>9, <1>10 DEF Meets
<1> QED
  BY <1>9, <1>11 DEF Chain

\* CoalesceFollowers yields an arena.
LEMMA FollowersIn ==
  ASSUME NEW n \in Nat, NEW a \in Arenas(n), NEW h \in 1 .. n
  PROVE  CoalesceFollowers(a, h) \in Arenas(n)
<1>1. PICK f \in [0 .. n -> Arenas(n)] :
         CoalesceFollowers(a, h) = IF BinOf(f[n], h) = NoBin THEN InsertFreeChunkIntoBin(f[n], h) ELSE f[n]
  BY JoinedBack
<1> PICK c : c = f[n]
  OBVIOUS
<1>2. c \in Arenas(n)
  BY <1>1
<1>3. InsertFreeChunkIntoBin(c, h) \in Arenas(n)
  <2>1. SizeOf(c, h) \in Nat
    BY <1>2, FieldTypes
  <2>2. BinNumForSize(SizeOf(c, h)) \in Bins
    BY <2>1, BinsOfSizes
  <2> QED
    BY <1>2, <2>2, InsertFields
<1> QED
  BY <1>1, <1>2, <1>3

\* What the walk over a region does at one of its chunks.
Visited(a, b, h) ==
  IF b.handles[PtrOf(a, h)] = h /\ Idle(b, h) THEN CoalesceFollowers(b, h) ELSE b
Visits(f, a, s, len) == f[0] = a /\ \A i \in 1 .. len : f[i] = Visited(a, f[i - 1], s[i])

\* CoalesceRegion is a fold over the walk.
LEMMA RegionFold ==
  ASSUME NEW n \in Nat, NEW a \in Arenas(n), NEW r, NEW len \in Nat, NEW s \in [1 .. len -> 1 .. n],
         s = Chain(a, r)
  PROVE  \E f \in [0 .. len -> Arenas(n)] : Visits(f, a, s, len) /\ f[len] = CoalesceRegion(a, r)
<1> DEFINE S == 1 .. len
           Step(it) == [t \in SUBSET S |-> IF t = {} THEN a ELSE Visited(a, it[t \ {Max(t)}], s[Max(t)])]
           iter == CHOOSE it : it = Step(it)
           V == Arenas(n)
           G == [i \in S |-> [v \in V |-> Visited(a, v, s[i])]]
<1>1. Transforms(G, S, V)
  <2>1. ASSUME NEW i \in S, NEW v \in V PROVE G[i][v] \in V
    <3>1. G[i][v] = Visited(a, v, s[i]) /\ s[i] \in 1 .. n
      OBVIOUS
    <3>2. Visited(a, v, s[i]) \in V
      BY <3>1, FollowersIn DEF Visited
    <3> QED
      BY <3>1, <3>2
  <2> QED
    BY <2>1 DEF Transforms
<1>2. a \in V
  OBVIOUS
<1>3. PICK it \in [SUBSET S -> V] : Unwinds(it, len, a, G)
  <2> HIDE DEF G, V
  <2> QED
    BY <1>1, <1>2, PrefixRecursion
<1>4. it = Step(it)
  <2> HIDE DEF V
  <2>1. ASSUME NEW t \in SUBSET S
        PROVE  it[t] = IF t = {} THEN a ELSE Visited(a, it[t \ {Max(t)}], s[Max(t)])
    <3>1. it[t \ {Max(t)}] \in V
      OBVIOUS
    <3>2. t # {} => Max(t) \in S
      BY GreatestMember
    <3> QED
      BY <1>3, <3>1, <3>2 DEF Unwinds
  <2> QED
    BY <2>1
<1>5. iter = Step(iter)
  <2> HIDE DEF Step
  <2> QED
    BY <1>4
<1>6. CoalesceRegion(a, r) = iter[S]
  <2>1. DOMAIN s = 1 .. len
    OBVIOUS
  <2>2. FoldLeft(LAMBDA b, h : IF b.handles[a.chunks[h].ptr] = h /\ ~b.chunks[h].used
                               THEN CoalesceFollowers(b, h) ELSE b, a, s) = iter[S]
    BY <2>1 DEF FoldLeft, MapThenFoldSet, Visited, PtrOf, Idle
  <2> HIDE DEF iter, S
  <2> QED
    BY <2>2 DEF CoalesceRegion
<1> HIDE DEF iter
<1>7. \E f \in [0 .. len -> V] : Proceeds(f, len, a, G) /\ f[len] = iter[1 .. len]
  <2>1. \A t \in SUBSET (1 .. len) : iter[t] = IF t = {} THEN a ELSE Visited(a, iter[t \ {Max(t)}], s[Max(t)])
    BY <1>5
  <2>2. iter[{}] = a
    BY <2>1
  <2>3. ASSUME NEW t \in SUBSET (1 .. len), t # {}, iter[t \ {Max(t)}] \in V
        PROVE  iter[t] = G[Max(t)][iter[t \ {Max(t)}]]
    BY <2>1, <2>3, GreatestMember
  <2>4. Advances(iter, len, V, a, G)
    BY <2>2, <2>3 DEF Advances
  <2> HIDE DEF G, V
  <2> QED
    BY <1>1, <1>2, <2>4, PrefixPath
<1>8. PICK f \in [0 .. len -> V] : Proceeds(f, len, a, G) /\ f[len] = iter[1 .. len]
  BY <1>7
<1>9. \A i \in 1 .. len : f[i] = Visited(a, f[i - 1], s[i])
  <2>1. TAKE i \in 1 .. len
  <2>2. f[i - 1] \in V
    <3>1. i - 1 \in 0 .. len
      OBVIOUS
    <3> HIDE DEF V
    <3> QED
      BY <3>1
  <2> QED
    BY <1>8, <2>2 DEF Proceeds
<1> QED
  BY <1>6, <1>8, <1>9 DEF Visits, Proceeds

\* b is a with the first i chunks of the region r visited.
Swept(a, b, n, r, s, i) ==
  /\ b \in Arenas(n) /\ Sound(b, n, {}) /\ Coarser(a, b, n)
  /\ \A j \in 1 .. i : Settled(b, s[j])
  /\ \A k \in 1 .. n : InList(b, k) /\ k \notin InRegion(a, n, r) => NextOf(b, k) = NextOf(a, k)

\* One more chunk of the walk visited.
LEMMA SweptFurther ==
  ASSUME NEW n \in Nat, NEW a \in Arenas(n), Sound(a, n, {}), NEW r \in a.regions, NEW len \in Nat, NEW s,
         Meets(a, n, r, s, len), NEW i \in 1 .. len, NEW b, Swept(a, b, n, r, s, i - 1),
         NEW c, c = Visited(a, b, s[i])
  PROVE  Swept(a, c, n, r, s, i)
<1> PICK h : h = s[i]
  OBVIOUS
<1> PICK S : S = InRegion(a, n, r)
  OBVIOUS
<1>0. \A k : k \in S <=> k \in 1 .. n /\ InList(a, k) /\ Within(a, k, r)
  BY DEF InRegion
<1>1. /\ b \in Arenas(n) /\ Sound(b, n, {}) /\ Coarser(a, b, n) /\ Tiling(b, n) /\ Tiling(a, n)
      /\ \A j \in 1 .. (i - 1) : Settled(b, s[j])
      /\ \A k \in 1 .. n : InList(b, k) /\ k \notin S => NextOf(b, k) = NextOf(a, k)
  BY DEF Swept, Sound
<1>2. h \in 1 .. n /\ InList(a, h) /\ Within(a, h, r) /\ h \in S
  BY <1>0 DEF Meets
<1>3. CASE ~InList(b, h) \/ ~Idle(b, h)
  <2>1. c = b
    <3>1. CASE ~Idle(b, h)
      BY <3>1 DEF Visited
    <3>2. CASE ~InList(b, h)
      <4>1. PtrOf(a, h) \in Addresses /\ h # None /\ PtrOf(b, h) # PtrOf(a, h)
        BY <1>2, <3>2, TypesOfLinked, NullIsNoAddress DEF InList, None
      <4>2. b.handles[PtrOf(a, h)] # h
        BY <1>1, <4>1 DEF Tiling, Handled
      <4> QED
        BY <4>2 DEF Visited
    <3> QED
      BY <1>3, <3>1, <3>2
  <2>2. Settled(b, h)
    BY <1>3 DEF Settled
  <2>3. \A j \in 1 .. i : Settled(b, s[j])
    <3>1. \A j \in 1 .. i : j \in 1 .. (i - 1) \/ j = i
      OBVIOUS
    <3> QED
      BY <1>1, <2>2, <3>1
  <2> QED
    BY <1>1, <2>1, <2>3 DEF Swept
<1>4. CASE InList(b, h) /\ Idle(b, h)
  <2>1. c = CoalesceFollowers(b, h)
    <3>1. Known(b, h) /\ PtrOf(b, h) = PtrOf(a, h)
      BY <1>1, <1>2, <1>4 DEF Tiling, Coarser
    <3> QED
      BY <1>4, <3>1 DEF Visited, Known
  <2> PICK p : p = PrevOf(b, h)
    OBVIOUS
  <2>2. ~Joinable(b, h, p)
    <3>1. SUFFICES ASSUME p # None PROVE ~Joinable(b, h, p)
      BY DEF Joinable
    <3>2. p \in 1 .. n /\ InList(b, p) /\ NextOf(b, p) = h /\ h # None
      <4>1. p \in 0 .. n
        BY <1>1, <1>2, FieldTypes
      <4> QED
        BY <1>1, <1>2, <1>4, <3>1, <4>1 DEF Tiling, Backed, None
    <3>3. /\ PtrOf(b, h) = EndOf(b, p)
          /\ \E q \in b.regions : Within(b, p, q) /\ Within(b, h, q)
      BY <1>1, <3>2, Neighbours
    <3>4. /\ InList(a, p) /\ PtrOf(b, p) = PtrOf(a, p) /\ PtrOf(b, h) = PtrOf(a, h) /\ b.regions = a.regions
      BY <1>1, <1>2, <1>4, <3>2 DEF Coarser
    <3>5. PtrOf(b, p) \in Int /\ SizeOf(b, p) \in Int /\ SizeOf(b, p) > 0 /\ PtrOf(b, h) \in Int
      BY <1>1, <1>2, <1>4, <3>2, TypesOfLinked DEF Tiling, Known
    <3>6. Within(a, p, r)
      <4>1. PICK q \in a.regions : Within(b, p, q) /\ Within(b, h, q)
        BY <3>3, <3>4
      <4>2. q.ptr \in Int /\ q.size \in Int
        BY <1>1, RegionTypes DEF Tiling
      <4>3. SizeOf(b, h) \in Int /\ SizeOf(b, h) > 0
        BY <1>1, <1>2, <1>4, TypesOfLinked DEF Tiling, Known
      <4>4. Inside(a, p, q) /\ Inside(a, h, q)
        BY <3>4, <3>5, <4>1, <4>2, <4>3 DEF Within, Inside, EndOf
      <4>5. Within(a, p, q) /\ Within(a, h, q)
        BY <1>1, <1>2, <3>2, <3>4, <4>4, InsideWithin
      <4> QED
        BY <1>1, <1>2, <4>5, InsideWithin
    <3>7. p \in S
      BY <1>0, <3>2, <3>4, <3>6
    <3>8. PICK j \in 1 .. len : s[j] = p
      BY <3>7 DEF Meets
    <3>9. j \in 1 .. (i - 1)
      <4>1. PtrOf(a, s[j]) < PtrOf(a, s[i]) /\ PtrOf(a, s[j]) \in Int /\ PtrOf(a, s[i]) \in Int
        BY <3>3, <3>4, <3>5, <3>8 DEF EndOf
      <4>2. ~(i < j) /\ i # j
        <5>1. i < j => PtrOf(a, s[i]) < PtrOf(a, s[j])
          BY DEF Meets
        <5> QED
          BY <4>1, <5>1
      <4> QED
        BY <4>2
    <3>10. Settled(b, p)
      BY <1>1, <3>8, <3>9
    <3> QED
      BY <1>4, <3>2, <3>10 DEF Settled, Joinable
  <2>3. /\ c \in Arenas(n) /\ Sound(c, n, {}) /\ Coarser(b, c, n) /\ InList(c, h) /\ Settled(c, h)
        /\ \A k \in 1 .. n : InList(c, k) /\ k # h => NextOf(c, k) = NextOf(b, k)
    BY <1>1, <1>2, <1>4, <2>1, <2>2, FollowersSound
  <2>4. ASSUME NEW j \in 1 .. i PROVE Settled(c, s[j])
    <3> PICK k : k = s[j]
      OBVIOUS
    <3>1. CASE k = h
      BY <2>3, <3>1
    <3>2. CASE k # h
      <4>1. j \in 1 .. (i - 1) /\ k \in 1 .. n
        <5>1. j \in 1 .. len /\ j # i
          BY <3>2
        <5> QED
          BY <1>0, <5>1 DEF Meets
      <4>2. Settled(b, k)
        BY <1>1, <4>1
      <4>3. CASE InList(c, k)
        <5>1. Tiling(c, n) /\ NextOf(c, k) = NextOf(b, k)
          BY <2>3, <3>2, <4>1, <4>3 DEF Sound
        <5>2. c \in Arenas(n) /\ Coarser(b, c, n)
          BY <2>3
        <5> QED
          BY <1>1, <4>1, <4>2, <4>3, <5>1, <5>2, SettledStays
      <4>4. CASE ~InList(c, k)
        BY <4>4 DEF Settled
      <4> QED
        BY <4>3, <4>4
    <3> QED
      BY <3>1, <3>2
  <2>5. \A k \in 1 .. n : InList(c, k) /\ k \notin S => NextOf(c, k) = NextOf(a, k)
    <3>1. \A k \in 1 .. n : InList(c, k) => InList(b, k)
      BY <2>3 DEF Coarser
    <3> QED
      BY <1>1, <1>2, <2>3, <3>1
  <2>6. Coarser(a, c, n)
    BY <1>1, <2>3, CoarserTwice
  <2> QED
    BY <2>3, <2>4, <2>5, <2>6 DEF Swept
<1> QED
  BY <1>3, <1>4

\* CoalesceRegion keeps the arena sound and settles the region's chunks.
LEMMA CoalesceRegionSound ==
  ASSUME NEW n \in Nat, NEW a \in Arenas(n), Sound(a, n, {}), NEW r \in a.regions,
         NEW R, R = CoalesceRegion(a, r)
  PROVE  /\ R \in Arenas(n) /\ Sound(R, n, {}) /\ Coarser(a, R, n)
         /\ \A k \in InRegion(a, n, r) : Settled(R, k)
         /\ \A k \in 1 .. n : InList(R, k) /\ k \notin InRegion(a, n, r) => NextOf(R, k) = NextOf(a, k)
<1> PICK s : s = Chain(a, r)
  OBVIOUS
<1>1. PICK len \in 0 .. n : Meets(a, n, r, s, len)
  <2>1. Tiling(a, n)
    BY DEF Sound
  <2> QED
    BY <2>1, ChainMeetsAll
<1>2. s \in [1 .. len -> 1 .. n] /\ len \in Nat
  BY <1>1 DEF Meets, InRegion
<1>3. PICK f \in [0 .. len -> Arenas(n)] : Visits(f, a, s, len) /\ f[len] = R
  BY <1>2, RegionFold
<1> DEFINE T == {i \in Nat : i <= len => Swept(a, f[i], n, r, s, i)}
<1>4. 0 \in T
  <2>1. f[0] = a
    BY <1>3 DEF Visits
  <2>2. Swept(a, a, n, r, s, 0)
    BY CoarserSelf DEF Swept
  <2> QED
    BY <2>1, <2>2
<1>5. ASSUME NEW i \in T PROVE i + 1 \in T
  <2>1. SUFFICES ASSUME i + 1 <= len PROVE Swept(a, f[i + 1], n, r, s, i + 1)
    OBVIOUS
  <2> PICK j : j = i + 1
    OBVIOUS
  <2> PICK b : b = f[i]
    OBVIOUS
  <2>2. j \in 1 .. len /\ j - 1 = i /\ Swept(a, b, n, r, s, j - 1)
    BY <1>2, <2>1
  <2>3. f[j] = Visited(a, b, s[j])
    BY <1>3, <2>2 DEF Visits
  <2> HIDE DEF T
  <2> QED
    BY <1>1, <1>2, <2>2, <2>3, SweptFurther
<1>6. T = Nat
  <2>1. T \subseteq Nat
    OBVIOUS
  <2> HIDE DEF T
  <2> QED
    BY <1>4, <1>5, <2>1, NumberInduction
<1>7. Swept(a, R, n, r, s, len)
  <2>1. len \in T
    <3> HIDE DEF T
    <3> QED
      BY <1>2, <1>6
  <2> QED
    BY <1>2, <1>3, <2>1
<1>8. \A k \in InRegion(a, n, r) : Settled(R, k)
  BY <1>1, <1>7 DEF Meets, Swept
<1> QED
  BY <1>7, <1>8 DEF Swept

\* A set of regions has one of greatest address.
LEMMA LastOfRegions ==
  ASSUME NEW s, s \subseteq RegionSet, s # {}
  PROVE  LastRegion(s) \in s
<1> DEFINE T == {DeviceBytes - r.ptr : r \in s}
<1>1. \A r \in s : r.ptr \in Nat /\ r.ptr \in Int /\ r.ptr < DeviceBytes
  BY ArenaConstants DEF RegionSet, Addresses
<1>2. DeviceBytes \in Nat
  BY ArenaConstants
<1>3. T \subseteq Nat /\ T # {}
  BY <1>1, <1>2
<1>4. PICK v \in T : \A w \in T : v <= w
  <2> HIDE DEF T
  <2> QED
    BY <1>3, LeastNumber
<1>5. PICK r \in s : v = DeviceBytes - r.ptr
  OBVIOUS
<1>6. ASSUME NEW q \in s PROVE q.ptr <= r.ptr
  <2>1. v <= DeviceBytes - q.ptr
    BY <1>4
  <2> QED
    BY <1>1, <1>2, <1>5, <2>1
<1> QED
  BY <1>6 DEF LastRegion

\* The regions of s, all of them regions of a, were coalesced and b came of it.
Gathered(a, b, n, s) ==
  /\ b \in Arenas(n) /\ Sound(b, n, {}) /\ Coarser(a, b, n)
  /\ \A r \in s : \A k \in InRegion(a, n, r) : Settled(b, k)

\* One more region coalesced.
LEMMA GatheredFurther ==
  ASSUME NEW n \in Nat, NEW a \in Arenas(n), Sound(a, n, {}), NEW s, s \subseteq a.regions, NEW x \in s,
         NEW b, Gathered(a, b, n, s \ {x}), NEW c, c = CoalesceRegion(b, x)
  PROVE  Gathered(a, c, n, s)
<1>1. /\ b \in Arenas(n) /\ Sound(b, n, {}) /\ Coarser(a, b, n) /\ b.regions = a.regions
      /\ Tiling(a, n) /\ Tiling(b, n) /\ x \in b.regions /\ x \in a.regions
      /\ \A r \in s \ {x} : \A k \in InRegion(a, n, r) : Settled(b, k)
  BY DEF Gathered, Coarser, Sound
<1>2. /\ c \in Arenas(n) /\ Sound(c, n, {}) /\ Coarser(b, c, n)
      /\ \A k \in InRegion(b, n, x) : Settled(c, k)
      /\ \A k \in 1 .. n : InList(c, k) /\ k \notin InRegion(b, n, x) => NextOf(c, k) = NextOf(b, k)
  BY <1>1, CoalesceRegionSound
<1>3. Coarser(a, c, n)
  BY <1>1, <1>2, CoarserTwice
<1>4. ASSUME NEW r \in s, NEW k \in InRegion(a, n, r) PROVE Settled(c, k)
  <2>1. SUFFICES ASSUME InList(c, k) PROVE Settled(c, k)
    BY DEF Settled
  <2>2. k \in 1 .. n /\ InList(a, k) /\ Within(a, k, r) /\ InList(b, k) /\ PtrOf(b, k) = PtrOf(a, k)
        /\ r \in a.regions
    BY <1>1, <1>2, <2>1 DEF InRegion, Coarser
  <2>3. CASE r = x
    <3>1. Within(b, k, x)
      <4>1. Inside(a, k, x)
        BY <1>1, <2>2, <2>3, InsideWithin
      <4>2. Inside(b, k, x)
        BY <2>2, <4>1 DEF Inside
      <4> QED
        BY <1>1, <2>2, <4>2, InsideWithin
    <3> QED
      BY <1>2, <2>2, <3>1 DEF InRegion
  <2>4. CASE r # x
    <3>1. k \notin InRegion(b, n, x)
      <4>1. SUFFICES ASSUME Within(b, k, x) PROVE FALSE
        BY DEF InRegion
      <4>2. Inside(b, k, x)
        BY <1>1, <2>2, <4>1, InsideWithin
      <4>3. Inside(a, k, x)
        BY <2>2, <4>2 DEF Inside
      <4>4. Within(a, k, x)
        BY <1>1, <2>2, <4>3, InsideWithin
      <4> QED
        BY <1>1, <2>2, <2>4, <4>4, InsideWithin
    <3>2. Settled(b, k) /\ NextOf(c, k) = NextOf(b, k) /\ Tiling(c, n) /\ c \in Arenas(n) /\ Coarser(b, c, n)
      BY <1>1, <1>2, <2>1, <2>2, <2>4, <3>1 DEF Sound
    <3> QED
      BY <1>1, <2>1, <2>2, <3>2, SettledStays
  <2> QED
    BY <2>3, <2>4
<1> QED
  BY <1>2, <1>3, <1>4 DEF Gathered

\* Coalescing every region leaves no two free neighbours.
LEMMA AllCoalesced ==
  ASSUME NEW n \in Nat, NEW a \in Arenas(n), Sound(a, n, {}), NEW R,
         R = InAddressOrder(CoalesceRegion, a, a.regions)
  PROVE  R \in Arenas(n) /\ Sound(R, n, {}) /\ Coarser(a, R, n) /\ Calm(R, n)
<1> DEFINE S == a.regions
           Step(it) == [s \in SUBSET S |-> IF s = {} THEN a
                                           ELSE CoalesceRegion(it[s \ {LastRegion(s)}], LastRegion(s))]
           iter == CHOOSE it : it = Step(it)
           V == {v \in Arenas(n) : Sound(v, n, {}) /\ v.regions = a.regions}
           ch == [s \in SUBSET S |-> LastRegion(s)]
           G == [s \in SUBSET S |-> [v \in V |-> IF s = {} THEN v ELSE CoalesceRegion(v, LastRegion(s))]]
<1>1. IsFiniteSet(S) /\ S \subseteq RegionSet
  BY DEF Sound, Tiling, RegionsApart
<1>2. ASSUME NEW s \in SUBSET S, s # {} PROVE LastRegion(s) \in s
  BY <1>1, <1>2, LastOfRegions
<1>3. a \in V /\ Picks(ch, S)
  BY <1>2 DEF Picks
<1>4. Steps(G, S, V)
  <2>1. ASSUME NEW s \in SUBSET S, NEW v \in V PROVE G[s][v] \in V
    <3>1. G[s][v] = IF s = {} THEN v ELSE CoalesceRegion(v, LastRegion(s))
      OBVIOUS
    <3>2. CASE s = {}
      BY <3>1, <3>2
    <3>3. CASE s # {}
      <4> PICK w : w = CoalesceRegion(v, LastRegion(s))
        OBVIOUS
      <4>1. v \in Arenas(n) /\ Sound(v, n, {}) /\ LastRegion(s) \in v.regions /\ v.regions = a.regions
        BY <1>2, <3>3
      <4>2. w \in Arenas(n) /\ Sound(w, n, {}) /\ Coarser(v, w, n)
        <5> HIDE DEF V, S, G
        <5> QED
          BY <4>1, CoalesceRegionSound
      <4> QED
        BY <3>1, <3>3, <4>1, <4>2 DEF Coarser
    <3> QED
      BY <3>2, <3>3
  <2> HIDE DEF G, V, S
  <2> QED
    BY <2>1 DEF Steps
<1>5. PICK it \in [SUBSET S -> V] : Recurses(it, S, a, ch, G)
  <2> HIDE DEF S, V, ch, G
  <2> QED
    BY <1>1, <1>3, <1>4, SubsetRecursion
<1>6. it = Step(it)
  <2> HIDE DEF V
  <2>1. ASSUME NEW s \in SUBSET S
        PROVE  it[s] = IF s = {} THEN a ELSE CoalesceRegion(it[s \ {LastRegion(s)}], LastRegion(s))
    <3>1. it[s \ {LastRegion(s)}] \in V
      OBVIOUS
    <3> QED
      BY <1>5, <3>1 DEF Recurses
  <2> QED
    BY <2>1
<1>7. iter = Step(iter)
  <2> HIDE DEF Step
  <2> QED
    BY <1>6
<1>8. R = iter[S]
  BY DEF InAddressOrder, MapThenFoldSet
<1> HIDE DEF iter
<1>9. \A s \in SUBSET S : iter[s] = IF s = {} THEN a
                                    ELSE CoalesceRegion(iter[s \ {LastRegion(s)}], LastRegion(s))
  BY <1>7
<1> DEFINE T == {s \in SUBSET S : Gathered(a, iter[s], n, s)}
<1>10. {} \in T
  <2>1. iter[{}] = a
    BY <1>9
  <2>2. Gathered(a, a, n, {})
    BY CoarserSelf DEF Gathered
  <2> QED
    BY <2>1, <2>2
<1>11. ASSUME NEW s \in SUBSET S, s # {}, \A x \in s : s \ {x} \in T PROVE s \in T
  <2> PICK x : x = LastRegion(s)
    OBVIOUS
  <2>1. x \in s
    BY <1>2, <1>11
  <2>2. Gathered(a, iter[s \ {x}], n, s \ {x})
    BY <1>11, <2>1
  <2>3. iter[s] = CoalesceRegion(iter[s \ {x}], x)
    BY <1>9, <1>11
  <2>4. Gathered(a, iter[s], n, s)
    BY <2>1, <2>2, <2>3, GatheredFurther
  <2> QED
    BY <2>4
<1>12. SUBSET S \subseteq T
  <2> HIDE DEF S, T
  <2> QED
    BY <1>1, <1>10, <1>11, SubsetInduction
<1>13. Gathered(a, R, n, a.regions)
  <2>1. S \in T
    <3> HIDE DEF S, T
    <3> QED
      BY <1>12
  <2> QED
    BY <1>8, <2>1
<1>14. R \in Arenas(n) /\ Sound(R, n, {}) /\ Coarser(a, R, n)
       /\ \A r \in a.regions : \A k \in InRegion(a, n, r) : Settled(R, k)
  BY <1>13 DEF Gathered
<1>15. ASSUME NEW k \in 1 .. n PROVE Settled(R, k)
  <2>1. SUFFICES ASSUME InList(R, k) PROVE Settled(R, k)
    BY DEF Settled
  <2>2. InList(a, k)
    BY <1>14, <2>1 DEF Coarser
  <2>3. PICK r \in a.regions : Within(a, k, r)
    BY <2>2 DEF Sound, Tiling, Placed
  <2>4. k \in InRegion(a, n, r)
    BY <2>2, <2>3 DEF InRegion
  <2> QED
    BY <1>14, <2>4
<1> QED
  BY <1>14, <1>15 DEF Calm

\* ResetChunksUsingStream keeps the arena sound and the chunks in use.
LEMMA ResetSound ==
  ASSUME NEW n \in Nat, NEW a \in Arenas(n), Sound(a, n, {}), NEW s \in DOMAIN a.streamChunks,
         NEW u, u = Unassigned(a, s), NEW R, R = InAddressOrder(CoalesceRegion, u, u.regions)
  PROVE  R \in Arenas(n) /\ Sound(R, n, {}) /\ Calm(R, n) /\ R.regions = a.regions /\ SameHeld(a, R, n)
<1>1. /\ u \in Arenas(n) /\ SameShape(a, u, n) /\ SameFiling(a, u, n) /\ u.fault = a.fault
      /\ \A h \in 1 .. n : Idle(u, h) <=> Idle(a, h)
  BY UnassignFields
<1> PICK U : U = {}
  OBVIOUS
<1>2. Sound(u, n, U) /\ \A k \in 1 .. n : InList(u, k) <=> InList(a, k)
  <2>1. \A k \in 1 .. n : InList(a, k) => (Idle(u, k) /\ k \notin U <=> Idle(a, k) /\ k \notin U)
    BY <1>1
  <2>2. ~u.fault /\ Sound(a, n, U)
    BY <1>1 DEF Sound
  <2> QED
    BY <1>1, <2>1, <2>2, MarkSound
<1>3. R \in Arenas(n) /\ Sound(R, n, {}) /\ Coarser(u, R, n) /\ Calm(R, n)
  BY <1>1, <1>2, AllCoalesced
<1>4. SameHeld(u, R, n)
  BY <1>3, CoarserHolds
<1>5. SameHeld(a, R, n)
  <2>1. \A k \in 1 .. n : /\ Held(u, k) <=> Held(a, k)
                          /\ PtrOf(u, k) = PtrOf(a, k) /\ SizeOf(u, k) = SizeOf(a, k)
    BY <1>1, <1>2 DEF Held, SameShape
  <2> QED
    BY <1>4, <2>1 DEF SameHeld
<1> QED
  BY <1>1, <1>3, <1>5 DEF Coarser, SameShape

-----------------------------------------------------------------------------

\* What giving a region back does with one of its chunks.
Dropped(b, h) == DeleteChunk(RemoveFreeChunkFromBin(b, h), h)
Drops(f, a, s, len) == f[0] = a /\ \A i \in 1 .. len : f[i] = Dropped(f[i - 1], s[i])

\* Giving a region back is a fold over its walk.
LEMMA ReleaseFold ==
  ASSUME NEW n \in Nat, NEW a \in Arenas(n), NEW r, NEW len \in Nat, NEW s \in [1 .. len -> 1 .. n],
         s = Chain(a, r)
  PROVE  \E f \in [0 .. len -> Arenas(n)] :
            Drops(f, a, s, len) /\ ReleaseRegion(a, r) = [f[len] EXCEPT !.regions = @ \ {r}]
<1> DEFINE S == 1 .. len
           Step(it) == [t \in SUBSET S |-> IF t = {} THEN a ELSE Dropped(it[t \ {Max(t)}], s[Max(t)])]
           iter == CHOOSE it : it = Step(it)
           V == Arenas(n)
           G == [i \in S |-> [v \in V |-> Dropped(v, s[i])]]
<1>1. Transforms(G, S, V)
  <2>1. ASSUME NEW i \in S, NEW v \in V PROVE G[i][v] \in V
    <3>1. G[i][v] = Dropped(v, s[i]) /\ s[i] \in 1 .. n
      OBVIOUS
    <3>2. Dropped(v, s[i]) \in V
      BY <3>1, RemoveFields, DeleteFields DEF Dropped
    <3> QED
      BY <3>1, <3>2
  <2> QED
    BY <2>1 DEF Transforms
<1>2. a \in V
  OBVIOUS
<1>3. PICK it \in [SUBSET S -> V] : Unwinds(it, len, a, G)
  <2> HIDE DEF G, V
  <2> QED
    BY <1>1, <1>2, PrefixRecursion
<1>4. it = Step(it)
  <2> HIDE DEF V
  <2>1. ASSUME NEW t \in SUBSET S
        PROVE  it[t] = IF t = {} THEN a ELSE Dropped(it[t \ {Max(t)}], s[Max(t)])
    <3>1. it[t \ {Max(t)}] \in V
      OBVIOUS
    <3>2. t # {} => Max(t) \in S
      BY GreatestMember
    <3> QED
      BY <1>3, <3>1, <3>2 DEF Unwinds
  <2> QED
    BY <2>1
<1>5. iter = Step(iter)
  <2> HIDE DEF Step
  <2> QED
    BY <1>4
<1>6. ReleaseRegion(a, r) = [iter[S] EXCEPT !.regions = @ \ {r}]
  <2>1. DOMAIN s = 1 .. len
    OBVIOUS
  <2>2. FoldLeft(LAMBDA b, h : DeleteChunk(RemoveFreeChunkFromBin(b, h), h), a, s) = iter[S]
    BY <2>1 DEF FoldLeft, MapThenFoldSet, Dropped
  <2> HIDE DEF iter, S
  <2> QED
    BY <2>2 DEF ReleaseRegion
<1> HIDE DEF iter
<1>7. \E f \in [0 .. len -> V] : Proceeds(f, len, a, G) /\ f[len] = iter[1 .. len]
  <2>1. \A t \in SUBSET (1 .. len) : iter[t] = IF t = {} THEN a ELSE Dropped(iter[t \ {Max(t)}], s[Max(t)])
    BY <1>5
  <2>2. iter[{}] = a
    BY <2>1
  <2>3. ASSUME NEW t \in SUBSET (1 .. len), t # {}, iter[t \ {Max(t)}] \in V
        PROVE  iter[t] = G[Max(t)][iter[t \ {Max(t)}]]
    BY <2>1, <2>3, GreatestMember
  <2>4. Advances(iter, len, V, a, G)
    BY <2>2, <2>3 DEF Advances
  <2> HIDE DEF G, V
  <2> QED
    BY <1>1, <1>2, <2>4, PrefixPath
<1>8. PICK f \in [0 .. len -> V] : Proceeds(f, len, a, G) /\ f[len] = iter[1 .. len]
  BY <1>7
<1>9. \A i \in 1 .. len : f[i] = Dropped(f[i - 1], s[i])
  <2>1. TAKE i \in 1 .. len
  <2>2. f[i - 1] \in V
    <3>1. i - 1 \in 0 .. len
      OBVIOUS
    <3> HIDE DEF V
    <3> QED
      BY <3>1
  <2> QED
    BY <1>8, <2>2 DEF Proceeds
<1> QED
  BY <1>6, <1>8, <1>9 DEF Drops, Proceeds

Same(a, b, k) ==
  /\ PtrOf(b, k) = PtrOf(a, k) /\ SizeOf(b, k) = SizeOf(a, k) /\ BinOf(b, k) = BinOf(a, k)
  /\ NextOf(b, k) = NextOf(a, k) /\ PrevOf(b, k) = PrevOf(a, k)
  /\ StreamOf(b, k) = StreamOf(a, k) /\ (Idle(b, k) <=> Idle(a, k))

\* b is a without the first i chunks of the walk s.
Emptied(a, b, n, s, i) ==
  /\ b \in Arenas(n) /\ b.regions = a.regions /\ Listed(b, n) /\ Filed(b, n, {}) /\ ~b.fault
  /\ \A j \in 1 .. i : PtrOf(b, s[j]) = Null
  /\ \A p \in Addresses : b.handles[p] = IF \E j \in 1 .. i : p = PtrOf(a, s[j]) THEN None ELSE a.handles[p]
  /\ \A k \in 1 .. n : (\A j \in 1 .. i : k # s[j]) => Same(a, b, k)

\* One more chunk of the region dropped.
LEMMA EmptiedFurther ==
  ASSUME NEW n \in Nat, NEW a \in Arenas(n), Sound(a, n, {}), NEW r \in a.regions, NEW len \in Nat, NEW s,
         Meets(a, n, r, s, len), \A k \in InRegion(a, n, r) : Idle(a, k), NEW i \in 1 .. len,
         NEW b, Emptied(a, b, n, s, i - 1), NEW d, d = Dropped(b, s[i])
  PROVE  Emptied(a, d, n, s, i)
<1> PICK h : h = s[i]
  OBVIOUS
<1>1. h \in 1 .. n /\ InList(a, h) /\ Within(a, h, r) /\ Idle(a, h)
  BY DEF Meets, InRegion
<1>2. /\ b \in Arenas(n) /\ b.regions = a.regions /\ Listed(b, n) /\ Filed(b, n, {}) /\ ~b.fault
      /\ \A j \in 1 .. (i - 1) : PtrOf(b, s[j]) = Null
      /\ \A p \in Addresses : b.handles[p] = IF \E j \in 1 .. (i - 1) : p = PtrOf(a, s[j]) THEN None ELSE a.handles[p]
      /\ \A k \in 1 .. n : (\A j \in 1 .. (i - 1) : k # s[j]) => Same(a, b, k)
  BY DEF Emptied
<1>3. PtrOf(a, h) \in Addresses /\ PtrOf(a, h) \in Int /\ SizeOf(a, h) \in Int /\ SizeOf(a, h) > 0
  BY <1>1, TypesOfLinked DEF Sound, Tiling, Known
<1>4. \A j \in 1 .. (i - 1) : s[j] # h
  <2>1. TAKE j \in 1 .. (i - 1)
  <2>2. j \in 1 .. len /\ j < i
    OBVIOUS
  <2>3. PtrOf(a, s[j]) < PtrOf(a, h)
    BY <2>2 DEF Meets
  <2> QED
    BY <1>3, <2>3
<1>5. Same(a, b, h)
  BY <1>1, <1>2, <1>4
<1>6. InList(b, h) /\ Idle(b, h) /\ PtrOf(b, h) = PtrOf(a, h) /\ SizeOf(b, h) \in Nat
  BY <1>1, <1>2, <1>5, FieldTypes DEF Same, InList
<1> PICK bin : bin = BinOf(b, h)
  OBVIOUS
<1>7. bin \in Bins /\ bin # NoBin /\ h \in b.bins[bin]
  <2>1. bin = BinNumForSize(SizeOf(b, h)) /\ bin \in Bins
    BY <1>1, <1>2, <1>6, BinsOfSizes DEF Filed
  <2>2. NoBin \notin Bins
    BY DEF NoBin, Bins
  <2> QED
    BY <1>1, <1>2, <2>1, <2>2 DEF Filed
<1> PICK c : c = RemoveFreeChunkFromBin(b, h)
  OBVIOUS
<1>8. c \in Arenas(n) /\ Removed(b, c, n, h)
  BY <1>1, <1>2, RemoveFields
<1>9. /\ c.regions = b.regions /\ c.freeList = b.freeList /\ c.handles = b.handles /\ ~c.fault
      /\ \A x \in Bins : c.bins[x] = IF x = bin THEN b.bins[x] \ {h} ELSE b.bins[x]
      /\ \A k \in 1 .. n : BinOf(c, k) = IF k = h THEN NoBin ELSE BinOf(b, k)
      /\ \A k \in 1 .. n :
           /\ PtrOf(c, k) = PtrOf(b, k) /\ SizeOf(c, k) = SizeOf(b, k)
           /\ NextOf(c, k) = NextOf(b, k) /\ PrevOf(c, k) = PrevOf(b, k)
           /\ StreamOf(c, k) = StreamOf(b, k) /\ (Idle(c, k) <=> Idle(b, k))
  <2>1. ~c.fault
    BY <1>2, <1>6, <1>7, <1>8 DEF Removed
  <2> QED
    BY <1>8, <2>1 DEF Removed, SameShape, SameUse
<1>10. d \in Arenas(n) /\ Deleted(c, d, n, h)
  BY <1>1, <1>8, DeleteFields DEF Dropped
<1>11. /\ d.regions = c.regions /\ d.bins = c.bins /\ d.freeList = h
       /\ d.handles = [c.handles EXCEPT ![PtrOf(c, h)] = None]
       /\ PtrOf(d, h) = Null /\ NextOf(d, h) = c.freeList /\ BinOf(d, h) = NoBin
       /\ \A k \in 1 .. n : k # h => Same(c, d, k)
       /\ d.fault <=> c.fault \/ RegionOf(c, PtrOf(c, h)) = {}
  BY <1>1, <1>10 DEF Deleted, Same
<1>12. ASSUME NEW k \in 1 .. n, k # h PROVE Same(b, d, k)
  BY <1>9, <1>11, <1>12 DEF Same
<1>13. ~d.fault
  <2>1. r.ptr \in Int /\ r.size \in Int
    BY RegionTypes DEF Sound, Tiling
  <2>2. r \in RegionOf(c, PtrOf(c, h))
    <3>1. r \in c.regions /\ PtrOf(c, h) = PtrOf(a, h)
      BY <1>1, <1>2, <1>6, <1>9
    <3>2. r.ptr <= PtrOf(a, h) /\ PtrOf(a, h) < r.ptr + r.size
      BY <1>1, <1>3, <2>1 DEF Within, EndOf
    <3> QED
      BY <3>1, <3>2 DEF RegionOf
  <2> QED
    BY <1>9, <1>11, <2>2
<1>14. Listed(d, n)
  <2>1. ~InList(d, h) /\ NextOf(d, h) = b.freeList
    BY <1>9, <1>11 DEF InList
  <2>2. \A k \in 1 .. n : k # h => /\ InList(d, k) <=> InList(b, k)
                                   /\ ~InList(b, k) => NextOf(d, k) = NextOf(b, k)
    BY <1>12 DEF Same, InList
  <2> QED
    BY <1>1, <1>2, <1>6, <1>10, <1>11, <2>1, <2>2, ListPushed
<1>15. Filed(d, n, {})
  <2>1. ASSUME NEW k \in 1 .. n
        PROVE  /\ BinOf(d, k) = IF InList(d, k) /\ Idle(d, k) /\ k \notin {} THEN BinNumForSize(SizeOf(d, k)) ELSE NoBin
               /\ \A x \in Bins : k \in d.bins[x] <=> BinOf(d, k) = x
    <3>1. CASE k = h
      <4>1. ~InList(d, k) /\ BinOf(d, k) = NoBin
        BY <1>11, <3>1 DEF InList
      <4>2. NoBin \notin Bins
        BY DEF NoBin, Bins
      <4>3. \A x \in Bins : k \notin d.bins[x]
        <5>1. TAKE x \in Bins
        <5>2. k \in b.bins[x] <=> x = bin
          BY <1>1, <1>2, <3>1 DEF Filed
        <5> QED
          BY <1>9, <1>11, <3>1, <5>2
      <4> QED
        BY <4>1, <4>2, <4>3
    <3>2. CASE k # h
      <4>1. \A x \in Bins : k \in d.bins[x] <=> k \in b.bins[x]
        BY <1>9, <1>11, <3>2
      <4>2. Same(b, d, k)
        BY <1>12, <3>2
      <4>3. /\ BinOf(b, k) = IF InList(b, k) /\ Idle(b, k) /\ k \notin {} THEN BinNumForSize(SizeOf(b, k)) ELSE NoBin
            /\ \A x \in Bins : k \in b.bins[x] <=> BinOf(b, k) = x
        BY <1>2 DEF Filed
      <4> QED
        BY <4>1, <4>2, <4>3 DEF Same, InList
    <3> QED
      BY <3>1, <3>2
  <2> QED
    BY <2>1 DEF Filed
<1>16. \A j \in 1 .. i : PtrOf(d, s[j]) = Null
  <2>1. TAKE j \in 1 .. i
  <2>2. CASE j = i
    BY <1>11, <2>2
  <2>3. CASE j # i
    <3>1. j \in 1 .. (i - 1) /\ j \in 1 .. len
      BY <2>3
    <3>2. s[j] # h /\ s[j] \in 1 .. n /\ PtrOf(b, s[j]) = Null
      BY <1>2, <1>4, <3>1 DEF Meets, InRegion
    <3> QED
      BY <1>12, <3>2 DEF Same
  <2> QED
    BY <2>2, <2>3
<1>17. ASSUME NEW p \in Addresses
       PROVE  d.handles[p] = IF \E j \in 1 .. i : p = PtrOf(a, s[j]) THEN None ELSE a.handles[p]
  <2>1. d.handles[p] = IF p = PtrOf(a, h) THEN None ELSE b.handles[p]
    <3>1. c.handles \in [Addresses -> 0 .. n] /\ PtrOf(c, h) = PtrOf(a, h)
      BY <1>1, <1>6, <1>8, <1>9 DEF Arenas
    <3> QED
      BY <1>9, <1>11, <3>1
  <2>2. b.handles[p] = IF \E j \in 1 .. (i - 1) : p = PtrOf(a, s[j]) THEN None ELSE a.handles[p]
    BY <1>2
  <2>3. (\E j \in 1 .. i : p = PtrOf(a, s[j])) <=> p = PtrOf(a, h) \/ \E j \in 1 .. (i - 1) : p = PtrOf(a, s[j])
    <3>1. \A j : j \in 1 .. i <=> j \in 1 .. (i - 1) \/ j = i
      OBVIOUS
    <3> QED
      BY <3>1
  <2> QED
    BY <2>1, <2>2, <2>3
<1>18. ASSUME NEW k \in 1 .. n, \A j \in 1 .. i : k # s[j] PROVE Same(a, d, k)
  <2>1. k # h /\ \A j \in 1 .. (i - 1) : k # s[j]
    <3>1. i \in 1 .. i /\ \A j \in 1 .. (i - 1) : j \in 1 .. i
      OBVIOUS
    <3> QED
      BY <1>18, <3>1
  <2>2. Same(a, b, k) /\ Same(b, d, k)
    BY <1>2, <1>12, <2>1
  <2> QED
    BY <2>2 DEF Same
<1>19. d.regions = a.regions
  BY <1>2, <1>9, <1>11
<1> QED
  BY <1>10, <1>13, <1>14, <1>15, <1>16, <1>17, <1>18, <1>19 DEF Emptied

\* Giving back a region without used chunks keeps the arena sound.
LEMMA ReleaseSound ==
  ASSUME NEW n \in Nat, NEW a \in Arenas(n), Sound(a, n, {}), NEW r \in a.regions,
         \A k \in InRegion(a, n, r) : Idle(a, k), NEW R, R = ReleaseRegion(a, r)
  PROVE  /\ R \in Arenas(n) /\ Sound(R, n, {}) /\ R.regions = a.regions \ {r}
         /\ \A k \in 1 .. n : InList(R, k) <=> InList(a, k) /\ k \notin InRegion(a, n, r)
         /\ \A k \in 1 .. n : InList(R, k) => Same(a, R, k)
<1> PICK s : s = Chain(a, r)
  OBVIOUS
<1>1. Tiling(a, n) /\ Listed(a, n) /\ Filed(a, n, {}) /\ ~a.fault
  BY DEF Sound
<1>2. PICK len \in 0 .. n : Meets(a, n, r, s, len)
  BY <1>1, ChainMeetsAll
<1>3. s \in [1 .. len -> 1 .. n] /\ len \in Nat
  BY <1>2 DEF Meets, InRegion
<1>4. PICK f \in [0 .. len -> Arenas(n)] : Drops(f, a, s, len) /\ R = [f[len] EXCEPT !.regions = @ \ {r}]
  BY <1>3, ReleaseFold
<1> DEFINE T == {i \in Nat : i <= len => Emptied(a, f[i], n, s, i)}
<1>5. 0 \in T
  <2>1. f[0] = a
    BY <1>4 DEF Drops
  <2>2. Emptied(a, a, n, s, 0)
    BY <1>1 DEF Emptied, Same
  <2> QED
    BY <2>1, <2>2
<1>6. ASSUME NEW i \in T PROVE i + 1 \in T
  <2>1. SUFFICES ASSUME i + 1 <= len PROVE Emptied(a, f[i + 1], n, s, i + 1)
    OBVIOUS
  <2> PICK j : j = i + 1
    OBVIOUS
  <2> PICK b : b = f[i]
    OBVIOUS
  <2>2. j \in 1 .. len /\ j - 1 = i /\ Emptied(a, b, n, s, j - 1)
    BY <1>3, <2>1
  <2>3. f[j] = Dropped(b, s[j])
    BY <1>4, <2>2 DEF Drops
  <2> HIDE DEF T
  <2> QED
    BY <1>2, <1>3, <2>2, <2>3, EmptiedFurther
<1>7. T = Nat
  <2>1. T \subseteq Nat
    OBVIOUS
  <2> HIDE DEF T
  <2> QED
    BY <1>5, <1>6, <2>1, NumberInduction
<1> PICK b : b = f[len]
  OBVIOUS
<1>8. Emptied(a, b, n, s, len)
  <2>1. len \in T
    <3> HIDE DEF T
    <3> QED
      BY <1>3, <1>7
  <2> QED
    BY <1>3, <2>1
<1>9. /\ b \in Arenas(n) /\ b.regions = a.regions /\ Listed(b, n) /\ Filed(b, n, {}) /\ ~b.fault
      /\ \A j \in 1 .. len : PtrOf(b, s[j]) = Null
      /\ \A p \in Addresses : b.handles[p] = IF \E j \in 1 .. len : p = PtrOf(a, s[j]) THEN None ELSE a.handles[p]
      /\ \A k \in 1 .. n : (\A j \in 1 .. len : k # s[j]) => Same(a, b, k)
  BY <1>8 DEF Emptied
<1>10. /\ R \in Arenas(n) /\ R.regions = a.regions \ {r} /\ R.chunks = b.chunks /\ R.handles = b.handles
       /\ R.bins = b.bins /\ R.freeList = b.freeList /\ R.fault = b.fault
  BY <1>4, <1>9 DEF Arenas
<1>11. \A k \in 1 .. n : (\E j \in 1 .. len : k = s[j]) <=> k \in InRegion(a, n, r)
  BY <1>2 DEF Meets
<1>12. \A k \in 1 .. n : /\ k \in InRegion(a, n, r) => PtrOf(R, k) = Null
                         /\ k \notin InRegion(a, n, r) => Same(a, R, k)
  <2>1. \A k \in 1 .. n : Same(b, R, k)
    BY <1>10 DEF Same, PtrOf, SizeOf, BinOf, NextOf, PrevOf, StreamOf, Idle
  <2>2. \A k \in 1 .. n : /\ k \in InRegion(a, n, r) => PtrOf(b, k) = Null
                          /\ k \notin InRegion(a, n, r) => Same(a, b, k)
    BY <1>9, <1>11
  <2> QED
    BY <2>1, <2>2 DEF Same
<1>13. \A k \in 1 .. n : InList(R, k) <=> InList(a, k) /\ k \notin InRegion(a, n, r)
  BY <1>12 DEF InList, Same
<1>14. Withdrawn(a, R, n, r)
  <2>1. ASSUME NEW p \in Addresses
        PROVE  R.handles[p] = IF r.ptr <= p /\ p < r.ptr + r.size THEN None ELSE a.handles[p]
    <3>1. r.ptr \in Int /\ r.size \in Int /\ p \in Int /\ p # Null
      BY <1>1, RegionTypes, NullIsNoAddress DEF Tiling
    <3>2. R.handles[p] = IF \E j \in 1 .. len : p = PtrOf(a, s[j]) THEN None ELSE a.handles[p]
      BY <1>9, <1>10
    <3>3. ASSUME NEW j \in 1 .. len, p = PtrOf(a, s[j]) PROVE r.ptr <= p /\ p < r.ptr + r.size
      <4>1. s[j] \in 1 .. n /\ InList(a, s[j]) /\ Within(a, s[j], r)
        BY <1>2 DEF Meets, InRegion
      <4>2. Inside(a, s[j], r)
        BY <1>1, <4>1, InsideWithin
      <4> QED
        BY <3>3, <4>2 DEF Inside
    <3>4. ASSUME r.ptr <= p, p < r.ptr + r.size, a.handles[p] # None
          PROVE  \E j \in 1 .. len : p = PtrOf(a, s[j])
      <4> PICK k : k = a.handles[p]
        OBVIOUS
      <4>1. k \in 1 .. n /\ PtrOf(a, k) = p
        BY <1>1, <3>4 DEF Tiling, Handled, Arenas, None
      <4>2. InList(a, k) /\ Inside(a, k, r)
        BY <3>1, <3>4, <4>1 DEF InList, Inside
      <4>3. k \in InRegion(a, n, r)
        BY <1>1, <4>1, <4>2, InsideWithin DEF InRegion
      <4> QED
        BY <1>11, <4>1, <4>3
    <3> QED
      BY <3>2, <3>3, <3>4
  <2>2. \A k \in 1 .. n :
          IF ~InList(a, k) \/ Within(a, k, r) THEN PtrOf(R, k) = Null
          ELSE /\ PtrOf(R, k) = PtrOf(a, k) /\ SizeOf(R, k) = SizeOf(a, k)
               /\ NextOf(R, k) = NextOf(a, k) /\ PrevOf(R, k) = PrevOf(a, k)
    BY <1>12 DEF InRegion, InList, Same
  <2> QED
    BY <1>10, <2>1, <2>2 DEF Withdrawn
<1>15. Tiling(R, n)
  BY <1>1, <1>10, <1>14, WithdrawTiles
<1>16. Listed(R, n)
  <2>1. \A k \in 1 .. n : /\ InList(R, k) <=> InList(b, k)
                          /\ ~InList(b, k) => NextOf(R, k) = NextOf(b, k)
    BY <1>10 DEF InList, PtrOf, NextOf
  <2> QED
    BY <1>9, <1>10, <2>1, ListStays
<1>17. Filed(R, n, {})
  BY <1>9, <1>10 DEF Filed, InList, PtrOf, SizeOf, Idle, BinOf
<1>18. Sound(R, n, {})
  BY <1>9, <1>10, <1>15, <1>16, <1>17 DEF Sound
<1> QED
  BY <1>10, <1>12, <1>13, <1>18

\* b is a without the regions of s.
Thinned(a, b, n, s) ==
  /\ b \in Arenas(n) /\ Sound(b, n, {}) /\ b.regions = a.regions \ s
  /\ \A k \in 1 .. n : InList(b, k) <=> InList(a, k) /\ \A r \in s : k \notin InRegion(a, n, r)
  /\ \A k \in 1 .. n : InList(b, k) => Same(a, b, k)

\* One more region given back.
LEMMA ThinnedFurther ==
  ASSUME NEW n \in Nat, NEW a \in Arenas(n), NEW s, s \subseteq a.regions, NEW x \in s,
         \A r \in s : \A k \in InRegion(a, n, r) : Idle(a, k),
         NEW b, Thinned(a, b, n, s \ {x}), NEW c, c = ReleaseRegion(b, x)
  PROVE  Thinned(a, c, n, s)
<1>1. /\ b \in Arenas(n) /\ Sound(b, n, {}) /\ b.regions = a.regions \ (s \ {x}) /\ x \in b.regions
      /\ \A k \in 1 .. n : InList(b, k) <=> InList(a, k) /\ \A r \in s \ {x} : k \notin InRegion(a, n, r)
      /\ \A k \in 1 .. n : InList(b, k) => Same(a, b, k)
  BY DEF Thinned
<1>2. ASSUME NEW k \in 1 .. n, InList(b, k)
      PROVE  /\ k \in InRegion(b, n, x) <=> k \in InRegion(a, n, x)
             /\ Idle(b, k) <=> Idle(a, k)
  BY <1>1, <1>2 DEF InRegion, Same, Within, EndOf
<1>3. \A k \in InRegion(b, n, x) : Idle(b, k)
  <2>1. TAKE k \in InRegion(b, n, x)
  <2>2. k \in 1 .. n /\ InList(b, k)
    BY DEF InRegion
  <2> QED
    BY <1>2, <2>2
<1>4. /\ c \in Arenas(n) /\ Sound(c, n, {}) /\ c.regions = b.regions \ {x}
      /\ \A k \in 1 .. n : InList(c, k) <=> InList(b, k) /\ k \notin InRegion(b, n, x)
      /\ \A k \in 1 .. n : InList(c, k) => Same(b, c, k)
  BY <1>1, <1>3, ReleaseSound
<1>5. c.regions = a.regions \ s
  BY <1>1, <1>4
<1>6. ASSUME NEW k \in 1 .. n
      PROVE  InList(c, k) <=> InList(a, k) /\ \A r \in s : k \notin InRegion(a, n, r)
  <2>1. InList(c, k) <=> InList(b, k) /\ k \notin InRegion(a, n, x)
    BY <1>2, <1>4
  <2> QED
    BY <1>1, <2>1
<1>7. \A k \in 1 .. n : InList(c, k) => Same(a, c, k)
  BY <1>1, <1>4 DEF Same
<1> QED
  BY <1>4, <1>5, <1>6, <1>7 DEF Thinned

\* Giving back a set of idle regions keeps the arena sound and the chunks in
\* use.
LEMMA AllReleased ==
  ASSUME NEW n \in Nat, NEW a \in Arenas(n), Sound(a, n, {}), Calm(a, n), NEW gone, gone \subseteq a.regions,
         \A r \in gone : \A k \in InRegion(a, n, r) : Idle(a, k),
         NEW R, R = InAddressOrder(ReleaseRegion, a, gone)
  PROVE  Thinned(a, R, n, gone) /\ Calm(R, n) /\ SameHeld(a, R, n)
<1> DEFINE S == gone
           Step(it) == [s \in SUBSET S |-> IF s = {} THEN a
                                           ELSE ReleaseRegion(it[s \ {LastRegion(s)}], LastRegion(s))]
           iter == CHOOSE it : it = Step(it)
           V == Arenas(n)
           ch == [s \in SUBSET S |-> LastRegion(s)]
           Ready(v, s) == Thinned(a, v, n, s \ {LastRegion(s)})
           G == [s \in SUBSET S |-> [v \in V |-> IF s # {} /\ Ready(v, s) THEN ReleaseRegion(v, LastRegion(s)) ELSE v]]
<1>1. IsFiniteSet(S) /\ S \subseteq RegionSet
  BY FS_Subset DEF Sound, Tiling, RegionsApart
<1>2. ASSUME NEW s \in SUBSET S, s # {} PROVE LastRegion(s) \in s
  BY <1>1, <1>2, LastOfRegions
<1>3. a \in V /\ Picks(ch, S)
  BY <1>2 DEF Picks
<1>4. ASSUME NEW s \in SUBSET S, NEW v, s # {}, Ready(v, s)
      PROVE  Thinned(a, ReleaseRegion(v, LastRegion(s)), n, s)
  <2> PICK x : x = LastRegion(s)
    OBVIOUS
  <2>1. x \in s /\ s \subseteq a.regions /\ \A r \in s : \A k \in InRegion(a, n, r) : Idle(a, k)
    BY <1>2, <1>4
  <2>2. Thinned(a, v, n, s \ {x})
    BY <1>4
  <2> QED
    BY <2>1, <2>2, ThinnedFurther
<1>5. Steps(G, S, V)
  <2>1. ASSUME NEW s \in SUBSET S, NEW v \in V PROVE G[s][v] \in V
    <3>1. G[s][v] = IF s # {} /\ Ready(v, s) THEN ReleaseRegion(v, LastRegion(s)) ELSE v
      OBVIOUS
    <3>2. s # {} /\ Ready(v, s) => ReleaseRegion(v, LastRegion(s)) \in V
      BY <1>4 DEF Thinned
    <3> HIDE DEF G, V, Ready
    <3> QED
      BY <3>1, <3>2
  <2> HIDE DEF G, V, S
  <2> QED
    BY <2>1 DEF Steps
<1>6. PICK it \in [SUBSET S -> V] : Recurses(it, S, a, ch, G)
  <2> HIDE DEF S, V, ch, G
  <2> QED
    BY <1>1, <1>3, <1>5, SubsetRecursion
<1>7. ASSUME NEW s \in SUBSET S
      PROVE  it[s] = IF s = {} THEN a ELSE IF Ready(it[s \ {LastRegion(s)}], s)
                     THEN ReleaseRegion(it[s \ {LastRegion(s)}], LastRegion(s)) ELSE it[s \ {LastRegion(s)}]
  <2> HIDE DEF V, Ready
  <2>1. it[s \ {LastRegion(s)}] \in V
    OBVIOUS
  <2> QED
    BY <1>6, <2>1 DEF Recurses
<1>8. Thinned(a, a, n, {})
  BY DEF Thinned, Same
<1> DEFINE T == {s \in SUBSET S : Thinned(a, it[s], n, s)}
<1>9. SUBSET S \subseteq T
  <2>1. {} \in T
    <3>1. it[{}] = a
      <4> HIDE DEF Ready, V, ch, G
      <4> QED
        BY <1>7
    <3> QED
      BY <1>8, <3>1
  <2>2. ASSUME NEW s \in SUBSET S, s # {}, \A x \in s : s \ {x} \in T PROVE s \in T
    <3>1. Ready(it[s \ {LastRegion(s)}], s)
      <4>1. LastRegion(s) \in s
        BY <1>2, <2>2
      <4> QED
        BY <2>2, <4>1
    <3>2. it[s] = ReleaseRegion(it[s \ {LastRegion(s)}], LastRegion(s))
      <4> HIDE DEF Ready
      <4> QED
        BY <1>7, <2>2, <3>1
    <3> QED
      BY <1>4, <2>2, <3>1, <3>2
  <2> HIDE DEF S, T
  <2> QED
    BY <1>1, <2>1, <2>2, SubsetInduction
<1>10. it = Step(it)
  <2>1. ASSUME NEW s \in SUBSET S
        PROVE  it[s] = IF s = {} THEN a ELSE ReleaseRegion(it[s \ {LastRegion(s)}], LastRegion(s))
    <3>1. s # {} => Ready(it[s \ {LastRegion(s)}], s)
      <4>1. s \ {LastRegion(s)} \in SUBSET S
        OBVIOUS
      <4>2. s \ {LastRegion(s)} \in T
        <5> HIDE DEF T
        <5> QED
          BY <1>9, <4>1
      <4> QED
        BY <4>2
    <3> HIDE DEF Ready
    <3> QED
      BY <1>7, <3>1
  <2> HIDE DEF V, G, ch, Ready, T
  <2> QED
    BY <2>1
<1>11. iter = Step(iter)
  <2> HIDE DEF Step
  <2> QED
    BY <1>10
<1>12. R = iter[S]
  BY DEF InAddressOrder, MapThenFoldSet
<1> HIDE DEF iter, T
<1>13. \A s \in SUBSET S : iter[s] = IF s = {} THEN a
                                     ELSE ReleaseRegion(iter[s \ {LastRegion(s)}], LastRegion(s))
  BY <1>11
<1> DEFINE U == {s \in SUBSET S : Thinned(a, iter[s], n, s)}
<1>14. SUBSET S \subseteq U
  <2>1. {} \in U
    <3>1. iter[{}] = a
      BY <1>13
    <3> QED
      BY <1>8, <3>1
  <2>2. ASSUME NEW s \in SUBSET S, s # {}, \A x \in s : s \ {x} \in U PROVE s \in U
    <3>1. Ready(iter[s \ {LastRegion(s)}], s)
      <4>1. LastRegion(s) \in s
        BY <1>2, <2>2
      <4> QED
        BY <2>2, <4>1
    <3>2. iter[s] = ReleaseRegion(iter[s \ {LastRegion(s)}], LastRegion(s))
      BY <1>13, <2>2
    <3> QED
      BY <1>4, <2>2, <3>1, <3>2
  <2> HIDE DEF S, U
  <2> QED
    BY <1>1, <2>1, <2>2, SubsetInduction
<1>15. Thinned(a, R, n, gone)
  <2>1. S \in U
    <3> HIDE DEF S, U
    <3> QED
      BY <1>14
  <2> QED
    BY <1>12, <2>1
<1> HIDE DEF S, U
<1>16. /\ R \in Arenas(n) /\ Sound(R, n, {})
       /\ \A k \in 1 .. n : InList(R, k) <=> InList(a, k) /\ \A r \in gone : k \notin InRegion(a, n, r)
       /\ \A k \in 1 .. n : InList(R, k) => Same(a, R, k)
  BY <1>15 DEF Thinned
<1>17. ASSUME NEW k \in 1 .. n PROVE Settled(R, k)
  <2>1. SUFFICES ASSUME InList(R, k), Idle(R, k), NextOf(R, k) # None PROVE ~Joinable(R, k, NextOf(R, k))
    BY DEF Settled, Joinable
  <2> PICK x : x = NextOf(R, k)
    OBVIOUS
  <2>2. x \in 1 .. n /\ InList(R, x)
    BY <1>16, <2>1, Neighbours DEF Sound
  <2>3. Same(a, R, k) /\ Same(a, R, x) /\ InList(a, k)
    BY <1>16, <2>1, <2>2
  <2>4. ~Joinable(a, k, x)
    BY <2>1, <2>3 DEF Calm, Settled, Same
  <2> QED
    BY <2>3, <2>4 DEF Joinable, Same
<1>18. ASSUME NEW k \in 1 .. n
       PROVE  /\ Held(R, k) <=> Held(a, k)
              /\ Held(a, k) => PtrOf(R, k) = PtrOf(a, k) /\ SizeOf(R, k) = SizeOf(a, k)
  <2>1. InList(a, k) /\ ~Idle(a, k) => InList(R, k)
    BY <1>16
  <2> QED
    BY <1>16, <2>1 DEF Held, Same
<1> QED
  BY <1>15, <1>17, <1>18 DEF Calm, SameHeld
=============================================================================
