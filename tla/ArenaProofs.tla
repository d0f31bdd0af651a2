---------------------------- MODULE ArenaProofs ----------------------------
(***************************************************************************)
(* Proofs about the arena: its invariant MemoryInv, which says that a sound *)
(* arena, the device's blocks, the reservations and the clients' live       *)
(* memory fit together, holds throughout, and from it the properties of     *)
(* ArenaProperties follow.  Effects sums up what the steps do, as seen from *)
(* the device, the clients and the statistics.                              *)
(***************************************************************************)
EXTENDS ChunkProofs

\* g is f with p mapped to v, or without the domain members in S.
Gains(f, g, p, v) ==
  DOMAIN g = DOMAIN f \cup {p} /\ g[p] = v /\ \A q \in DOMAIN f : q # p => g[q] = f[q]
Loses(f, g, S) == DOMAIN g = DOMAIN f \ S /\ \A q \in DOMAIN g : g[q] = f[q]
Numbered(f) == f = [x \in DOMAIN f |-> f[x]] /\ \A x \in DOMAIN f : f[x] \in Nat

\* Binding a key changes the map there only.
LEMMA MapsGain ==
  ASSUME NEW f, NEW p, NEW v \in Nat, NEW g, g = Bind(f, p, v), Numbered(f)
  PROVE  Gains(f, g, p, v) /\ Numbered(g)
<1>1. DOMAIN g = {p} \cup DOMAIN f
  BY DEF Bind
<1>2. \A x \in DOMAIN g : g[x] = IF x = p THEN v ELSE f[x]
  BY DEF Bind
<1>3. g = [x \in DOMAIN g |-> g[x]]
  BY DEF Bind
<1> QED
  BY <1>1, <1>2, <1>3 DEF Gains, Numbered

\* Restricting a map takes keys out and changes no other.
LEMMA MapsLose ==
  ASSUME NEW f, Numbered(f), NEW S, NEW g, g = Restrict(f, DOMAIN f \ S)
  PROVE  Loses(f, g, S) /\ Numbered(g)
<1>1. DOMAIN g = DOMAIN f \ S /\ g = [x \in DOMAIN g |-> g[x]]
  BY DEF Restrict
<1>2. \A q \in DOMAIN g : g[q] = f[q]
  BY DEF Restrict
<1> QED
  BY <1>1, <1>2 DEF Loses, Numbered

\* The empty map has no keys.
LEMMA NoMap == Numbered(<<>>) /\ DOMAIN <<>> = {}
<1>1. <<>> \in [1 .. 0 -> Nat]
  BY IsASeq, LenProperties, EmptySeq
<1>2. 1 .. 0 = {}
  OBVIOUS
<1> QED
  BY <1>1, <1>2 DEF Numbered

\* The arena's own structures; the other variables; the blocks of the device;
\* the arena's claim to them; the clients' claims.
Shaped(a, n) == a \in Arenas(n) /\ Sound(a, n, {}) /\ Calm(a, n)
Counters ==
  /\ curr_region_allocation_bytes \in Nat \ {0}
  /\ stats \in [total : Int, inUse : Int, extensions : Int]
  /\ ClockTypes
Blocks(d) ==
  /\ Numbered(d) /\ DOMAIN d \subseteq Addresses
  /\ \A p \in DOMAIN d : d[p] > 0 /\ p + d[p] <= DeviceBytes
  /\ \A p, q \in DOMAIN d : p < q => p + d[p] <= q
Owned(R, d, v) ==
  /\ \A r \in R : r.ptr \in DOMAIN d /\ d[r.ptr] = r.size /\ r.ptr \notin DOMAIN v
  /\ Numbered(v) /\ \A p \in DOMAIN v : p # Null => p \in DOMAIN d /\ d[p] = v[p]
Holdings(a, n, v, l) ==
  /\ Numbered(l) /\ DOMAIN l \subseteq Addresses
  /\ \A k \in 1 .. n : Held(a, k) => PtrOf(a, k) \in DOMAIN l /\ l[PtrOf(a, k)] <= SizeOf(a, k)
  /\ \A p \in DOMAIN v : p # Null => p \in DOMAIN l /\ l[p] = v[p]
  /\ \A p \in DOMAIN l : p \in DOMAIN v \/ \E k \in 1 .. n : Held(a, k) /\ PtrOf(a, k) = p
MemoryAt(n) ==
  /\ Shaped(arena, n) /\ Blocks(device) /\ Owned(arena.regions, device, reserved)
  /\ Holdings(arena, n, reserved, live)

\* The device has finitely many addresses.
LEMMA AddressesFinite == IsFiniteSet(Addresses) /\ Addresses \subseteq Nat
<1>1. DeviceBytes \in Nat
  BY ArenaConstants
<1>2. IsFiniteSet(0 .. DeviceBytes)
  BY <1>1, FS_Interval
<1>3. Addresses \subseteq 0 .. DeviceBytes
  BY <1>1 DEF Addresses
<1>4. IsFiniteSet(Addresses)
  BY <1>2, <1>3, FS_Subset
<1>5. 0 .. DeviceBytes \subseteq Nat
  OBVIOUS
<1> QED
  BY <1>3, <1>4, <1>5

\* A chunk of a region is in no reservation.
LEMMA ChunksApartFromReserved ==
  ASSUME NEW n \in Nat, NEW a \in Arenas(n), Tiling(a, n), NEW d, NEW v, Blocks(d), Owned(a.regions, d, v),
         NEW k \in 1 .. n, InList(a, k)
  PROVE  /\ PtrOf(a, k) \notin DOMAIN v
         /\ \E q \in DOMAIN d : q <= PtrOf(a, k) /\ EndOf(a, k) <= q + d[q] /\ q \notin DOMAIN v
<1>1. PICK r \in a.regions : Within(a, k, r)
  BY DEF Tiling, Placed
<1>2. /\ PtrOf(a, k) \in Int /\ SizeOf(a, k) \in Int /\ SizeOf(a, k) > 0 /\ PtrOf(a, k) # Null
      /\ PtrOf(a, k) \in Addresses
  BY TypesOfLinked, NullIsNoAddress DEF Tiling, Known
<1>3. r.ptr \in DOMAIN d /\ d[r.ptr] = r.size /\ r.ptr \notin DOMAIN v
  BY DEF Owned
<1>4. r.ptr \in Int /\ r.size \in Int
  BY RegionTypes DEF Tiling
<1>5. r.ptr <= PtrOf(a, k) /\ PtrOf(a, k) + SizeOf(a, k) <= r.ptr + r.size
  BY <1>1 DEF Within, EndOf
<1>6. PtrOf(a, k) \notin DOMAIN v
  <2> SUFFICES ASSUME PtrOf(a, k) \in DOMAIN v PROVE FALSE
    OBVIOUS
  <2>1. PtrOf(a, k) \in DOMAIN d
    BY <1>2 DEF Owned
  <2>2. r.ptr # PtrOf(a, k)
    BY <1>3
  <2>3. r.ptr < PtrOf(a, k)
    BY <1>2, <1>4, <1>5, <2>2
  <2>4. r.ptr + d[r.ptr] <= PtrOf(a, k)
    BY <1>3, <2>1, <2>3 DEF Blocks
  <2> QED
    BY <1>2, <1>3, <1>4, <1>5, <2>4
<1> QED
  BY <1>3, <1>5, <1>6 DEF EndOf

\* What the device hands out lies apart from what it has handed out before.
LEMMA BlocksGain ==
  ASSUME NEW d, Blocks(d), NEW p \in Addresses, NEW bytes \in Nat \ {0}, p + bytes <= DeviceBytes,
         \A q \in DOMAIN d : p + bytes <= q \/ q + d[q] <= p, NEW e, e = Bind(d, p, bytes)
  PROVE  Blocks(e) /\ Gains(d, e, p, bytes) /\ p \notin DOMAIN d
<1>1. Gains(d, e, p, bytes) /\ Numbered(e)
  BY MapsGain DEF Blocks
<1>2. \A q \in DOMAIN d : q \in Int /\ d[q] \in Int /\ d[q] > 0 /\ q + d[q] <= DeviceBytes
  BY NullIsNoAddress DEF Blocks, Numbered
<1>3. p \in Int /\ p \notin DOMAIN d
  BY <1>2, NullIsNoAddress
<1>4. \A q \in DOMAIN e : e[q] > 0 /\ q + e[q] <= DeviceBytes
  BY <1>1, <1>2 DEF Gains
<1>5. ASSUME NEW x \in DOMAIN e, NEW y \in DOMAIN e, x < y PROVE x + e[x] <= y
  <2>1. CASE x = p
    <3>1. y \in DOMAIN d /\ e[x] = bytes
      BY <1>1, <1>5, <2>1, <1>3 DEF Gains
    <3>2. p + bytes <= y \/ y + d[y] <= p
      BY <3>1
    <3> QED
      BY <3>1, <3>2, <1>2, <1>3, <1>5, <2>1
  <2>2. CASE x # p /\ y = p
    <3>1. x \in DOMAIN d /\ e[x] = d[x]
      BY <1>1, <2>2 DEF Gains
    <3>2. p + bytes <= x \/ x + d[x] <= p
      BY <3>1
    <3> QED
      BY <3>1, <3>2, <1>2, <1>3, <1>5, <2>2
  <2>3. CASE x # p /\ y # p
    <3>1. x \in DOMAIN d /\ y \in DOMAIN d /\ e[x] = d[x]
      BY <1>1, <2>3 DEF Gains
    <3> QED
      BY <3>1, <1>5 DEF Blocks
  <2> QED
    BY <2>1, <2>2, <2>3
<1>6. DOMAIN e \subseteq Addresses
  BY <1>1 DEF Gains, Blocks
<1> QED
  BY <1>1, <1>3, <1>4, <1>5, <1>6 DEF Blocks

\* Blocks given back leave the others as they were.
LEMMA BlocksLose ==
  ASSUME NEW d, Blocks(d), NEW S, NEW e, e = Restrict(d, DOMAIN d \ S)
  PROVE  Blocks(e) /\ Loses(d, e, S)
<1>1. Loses(d, e, S) /\ Numbered(e)
  BY MapsLose DEF Blocks
<1> QED
  BY <1>1 DEF Blocks, Loses

\* Two chunks of regions have different addresses.
LEMMA ChunksDiffer ==
  ASSUME NEW n \in Nat, NEW a \in Arenas(n), Tiling(a, n), NEW h \in 1 .. n, NEW k \in 1 .. n,
         InList(a, h), InList(a, k), PtrOf(a, h) = PtrOf(a, k)
  PROVE  h = k
BY DEF Tiling, Known

\* The chunk h, free before, goes to the client who asked for bytes.
LEMMA TakenHoldings ==
  ASSUME NEW n \in Nat, NEW a, NEW N \in Nat, NEW R, NEW h \in 1 .. N, NEW rounded, Taken(a, R, n, N, h, rounded),
         NEW v, NEW l, Holdings(a, n, v, l), PtrOf(a, h) \notin DOMAIN v, NEW bytes \in Nat, bytes <= rounded,
         rounded \in Nat, h \in 1 .. n => ~Held(a, h), NEW m, m = Bind(l, PtrOf(a, h), bytes)
  PROVE  Holdings(R, N, v, m) /\ Gains(l, m, PtrOf(a, h), bytes) /\ PtrOf(a, h) \notin DOMAIN l
<1> PICK p : p = PtrOf(a, h)
  OBVIOUS
<1>1. /\ R \in Arenas(N) /\ Tiling(R, N) /\ Held(R, h) /\ PtrOf(R, h) = p /\ rounded <= SizeOf(R, h)
      /\ \A k \in 1 .. N : k # h => (Held(R, k) <=> k \in 1 .. n /\ Held(a, k))
      /\ \A k \in 1 .. n : Held(a, k) => PtrOf(R, k) = PtrOf(a, k) /\ SizeOf(R, k) = SizeOf(a, k)
      /\ n <= N
  BY DEF Taken, Sound
<1>2. Gains(l, m, p, bytes) /\ Numbered(m)
  BY MapsGain DEF Holdings
<1>3. p \in Addresses
  BY <1>1, TypesOfLinked DEF Held
<1>4. ASSUME NEW k \in 1 .. n, Held(a, k) PROVE PtrOf(a, k) # p /\ k \in 1 .. N /\ Held(R, k) /\ k # h
  <2>1. k # h /\ k \in 1 .. N
    BY <1>4, <1>1
  <2>2. Held(R, k) /\ PtrOf(R, k) = PtrOf(a, k)
    BY <2>1, <1>1, <1>4
  <2> QED
    BY <2>1, <2>2, <1>1, ChunksDiffer DEF Held
<1>5. p \notin DOMAIN l
  BY <1>4 DEF Holdings
<1>6. \A q \in DOMAIN l : q \in DOMAIN m /\ m[q] = l[q]
  BY <1>2, <1>5 DEF Gains
<1>7. ASSUME NEW k \in 1 .. N, Held(R, k) PROVE PtrOf(R, k) \in DOMAIN m /\ m[PtrOf(R, k)] <= SizeOf(R, k)
  <2>1. CASE k = h
    <3>1. SizeOf(R, h) \in Nat
      BY <1>1, FieldTypes
    <3> QED
      BY <1>1, <1>2, <2>1, <3>1 DEF Gains
  <2>2. CASE k # h
    <3>1. k \in 1 .. n /\ Held(a, k)
      BY <1>1, <1>7, <2>2
    <3>2. PtrOf(a, k) \in DOMAIN l /\ l[PtrOf(a, k)] <= SizeOf(a, k)
      BY <3>1 DEF Holdings
    <3> QED
      BY <1>1, <1>6, <3>1, <3>2
  <2> QED
    BY <2>1, <2>2
<1>8. \A q \in DOMAIN v : q # Null => q \in DOMAIN m /\ m[q] = v[q]
  BY <1>6 DEF Holdings
<1>9. ASSUME NEW q \in DOMAIN m PROVE q \in DOMAIN v \/ \E k \in 1 .. N : Held(R, k) /\ PtrOf(R, k) = q
  <2>1. CASE q = p
    BY <1>1, <2>1
  <2>2. CASE q # p
    <3>1. q \in DOMAIN l
      BY <1>2, <2>2 DEF Gains
    <3>2. q \in DOMAIN v \/ \E k \in 1 .. n : Held(a, k) /\ PtrOf(a, k) = q
      BY <3>1 DEF Holdings
    <3> QED
      BY <1>1, <1>4, <3>2
  <2> QED
    BY <2>1, <2>2
<1>10. DOMAIN m \subseteq Addresses
  BY <1>2, <1>3 DEF Gains, Holdings
<1> QED
  BY <1>2, <1>5, <1>7, <1>8, <1>9, <1>10 DEF Holdings

\* The chunk h comes back from its client.
LEMMA FreedHoldings ==
  ASSUME NEW n \in Nat, NEW a \in Arenas(n), Tiling(a, n), NEW R, NEW h \in 1 .. n, Held(a, h),
         \A k \in 1 .. n : /\ Held(R, k) <=> Held(a, k) /\ k # h
                           /\ Held(R, k) => PtrOf(R, k) = PtrOf(a, k) /\ SizeOf(R, k) = SizeOf(a, k),
         NEW v, NEW l, Holdings(a, n, v, l), PtrOf(a, h) \notin DOMAIN v,
         NEW m, m = Restrict(l, DOMAIN l \ {PtrOf(a, h)})
  PROVE  Holdings(R, n, v, m) /\ Loses(l, m, {PtrOf(a, h)}) /\ PtrOf(a, h) \in DOMAIN l
<1> PICK p : p = PtrOf(a, h)
  OBVIOUS
<1>1. Loses(l, m, {p}) /\ Numbered(m)
  BY MapsLose DEF Holdings
<1>2. \A q \in DOMAIN l : q # p => q \in DOMAIN m /\ m[q] = l[q]
  BY <1>1 DEF Loses
<1>3. \A k \in 1 .. n : Held(a, k) /\ k # h => PtrOf(a, k) # p
  BY ChunksDiffer DEF Held
<1>4. ASSUME NEW k \in 1 .. n, Held(R, k) PROVE PtrOf(R, k) \in DOMAIN m /\ m[PtrOf(R, k)] <= SizeOf(R, k)
  <2>1. Held(a, k) /\ k # h /\ PtrOf(R, k) = PtrOf(a, k) /\ SizeOf(R, k) = SizeOf(a, k)
    BY <1>4
  <2>2. PtrOf(a, k) \in DOMAIN l /\ l[PtrOf(a, k)] <= SizeOf(a, k)
    BY <2>1 DEF Holdings
  <2> QED
    BY <1>2, <1>3, <2>1, <2>2
<1>5. \A q \in DOMAIN v : q # Null => q \in DOMAIN m /\ m[q] = v[q]
  BY <1>2 DEF Holdings
<1>6. ASSUME NEW q \in DOMAIN m PROVE q \in DOMAIN v \/ \E k \in 1 .. n : Held(R, k) /\ PtrOf(R, k) = q
  <2>1. q \in DOMAIN l /\ q # p
    BY <1>1 DEF Loses
  <2>2. q \in DOMAIN v \/ \E k \in 1 .. n : Held(a, k) /\ PtrOf(a, k) = q
    BY <2>1 DEF Holdings
  <2> QED
    BY <2>1, <2>2
<1>7. DOMAIN m \subseteq Addresses /\ p \in DOMAIN l
  BY <1>1 DEF Loses, Holdings
<1> QED
  BY <1>1, <1>4, <1>5, <1>6, <1>7 DEF Holdings

\* The clients' claims hold on while the chunks in use stay.
LEMMA SameHoldings ==
  ASSUME NEW n \in Nat, NEW a, NEW R, SameHeld(a, R, n), NEW v, NEW l, Holdings(a, n, v, l)
  PROVE  Holdings(R, n, v, l)
<1>1. \A k \in 1 .. n : /\ Held(R, k) <=> Held(a, k)
                        /\ Held(a, k) => PtrOf(R, k) = PtrOf(a, k) /\ SizeOf(R, k) = SizeOf(a, k)
  BY DEF SameHeld
<1>2. \A k \in 1 .. n : Held(R, k) => PtrOf(R, k) \in DOMAIN l /\ l[PtrOf(R, k)] <= SizeOf(R, k)
  BY <1>1 DEF Holdings
<1>3. \A p \in DOMAIN l : p \in DOMAIN v \/ \E k \in 1 .. n : Held(R, k) /\ PtrOf(R, k) = p
  BY <1>1 DEF Holdings
<1> QED
  BY <1>2, <1>3 DEF Holdings

\* A reservation is a block of its own, apart from every region.
LEMMA ReserveMemory ==
  ASSUME NEW n \in Nat, NEW a \in Arenas(n), Tiling(a, n), NEW d, NEW v, NEW l, Blocks(d), Owned(a.regions, d, v),
         Holdings(a, n, v, l), NEW p \in Addresses, NEW bytes \in Nat \ {0}, p + bytes <= DeviceBytes,
         \A q \in DOMAIN d : p + bytes <= q \/ q + d[q] <= p,
         NEW e, e = Bind(d, p, bytes), NEW w, w = Bind(v, p, bytes), NEW m, m = Bind(l, p, bytes)
  PROVE  /\ Blocks(e) /\ Owned(a.regions, e, w) /\ Holdings(a, n, w, m)
         /\ Gains(d, e, p, bytes) /\ Gains(v, w, p, bytes) /\ Gains(l, m, p, bytes)
         /\ p \notin DOMAIN d /\ p \notin DOMAIN v /\ p \notin DOMAIN l
<1>1. Blocks(e) /\ Gains(d, e, p, bytes) /\ p \notin DOMAIN d
  BY BlocksGain
<1>2. Gains(v, w, p, bytes) /\ Numbered(w)
  BY MapsGain DEF Owned
<1>3. Gains(l, m, p, bytes) /\ Numbered(m)
  BY MapsGain DEF Holdings
<1>4. p # Null /\ p \in Int
  BY NullIsNoAddress
<1>5. p \notin DOMAIN v
  BY <1>1, <1>4 DEF Owned
<1>6. \A k \in 1 .. n : Held(a, k) => PtrOf(a, k) # p
  <2> SUFFICES ASSUME NEW k \in 1 .. n, Held(a, k), PtrOf(a, k) = p PROVE FALSE
    OBVIOUS
  <2>1. PICK q \in DOMAIN d : q <= p /\ EndOf(a, k) <= q + d[q]
    BY ChunksApartFromReserved DEF Held
  <2>2. EndOf(a, k) = p + SizeOf(a, k) /\ SizeOf(a, k) > 0 /\ SizeOf(a, k) \in Int
    BY TypesOfLinked DEF Held, EndOf, Tiling, Known
  <2>3. q \in Int /\ d[q] \in Int
    BY NullIsNoAddress DEF Blocks, Numbered
  <2>4. p + bytes <= q \/ q + d[q] <= p
    OBVIOUS
  <2> QED
    BY <1>4, <2>1, <2>2, <2>3, <2>4
<1>7. p \notin DOMAIN l
  BY <1>5, <1>6 DEF Holdings
<1>8. Owned(a.regions, e, w)
  <2>1. ASSUME NEW r \in a.regions PROVE r.ptr \in DOMAIN e /\ e[r.ptr] = r.size /\ r.ptr \notin DOMAIN w
    <3>1. r.ptr \in DOMAIN d /\ d[r.ptr] = r.size /\ r.ptr \notin DOMAIN v
      BY DEF Owned
    <3>2. r.ptr # p
      BY <1>1, <3>1
    <3> QED
      BY <1>1, <1>2, <3>1, <3>2 DEF Gains
  <2>2. ASSUME NEW q \in DOMAIN w, q # Null PROVE q \in DOMAIN e /\ e[q] = w[q]
    <3>1. CASE q = p
      BY <1>1, <1>2, <3>1 DEF Gains
    <3>2. CASE q # p
      <4>1. q \in DOMAIN v /\ w[q] = v[q]
        BY <1>2, <3>2 DEF Gains
      <4>2. q \in DOMAIN d /\ d[q] = v[q]
        BY <4>1, <2>2 DEF Owned
      <4> QED
        BY <1>1, <3>2, <4>1, <4>2 DEF Gains
    <3> QED
      BY <3>1, <3>2
  <2> QED
    BY <1>2, <2>1, <2>2 DEF Owned
<1>9. Holdings(a, n, w, m)
  <2>1. \A q \in DOMAIN l : q \in DOMAIN m /\ m[q] = l[q]
    BY <1>3, <1>7 DEF Gains
  <2>2. \A k \in 1 .. n : Held(a, k) => PtrOf(a, k) \in DOMAIN m /\ m[PtrOf(a, k)] <= SizeOf(a, k)
    BY <2>1 DEF Holdings
  <2>3. \A q \in DOMAIN w : q # Null => q \in DOMAIN m /\ m[q] = w[q]
    BY <2>1, <1>2, <1>3 DEF Holdings, Gains
  <2>4. \A q \in DOMAIN m : q \in DOMAIN w \/ \E k \in 1 .. n : Held(a, k) /\ PtrOf(a, k) = q
    BY <1>2, <1>3 DEF Holdings, Gains
  <2>5. DOMAIN m \subseteq Addresses
    BY <1>3 DEF Gains, Holdings
  <2> QED
    BY <1>3, <2>2, <2>3, <2>4, <2>5 DEF Holdings
<1> QED
  BY <1>1, <1>2, <1>3, <1>5, <1>7, <1>8, <1>9

\* Reserve of more than the device's cap returns nullptr and records it.
LEMMA ReserveNothing ==
  ASSUME NEW n \in Nat, NEW a, NEW d, NEW v, NEW l, Owned(a.regions, d, v), a \in Arenas(n), Tiling(a, n),
         Holdings(a, n, v, l), NEW bytes \in Nat, NEW w, w = Bind(v, Null, bytes)
  PROVE  Owned(a.regions, d, w) /\ Holdings(a, n, w, l) /\ Gains(v, w, Null, bytes)
<1>1. Gains(v, w, Null, bytes) /\ Numbered(w)
  BY MapsGain DEF Owned
<1>2. \A r \in a.regions : r.ptr # Null
  BY NullIsNoAddress, RegionTypes DEF Tiling
<1>3. Owned(a.regions, d, w)
  BY <1>1, <1>2 DEF Owned, Gains
<1>4. Holdings(a, n, w, l)
  <2>1. \A q \in DOMAIN w : q # Null => q \in DOMAIN l /\ l[q] = w[q]
    BY <1>1 DEF Holdings, Gains
  <2>2. \A q \in DOMAIN l : q \in DOMAIN w \/ \E k \in 1 .. n : Held(a, k) /\ PtrOf(a, k) = q
    BY <1>1 DEF Holdings, Gains
  <2> QED
    BY <2>1, <2>2 DEF Holdings
<1> QED
  BY <1>1, <1>3, <1>4

\* A reservation that ends leaves the regions' blocks alone.
LEMMA FreeReservedMemory ==
  ASSUME NEW n \in Nat, NEW a \in Arenas(n), Tiling(a, n), NEW d, NEW v, NEW l, Blocks(d), Owned(a.regions, d, v),
         Holdings(a, n, v, l), NEW p, p \in DOMAIN v, p # Null, NEW S, S = {p}, NEW e, Loses(d, e, S), Blocks(e),
         NEW w, Loses(v, w, S), Numbered(w), NEW m, Loses(l, m, S), Numbered(m)
  PROVE  /\ Owned(a.regions, e, w) /\ Holdings(a, n, w, m)
         /\ p \in DOMAIN d /\ d[p] = v[p] /\ p \in DOMAIN l
<1>1. Blocks(e) /\ Loses(d, e, {p})
  OBVIOUS
<1>2. Loses(v, w, {p}) /\ Numbered(w)
  OBVIOUS
<1>3. Loses(l, m, {p}) /\ Numbered(m)
  OBVIOUS
<1>4. p \in DOMAIN d /\ d[p] = v[p] /\ p \in DOMAIN l
  BY DEF Owned, Holdings
<1>5. \A k \in 1 .. n : Held(a, k) => PtrOf(a, k) # p
  <2>1. \A k \in 1 .. n : InList(a, k) => PtrOf(a, k) \notin DOMAIN v
    BY ChunksApartFromReserved
  <2> QED
    BY <2>1 DEF Held
<1>6. Owned(a.regions, e, w)
  <2>1. ASSUME NEW r \in a.regions PROVE r.ptr \in DOMAIN e /\ e[r.ptr] = r.size /\ r.ptr \notin DOMAIN w
    <3>1. r.ptr \in DOMAIN d /\ d[r.ptr] = r.size /\ r.ptr \notin DOMAIN v
      BY DEF Owned
    <3> QED
      BY <1>1, <1>2, <3>1 DEF Loses
  <2>2. \A q \in DOMAIN w : q # Null => q \in DOMAIN e /\ e[q] = w[q]
    BY <1>1, <1>2 DEF Owned, Loses
  <2> QED
    BY <1>2, <2>1, <2>2 DEF Owned
<1>7. Holdings(a, n, w, m)
  <2>1. \A q \in DOMAIN l : q # p => q \in DOMAIN m /\ m[q] = l[q]
    BY <1>3 DEF Loses
  <2>2. \A k \in 1 .. n : Held(a, k) => PtrOf(a, k) \in DOMAIN m /\ m[PtrOf(a, k)] <= SizeOf(a, k)
    BY <1>5, <2>1 DEF Holdings
  <2>3. \A q \in DOMAIN w : q # Null => q \in DOMAIN m /\ m[q] = w[q]
    BY <2>1, <1>2, <1>3 DEF Holdings, Loses
  <2>4. \A q \in DOMAIN m : q \in DOMAIN w \/ \E k \in 1 .. n : Held(a, k) /\ PtrOf(a, k) = q
    BY <1>2, <1>3 DEF Holdings, Loses
  <2>5. DOMAIN m \subseteq Addresses
    BY <1>3 DEF Loses, Holdings
  <2> QED
    BY <1>3, <2>2, <2>3, <2>4, <2>5 DEF Holdings
<1> QED
  BY <1>1, <1>2, <1>3, <1>4, <1>6, <1>7

\* Extend: the new block is a region, or an AllocationRegion refused it.
LEMMA ExtendMemory ==
  ASSUME NEW R, RegionsApart(R), NEW d, NEW v, Blocks(d), Owned(R, d, v), NEW p \in Addresses,
         NEW bytes \in Nat \ {0}, p + bytes <= DeviceBytes, \A q \in DOMAIN d : p + bytes <= q \/ q + d[q] <= p,
         NEW e, e = Bind(d, p, bytes), NEW id \in Int, NEW r, r = [ptr |-> p, size |-> bytes, id |-> id]
  PROVE  /\ Blocks(e) /\ Gains(d, e, p, bytes) /\ p \notin DOMAIN d /\ Owned(R, e, v)
         /\ Whole(bytes) => RegionsApart(R \cup {r}) /\ r \notin R /\ Owned(R \cup {r}, e, v)
<1>1. Blocks(e) /\ Gains(d, e, p, bytes) /\ p \notin DOMAIN d
  BY BlocksGain
<1>2. r.ptr = p /\ r.size = bytes /\ r \in RegionSet
  BY DEF RegionSet
<1>3. p \notin DOMAIN v /\ p \in Int
  BY <1>1, NullIsNoAddress DEF Owned
<1>4. \A q \in R : q.ptr \in DOMAIN d /\ q.ptr # p /\ d[q.ptr] = q.size /\ q.ptr \notin DOMAIN v
  BY <1>1 DEF Owned
<1>5. Owned(R, e, v)
  <2>1. \A q \in R : q.ptr \in DOMAIN e /\ e[q.ptr] = q.size /\ q.ptr \notin DOMAIN v
    BY <1>1, <1>4 DEF Gains
  <2>2. \A q \in DOMAIN v : q # Null => q \in DOMAIN e /\ e[q] = v[q]
    BY <1>1, <1>3 DEF Gains, Owned
  <2> QED
    BY <2>1, <2>2 DEF Owned
<1>6. ASSUME Whole(bytes) PROVE RegionsApart(R \cup {r})
  <2>1. R \cup {r} \subseteq RegionSet /\ IsFiniteSet(R \cup {r})
    BY <1>2, FS_AddElement DEF RegionsApart
  <2>2. \A q \in R \cup {r} : Whole(q.size) /\ q.ptr + q.size <= DeviceBytes
    BY <1>2, <1>6 DEF RegionsApart
  <2>3. \A q \in R : p + bytes <= q.ptr \/ q.ptr + q.size <= p
    BY <1>4
  <2>4. ASSUME NEW x \in R \cup {r}, NEW y \in R \cup {r}, x # y
        PROVE  x.ptr + x.size <= y.ptr \/ y.ptr + y.size <= x.ptr
    <3>1. CASE x \in R /\ y \in R
      BY <2>4, <3>1 DEF RegionsApart
    <3>2. CASE x = r
      BY <1>2, <2>3, <2>4, <3>2
    <3>3. CASE y = r
      BY <1>2, <2>3, <2>4, <3>3
    <3> QED
      BY <3>1, <3>2, <3>3
  <2> QED
    BY <2>1, <2>2, <2>4 DEF RegionsApart
<1>7. r \notin R
  BY <1>2, <1>4
<1>8. Owned(R \cup {r}, e, v)
  BY <1>1, <1>2, <1>3, <1>5 DEF Owned, Gains
<1> QED
  BY <1>1, <1>5, <1>6, <1>7, <1>8

\* Blocks of regions given back leave the rest owned as before.
LEMMA ShrinkMemory ==
  ASSUME NEW R, RegionsApart(R), NEW d, NEW v, Blocks(d), Owned(R, d, v), NEW gone, gone \subseteq R,
         NEW e, e = Restrict(d, DOMAIN d \ {r.ptr : r \in gone})
  PROVE  Blocks(e) /\ Owned(R \ gone, e, v) /\ Loses(d, e, {r.ptr : r \in gone})
<1>1. Blocks(e) /\ Loses(d, e, {r.ptr : r \in gone})
  BY BlocksLose
<1>2. ASSUME NEW r \in R \ gone PROVE r.ptr \in DOMAIN e /\ e[r.ptr] = r.size /\ r.ptr \notin DOMAIN v
  <2>1. \A q \in gone : q.ptr # r.ptr
    <3> SUFFICES ASSUME NEW q \in gone, q.ptr = r.ptr PROVE FALSE
      OBVIOUS
    <3>1. q \in R /\ r \in R /\ q # r
      OBVIOUS
    <3>2. q.ptr + q.size <= r.ptr \/ r.ptr + r.size <= q.ptr
      BY <3>1 DEF RegionsApart
    <3> QED
      BY <3>1, <3>2, RegionTypes
  <2>2. r.ptr \in DOMAIN d /\ d[r.ptr] = r.size /\ r.ptr \notin DOMAIN v
    BY DEF Owned
  <2> QED
    BY <1>1, <2>1, <2>2 DEF Loses
<1>3. \A q \in DOMAIN v : q # Null => q \in DOMAIN e /\ e[q] = v[q]
  BY <1>1 DEF Owned, Loses
<1> QED
  BY <1>1, <1>2, <1>3 DEF Owned

\* The configuration ArenaConfig::IsValid describes, with some memory to manage.
Configured == IsValid /\ MaxMem > 0

\* The chunk h of a, the best that fits, went to the client.
Delivered(a, n, N, h, s, bytes) ==
  LET rounded == RoundedBytes(bytes) IN
  /\ h \in 1 .. n /\ h \in 1 .. N /\ Fits(a, n, rounded, s, h)
  /\ \A g \in 1 .. n : Fits(a, n, rounded, s, g) => SizeOf(a, h) <= SizeOf(a, g)
  /\ Taken(a, arena', n, N, h, rounded)
  /\ Holdings(arena', N, reserved, live') /\ Gains(live, live', PtrOf(a, h), bytes)
  /\ PtrOf(a, h) \notin DOMAIN live /\ PtrOf(a, h) \notin DOMAIN reserved
  /\ GrantedSize(a, rounded, s) = SizeOf(arena', h)

\* HandOut gives the client the best fit.
LEMMA HandOutDelivers ==
  ASSUME Configured, ClockTypes, NEW n \in Nat, NEW a \in Arenas(n), Sound(a, n, {}), Calm(a, n),
         NEW s \in Streams \cup {NoStream}, s # NoStream => s \in DOMAIN a.streamChunks,
         NEW bytes \in Nat \ {0}, Fitting(a, RoundedBytes(bytes), s) # {},
         NEW d, Blocks(d), Owned(a.regions, d, reserved), Holdings(a, n, reserved, live),
         HandOut(a, RoundedBytes(bytes), s, bytes)
  PROVE  \E N \in Nat, h \in 1 .. n : Delivered(a, n, N, h, s, bytes)
<1> PICK rounded : rounded = RoundedBytes(bytes)
  OBVIOUS
<1> PICK h : h = BestFit(a, rounded, s)
  OBVIOUS
<1> PICK R : R = TakeBestFit(a, rounded, s)
  OBVIOUS
<1>1. Whole(rounded) /\ rounded >= bytes /\ rounded > 0 /\ rounded \in Nat
  BY RoundedUp DEF Whole
<1>2. MaxDead > 0
  BY DEF Configured, IsValid
<1>3. /\ Fits(a, n, rounded, s, h)
      /\ \A g \in 1 .. n : Fits(a, n, rounded, s, g) => SizeOf(a, h) <= SizeOf(a, g)
      /\ \E N \in Nat : h \in 1 .. N /\ Taken(a, R, n, N, h, rounded)
  BY <1>1, <1>2, TakeSound
<1>4. PICK N \in Nat : h \in 1 .. N /\ Taken(a, R, n, N, h, rounded)
  BY <1>3
<1>5. arena' = R /\ live' = Bind(live, PtrOf(a, h), bytes)
  BY DEF HandOut, PtrOf
<1>6. h \in 1 .. n /\ InList(a, h) /\ Idle(a, h)
  BY <1>3 DEF Fits
<1>7. PtrOf(a, h) \notin DOMAIN reserved
  BY <1>6, ChunksApartFromReserved DEF Sound
<1>8. ~Held(a, h)
  BY <1>6 DEF Held
<1>9. /\ Holdings(R, N, reserved, live') /\ Gains(live, live', PtrOf(a, h), bytes)
      /\ PtrOf(a, h) \notin DOMAIN live
  BY <1>1, <1>4, <1>5, <1>7, <1>8, TakenHoldings
<1>10. GrantedSize(a, rounded, s) = SizeOf(R, h)
  BY DEF GrantedSize, SizeOf
<1>11. Delivered(a, n, N, h, s, bytes)
  BY <1>3, <1>4, <1>5, <1>6, <1>7, <1>9, <1>10 DEF Delivered
<1> QED
  BY <1>6, <1>11

\* A first request of a stream changes no chunk.
LEMMA Registering ==
  ASSUME NEW n \in Nat, MemoryAt(n), NEW s \in Streams \cup {NoStream}, NEW a, a = RegisterStream(arena, s)
  PROVE  /\ Shaped(a, n) /\ a.chunks = arena.chunks /\ a.regions = arena.regions /\ a.handles = arena.handles
         /\ SameHeld(arena, a, n) /\ Holdings(a, n, reserved, live) /\ Owned(a.regions, device, reserved)
         /\ (s # NoStream => s \in DOMAIN a.streamChunks)
<1>1. /\ a \in Arenas(n) /\ Sound(a, n, {}) /\ Calm(a, n) /\ a.chunks = arena.chunks
      /\ SameShape(arena, a, n) /\ (s # NoStream => s \in DOMAIN a.streamChunks)
  BY RegisterSound DEF MemoryAt, Shaped
<1>2. a.regions = arena.regions /\ a.handles = arena.handles
  BY <1>1 DEF SameShape
<1>3. SameHeld(arena, a, n)
  BY <1>1 DEF SameHeld, Held, InList, PtrOf, SizeOf, Idle
<1>4. Holdings(a, n, reserved, live)
  BY <1>3, SameHoldings DEF MemoryAt
<1> QED
  BY <1>1, <1>2, <1>3, <1>4 DEF Shaped, MemoryAt

MemoryInv == Counters /\ \E n \in Nat : MemoryAt(n)

\* A request served from the bins keeps the invariant.
LEMMA FromBinDelivers ==
  ASSUME Configured, Counters, NEW n \in Nat, MemoryAt(n), NEW bytes \in Sizes,
         NEW s \in Streams \cup {NoStream}, AllocFromBin(bytes, s), NEW a, a = RegisterStream(arena, s)
  PROVE  /\ \E N \in Nat, h \in 1 .. n : Delivered(a, n, N, h, s, bytes) /\ MemoryAt(N)'
         /\ Counters'
<1>1. bytes \in Nat \ {0}
  BY ArenaConstants
<1>2. /\ Shaped(a, n) /\ Owned(a.regions, device, reserved) /\ Holdings(a, n, reserved, live)
      /\ (s # NoStream => s \in DOMAIN a.streamChunks) /\ a.regions = arena.regions
  BY Registering
<1>3. /\ Fitting(a, RoundedBytes(bytes), s) # {} /\ HandOut(a, RoundedBytes(bytes), s, bytes)
      /\ stats' = [stats EXCEPT !.inUse = @ + GrantedSize(a, RoundedBytes(bytes), s)]
      /\ UNCHANGED <<curr_region_allocation_bytes, reserved, device, clock>>
  BY DEF AllocFromBin
<1>4. PICK N \in Nat, h \in 1 .. n : Delivered(a, n, N, h, s, bytes)
  <2>1. a \in Arenas(n) /\ Sound(a, n, {}) /\ Calm(a, n) /\ ClockTypes /\ Blocks(device)
    BY <1>2 DEF Shaped, Counters, MemoryAt
  <2> QED
    BY <1>1, <1>2, <1>3, <2>1, HandOutDelivers
<1>5. /\ arena' \in Arenas(N) /\ Sound(arena', N, {}) /\ Calm(arena', N) /\ arena'.regions = a.regions
      /\ Holdings(arena', N, reserved, live') /\ GrantedSize(a, RoundedBytes(bytes), s) = SizeOf(arena', h)
      /\ h \in 1 .. N
  BY <1>4 DEF Delivered, Taken
<1>6. MemoryAt(N)'
  BY <1>2, <1>3, <1>5 DEF MemoryAt, Shaped
<1>7. SizeOf(arena', h) \in Nat
  BY <1>5, FieldTypes
<1>8. Counters'
  BY <1>3, <1>5, <1>7 DEF Counters, ClockTypes
<1> QED
  BY <1>4, <1>6, <1>8

\* A new region leaves what there was alone and adds one free chunk.
Enlarged(a, R, n, N, m, r) ==
  /\ Shaped(R, N) /\ R.regions = a.regions \cup {r} /\ R.streamChunks = a.streamChunks
  /\ m \in 1 .. N /\ (m \in 1 .. n => ~InList(a, m))
  /\ InList(R, m) /\ Idle(R, m) /\ SizeOf(R, m) = r.size /\ StreamOf(R, m) = NoStream /\ PtrOf(R, m) = r.ptr
  /\ 1 .. N = 1 .. n \cup {m}
  /\ \A k \in 1 .. n : k # m => /\ (InList(R, k) <=> InList(a, k)) /\ (Idle(R, k) <=> Idle(a, k))
                                /\ PtrOf(R, k) = PtrOf(a, k) /\ SizeOf(R, k) = SizeOf(a, k)
                                /\ StreamOf(R, k) = StreamOf(a, k) /\ SyncOf(R, k) = SyncOf(a, k)

\* A new region is one more free chunk.
LEMMA ExtendShapes ==
  ASSUME NEW n \in Nat, NEW a, Shaped(a, n), NEW p \in Addresses, NEW bytes \in Nat \ {0},
         stats.extensions \in Int, NEW r, r = [ptr |-> p, size |-> bytes, id |-> stats.extensions],
         RegionsApart(a.regions \cup {r}), r \notin a.regions, NEW R, R = AddRegion(a, p, bytes)
  PROVE  \E N \in Nat : \E m : Enlarged(a, R, n, N, m, r)
<1> PICK N : N = Grown(a, n)
  OBVIOUS
<1> PICK m : m = NewHandle(a)
  OBVIOUS
<1>1. a \in Arenas(n) /\ Sound(a, n, {}) /\ Calm(a, n)
  BY DEF Shaped
<1>2. /\ R \in Arenas(N) /\ Extended(a, R, n, r) /\ Sound(R, N, {}) /\ InList(R, m) /\ NextOf(R, m) = None
      /\ \A k \in 1 .. n : k # m => (InList(R, k) <=> InList(a, k))
      /\ (m \in 1 .. n => ~InList(a, m)) /\ N \in Nat /\ m \in 1 .. N /\ 1 .. N = 1 .. n \cup {m}
  BY <1>1, ExtendSound
<1>3. /\ R.regions = a.regions \cup {r} /\ R.streamChunks = a.streamChunks /\ PtrOf(R, m) = r.ptr /\ SizeOf(R, m) = r.size
      /\ Idle(R, m) /\ StreamOf(R, m) = NoStream
      /\ \A k \in 1 .. n : k # m =>
           /\ PtrOf(R, k) = PtrOf(a, k) /\ StreamOf(R, k) = StreamOf(a, k) /\ (Idle(R, k) <=> Idle(a, k))
           /\ SizeOf(R, k) = SizeOf(a, k) /\ NextOf(R, k) = NextOf(a, k) /\ SyncOf(R, k) = SyncOf(a, k)
  BY <1>2 DEF Extended
<1>4. ASSUME NEW k \in 1 .. N PROVE Settled(R, k)
  <2>1. CASE k = m
    BY <1>2, <2>1 DEF Settled, Joinable
  <2>2. CASE k # m
    <3> SUFFICES ASSUME InList(R, k), Idle(R, k), Joinable(R, k, NextOf(R, k)) PROVE FALSE
      BY DEF Settled
    <3> PICK x : x = NextOf(R, k)
      OBVIOUS
    <3>1. k \in 1 .. n /\ InList(a, k) /\ Idle(a, k) /\ NextOf(a, k) = x /\ StreamOf(R, k) = StreamOf(a, k)
      BY <1>2, <1>3, <2>2
    <3>2. x # None
      BY DEF Joinable
    <3>3. Tiling(a, n)
      BY <1>1 DEF Sound
    <3>4. x \in 1 .. n /\ InList(a, x)
      BY <1>1, <3>1, <3>2, <3>3, Neighbours
    <3>5. x # m
      BY <1>2, <3>4
    <3>6. Joinable(a, k, x)
      BY <1>3, <3>1, <3>2, <3>4, <3>5 DEF Joinable
    <3> QED
      BY <1>1, <3>1, <3>6 DEF Calm, Settled
  <2> QED
    BY <2>1, <2>2
<1>5. Shaped(R, N)
  BY <1>2, <1>4 DEF Shaped, Calm
<1> QED
  BY <1>2, <1>3, <1>5 DEF Enlarged

\* A new region leaves the clients' claims alone.
LEMMA EnlargedHoldings ==
  ASSUME NEW n \in Nat, NEW a, NEW R, NEW N \in Nat, NEW m, NEW r, Enlarged(a, R, n, N, m, r),
         NEW v, NEW l, Holdings(a, n, v, l)
  PROVE  Holdings(R, N, v, l) /\ \A k \in 1 .. N : Held(R, k) <=> k \in 1 .. n /\ Held(a, k)
<1>1. \A k \in 1 .. N : Held(R, k) => k \in 1 .. n /\ k # m /\ Held(a, k)
  BY DEF Enlarged, Held
<1>2. \A k \in 1 .. n : Held(a, k) => k \in 1 .. N /\ k # m /\ Held(R, k)
  BY DEF Enlarged, Held
<1>3. \A k \in 1 .. n : k # m => PtrOf(R, k) = PtrOf(a, k) /\ SizeOf(R, k) = SizeOf(a, k)
  BY DEF Enlarged
<1>4. \A k \in 1 .. N : Held(R, k) => PtrOf(R, k) \in DOMAIN l /\ l[PtrOf(R, k)] <= SizeOf(R, k)
  BY <1>1, <1>3 DEF Holdings
<1>5. \A p \in DOMAIN l : p \in DOMAIN v \/ \E k \in 1 .. N : Held(R, k) /\ PtrOf(R, k) = p
  BY <1>2, <1>3 DEF Holdings
<1> QED
  BY <1>1, <1>2, <1>4, <1>5 DEF Holdings

\* What Extend asks of the device.
LEMMA Asked ==
  ASSUME Configured, Counters, NEW bytes \in Nat \ {0}, NEW rounded, rounded = RoundedBytes(bytes),
         rounded <= Available
  PROVE  /\ Whole(rounded) /\ rounded > 0
         /\ NextRegionBytes(rounded) \in Nat \ {0}
         /\ Attempt(ExtendBytes(rounded), rounded) \in Nat
         /\ Attempt(ExtendBytes(rounded), rounded) > 0 =>
               Attempt(ExtendBytes(rounded), rounded) >= rounded
         /\ Whole(curr_region_allocation_bytes) => Whole(Attempt(ExtendBytes(rounded), rounded))
         /\ Whole(curr_region_allocation_bytes) /\ Whole(MaxPow2) => Whole(NextRegionBytes(rounded))
<1>1. Whole(rounded) /\ rounded > 0
  BY RoundedUp DEF Whole
<1>2. stats.total \in Int /\ MaxPow2 > 0 /\ curr_region_allocation_bytes \in Nat \ {0}
  BY DEF Counters, Configured, IsValid
<1>3. /\ ExtendBytes(rounded) \in Nat /\ ExtendBytes(rounded) >= rounded
      /\ NextRegionBytes(rounded) \in Nat \ {0}
      /\ Whole(curr_region_allocation_bytes) => Whole(ExtendBytes(rounded))
      /\ Whole(curr_region_allocation_bytes) /\ Whole(MaxPow2) => Whole(NextRegionBytes(rounded))
  BY <1>1, <1>2, Extension
<1> PICK first : first = ExtendBytes(rounded)
  OBVIOUS
<1>4. /\ Attempt(first, rounded) \in Nat
      /\ Attempt(first, rounded) > 0 /\ first >= rounded =>
            Attempt(first, rounded) >= rounded /\ Attempt(first, rounded) <= DeviceCap
      /\ Whole(first) => Whole(Attempt(first, rounded))
  BY <1>1, <1>3, Attempts DEF Whole
<1> QED
  BY <1>1, <1>3, <1>4

\* AllocExtend obtained size bytes at p; with whole units they are a region and
\* serve the request, otherwise the block is in no region.
Obtained(p, size) ==
  /\ size \in Nat \ {0} /\ p \in Addresses /\ Gains(device, device', p, size) /\ p \notin DOMAIN device
  /\ stats'.total = stats.total + size /\ reserved' = reserved
  /\ \A q \in DOMAIN device : p + size <= q \/ q + device[q] <= p
  /\ p + size <= DeviceBytes
Unserved(a, n, size) ==
  /\ ~Whole(size) /\ arena' = a /\ live' = live /\ stats'.inUse = stats.inUse
  /\ stats'.extensions = stats.extensions /\ MemoryAt(n)'
NewRegion(p, size) == [ptr |-> p, size |-> size, id |-> stats.extensions]
Served(a, n, p, size, R, N, m, M, h, s, bytes) ==
  /\ N \in Nat /\ M \in Nat
  /\ Whole(size) /\ Enlarged(a, R, n, N, m, NewRegion(p, size)) /\ NewRegion(p, size) \notin a.regions
  /\ Delivered(R, N, M, h, s, bytes) /\ MemoryAt(M)'
  /\ stats'.inUse = stats.inUse + SizeOf(arena', h) /\ stats'.extensions = stats.extensions + 1

\* After an extension the request is served: "despite calling Extend" is never
\* thrown.
LEMMA EnlargedDelivers ==
  ASSUME Configured, Counters, NEW n \in Nat, NEW a, Shaped(a, n),
         NEW bytes \in Nat \ {0}, NEW rounded, rounded = RoundedBytes(bytes),
         NEW s \in Streams \cup {NoStream}, s # NoStream => s \in DOMAIN a.streamChunks,
         NEW size \in Nat \ {0}, size >= rounded,
         NEW R, NEW N \in Nat, NEW m, NEW r, r.size = size, Enlarged(a, R, n, N, m, r),
         NEW d, Blocks(d), Owned(R.regions, d, reserved), Holdings(a, n, reserved, live)
  PROVE  /\ Fitting(R, rounded, s) # {}
         /\ HandOut(R, rounded, s, bytes) => \E M \in Nat, h \in 1 .. N : Delivered(R, N, M, h, s, bytes)
<1>1. R \in Arenas(N) /\ Sound(R, N, {}) /\ Calm(R, N)
  BY DEF Enlarged, Shaped
<1>2. m \in 1 .. N /\ InList(R, m) /\ Idle(R, m) /\ SizeOf(R, m) = size /\ StreamOf(R, m) = NoStream
  BY DEF Enlarged
<1>3. rounded \in Nat
  BY RoundedUp DEF Whole
<1>4. Fits(R, N, rounded, s, m)
  BY <1>2 DEF Fits, SafeToUse, StreamOf
<1>5. Fitting(R, rounded, s) # {}
  BY <1>1, <1>3, <1>4, FittingMembers
<1>6. Holdings(R, N, reserved, live)
  BY EnlargedHoldings
<1>7. ClockTypes
  BY DEF Counters
<1>8. R.streamChunks = a.streamChunks
  BY DEF Enlarged
<1> QED
  BY <1>1, <1>5, <1>6, <1>7, <1>8, HandOutDelivers

\* A request that extends the arena keeps the invariant.
LEMMA ExtendDelivers ==
  ASSUME Configured, Counters, NEW n \in Nat, MemoryAt(n), NEW bytes \in Sizes,
         NEW s \in Streams \cup {NoStream}, AllocExtend(bytes, s), NEW a, a = RegisterStream(arena, s)
  PROVE  /\ Counters'
         /\ \E p, size : /\ Obtained(p, size) /\ size = Attempt(ExtendBytes(RoundedBytes(bytes)), RoundedBytes(bytes))
                         /\ \/ Unserved(a, n, size)
                            \/ \E R, N, m, M, h : Served(a, n, p, size, R, N, m, M, h, s, bytes)
<1> PICK rounded : rounded = RoundedBytes(bytes)
  OBVIOUS
<1> PICK size : size = Attempt(ExtendBytes(rounded), rounded)
  OBVIOUS
<1>1. bytes \in Nat \ {0}
  BY ArenaConstants
<1>2. /\ Shaped(a, n) /\ Owned(a.regions, device, reserved) /\ Holdings(a, n, reserved, live)
      /\ (s # NoStream => s \in DOMAIN a.streamChunks) /\ a.regions = arena.regions
  BY Registering
<1>3. Fitting(a, rounded, s) = {} /\ rounded <= Available /\ size > 0
  BY DEF AllocExtend
<1>4. /\ Whole(rounded) /\ rounded > 0 /\ NextRegionBytes(rounded) \in Nat \ {0} /\ size \in Nat \ {0}
      /\ size >= rounded
  BY <1>1, <1>3, Asked
<1>5. PICK p \in Addresses :
        /\ DeviceFits(p, size) /\ device' = Bind(device, p, size)
        /\ curr_region_allocation_bytes' = NextRegionBytes(rounded)
        /\ LET extended == IF size % Unit = 0 THEN AddRegion(a, p, size) ELSE a
               served == Fitting(extended, rounded, s) # {}
           IN /\ IF served THEN HandOut(extended, rounded, s, bytes)
                 ELSE arena' = extended /\ UNCHANGED live
              /\ stats' = [total |-> stats.total + size,
                           inUse |-> stats.inUse + IF served THEN GrantedSize(extended, rounded, s)
                                                   ELSE 0,
                           extensions |-> stats.extensions + IF size % Unit = 0 THEN 1 ELSE 0]
  BY DEF AllocExtend
<1>6. UNCHANGED <<reserved, clock>>
  BY DEF AllocExtend
<1>7. stats.total \in Int /\ stats.inUse \in Int /\ stats.extensions \in Int
  BY DEF Counters
<1> PICK r : r = NewRegion(p, size)
  OBVIOUS
<1>8. RegionsApart(a.regions) /\ Blocks(device)
  BY <1>2 DEF Shaped, Sound, Tiling, MemoryAt
<1>9. p + size <= DeviceBytes /\ \A q \in DOMAIN device : p + size <= q \/ q + device[q] <= p
  BY <1>5 DEF DeviceFits
<1>10. /\ Blocks(device') /\ Gains(device, device', p, size) /\ p \notin DOMAIN device
       /\ Owned(a.regions, device', reserved)
       /\ Whole(size) => /\ RegionsApart(a.regions \cup {r}) /\ r \notin a.regions
                         /\ Owned(a.regions \cup {r}, device', reserved)
  <2> PICK id : id = stats.extensions
    OBVIOUS
  <2> PICK e : e = device'
    OBVIOUS
  <2>1. r = [ptr |-> p, size |-> size, id |-> id] /\ id \in Int
    BY <1>7 DEF NewRegion
  <2>2. e = Bind(device, p, size)
    BY <1>5
  <2>3. Owned(a.regions, device, reserved) /\ size \in Nat \ {0}
    BY <1>2, <1>4
  <2>4. /\ Blocks(e) /\ Gains(device, e, p, size) /\ p \notin DOMAIN device /\ Owned(a.regions, e, reserved)
        /\ Whole(size) => RegionsApart(a.regions \cup {r}) /\ r \notin a.regions
                           /\ Owned(a.regions \cup {r}, e, reserved)
    BY <1>8, <1>9, <2>1, <2>2, <2>3, ExtendMemory
  <2> QED
    BY <2>4
<1>11. stats'.total = stats.total + size
  BY <1>5
<1>12. Obtained(p, size)
  BY <1>4, <1>6, <1>9, <1>10, <1>11 DEF Obtained
<1>13. CASE ~Whole(size)
  <2>1. size % Unit # 0
    BY <1>4, <1>13 DEF Whole
  <2>2. /\ arena' = a /\ live' = live
        /\ stats' = [total |-> stats.total + size, inUse |-> stats.inUse + 0, extensions |-> stats.extensions + 0]
    BY <1>3, <1>5, <2>1
  <2>3. MemoryAt(n)'
    BY <1>2, <1>6, <1>10, <2>2 DEF MemoryAt, Shaped
  <2>4. Counters'
    BY <1>4, <1>5, <1>6, <1>7, <2>2 DEF Counters, ClockTypes
  <2>5. Unserved(a, n, size)
    BY <1>7, <1>13, <2>2, <2>3 DEF Unserved
  <2> QED
    BY <1>12, <2>4, <2>5
<1>14. CASE Whole(size)
  <2> PICK R : R = AddRegion(a, p, size)
    OBVIOUS
  <2>1. size % Unit = 0
    BY <1>14 DEF Whole
  <2>13. PICK N \in Nat : \E m : Enlarged(a, R, n, N, m, r)
    <3>1. r = [ptr |-> p, size |-> size, id |-> stats.extensions]
      BY DEF NewRegion
    <3> QED
      BY <1>2, <1>4, <1>7, <1>10, <1>14, <3>1, ExtendShapes
  <2>2. PICK m : Enlarged(a, R, n, N, m, r)
    BY <2>13
  <2>4. R.regions = a.regions \cup {r} /\ r.size = size
    BY <2>2 DEF Enlarged, NewRegion
  <2>5. /\ Fitting(R, rounded, s) # {}
        /\ HandOut(R, rounded, s, bytes) => \E M \in Nat, h \in 1 .. N : Delivered(R, N, M, h, s, bytes)
    <3> PICK d : d = device'
      OBVIOUS
    <3>1. Blocks(d) /\ Owned(R.regions, d, reserved) /\ r.size = size
      BY <1>10, <1>14, <2>4
    <3>2. Shaped(a, n) /\ Holdings(a, n, reserved, live) /\ (s # NoStream => s \in DOMAIN a.streamChunks)
      BY <1>2
    <3>3. size \in Nat \ {0} /\ size >= rounded
      BY <1>4
    <3> QED
      BY <1>1, <2>2, <2>13, <3>1, <3>2, <3>3, EnlargedDelivers
  <2>6. /\ HandOut(R, rounded, s, bytes)
        /\ stats' = [total |-> stats.total + size, inUse |-> stats.inUse + GrantedSize(R, rounded, s),
                     extensions |-> stats.extensions + 1]
    BY <1>5, <2>1, <2>5
  <2>7. PICK M \in Nat, h \in 1 .. N : Delivered(R, N, M, h, s, bytes)
    BY <2>5, <2>6
  <2>8. /\ arena' \in Arenas(M) /\ Sound(arena', M, {}) /\ Calm(arena', M) /\ arena'.regions = R.regions
        /\ Holdings(arena', M, reserved, live') /\ GrantedSize(R, rounded, s) = SizeOf(arena', h)
        /\ h \in 1 .. M
    BY <2>7 DEF Delivered, Taken
  <2>9. MemoryAt(M)'
    BY <1>6, <1>10, <1>14, <2>4, <2>8 DEF MemoryAt, Shaped
  <2>10. SizeOf(arena', h) \in Nat
    BY <2>8, FieldTypes
  <2>11. Counters'
    BY <1>4, <1>5, <1>6, <1>7, <2>6, <2>8, <2>10 DEF Counters, ClockTypes
  <2>12. Served(a, n, p, size, R, N, m, M, h, s, bytes)
    BY <1>7, <1>10, <1>14, <2>2, <2>6, <2>7, <2>8, <2>9 DEF Served
  <2> QED
    BY <1>12, <2>11, <2>12
<1> QED
  BY <1>13, <1>14

\* A request refused by the limit or the device keeps the invariant.
LEMMA FailureKeeps ==
  ASSUME Configured, Counters, NEW n \in Nat, MemoryAt(n), NEW bytes \in Sizes,
         NEW s \in Streams \cup {NoStream}, AllocOverLimit(bytes, s) \/ AllocDeviceFails(bytes, s),
         NEW a, a = RegisterStream(arena, s)
  PROVE  /\ MemoryAt(n)' /\ Counters' /\ arena' = a
         /\ stats' = stats /\ reserved' = reserved /\ device' = device /\ live' = live
<1>1. bytes \in Nat \ {0}
  BY ArenaConstants
<1>2. /\ Shaped(a, n) /\ Owned(a.regions, device, reserved) /\ Holdings(a, n, reserved, live)
  BY Registering
<1>3. /\ arena' = a /\ stats' = stats /\ reserved' = reserved /\ device' = device /\ live' = live
      /\ clock' = clock
      /\ \/ curr_region_allocation_bytes' = curr_region_allocation_bytes
         \/ /\ RoundedBytes(bytes) <= Available
            /\ curr_region_allocation_bytes' = NextRegionBytes(RoundedBytes(bytes))
  BY DEF AllocOverLimit, AllocDeviceFails
<1>4. RoundedBytes(bytes) <= Available => NextRegionBytes(RoundedBytes(bytes)) \in Nat \ {0}
  BY <1>1, Asked
<1>5. Counters'
  BY <1>3, <1>4 DEF Counters, ClockTypes
<1>6. MemoryAt(n)'
  BY <1>2, <1>3 DEF MemoryAt, Shaped
<1> QED
  BY <1>3, <1>5, <1>6

\* Reserve keeps the invariant.
LEMMA ReserveKeeps ==
  ASSUME Counters, NEW n \in Nat, MemoryAt(n), NEW bytes \in ReserveSizes, Reserve(bytes)
  PROVE  /\ MemoryAt(n)' /\ Counters' /\ arena' = arena
         /\ stats'.total = stats.total + bytes /\ stats'.inUse = stats.inUse + bytes
         /\ stats'.extensions = stats.extensions
         /\ \/ /\ bytes > DeviceCap /\ Gains(reserved, reserved', Null, bytes) /\ device' = device /\ live' = live
            \/ \E p \in Addresses :
                 /\ Gains(device, device', p, bytes) /\ Gains(reserved, reserved', p, bytes)
                 /\ Gains(live, live', p, bytes)
                 /\ p \notin DOMAIN device /\ p \notin DOMAIN reserved /\ p \notin DOMAIN live
                 /\ p + bytes <= DeviceBytes /\ \A q \in DOMAIN device : p + bytes <= q \/ q + device[q] <= p
<1>1. bytes \in Nat \ {0}
  BY ArenaConstants
<1>2. /\ arena' = arena /\ clock' = clock /\ curr_region_allocation_bytes' = curr_region_allocation_bytes
      /\ stats' = [stats EXCEPT !.inUse = @ + bytes, !.total = @ + bytes]
  BY DEF Reserve
<1>3. stats \in [total : Int, inUse : Int, extensions : Int]
  BY DEF Counters
<1>4. /\ stats'.total = stats.total + bytes /\ stats'.inUse = stats.inUse + bytes
      /\ stats'.extensions = stats.extensions /\ stats' \in [total : Int, inUse : Int, extensions : Int]
  <2>1. stats.inUse + bytes \in Int /\ stats.total + bytes \in Int
    BY <1>1, <1>3
  <2>2. stats' = [[stats EXCEPT !.inUse = stats.inUse + bytes] EXCEPT !.total = stats.total + bytes]
    BY <1>2, <1>3
  <2> QED
    BY <1>3, <2>1, <2>2
<1>5. Counters'
  BY <1>2, <1>4 DEF Counters, ClockTypes
<1>6. /\ arena \in Arenas(n) /\ Tiling(arena, n) /\ Blocks(device) /\ Owned(arena.regions, device, reserved)
      /\ Holdings(arena, n, reserved, live) /\ Shaped(arena, n)
  BY DEF MemoryAt, Shaped, Sound
<1> HIDE DEF Shaped
<1>7. CASE \E p \in Addresses :
             /\ bytes <= DeviceCap /\ DeviceFits(p, bytes)
             /\ reserved' = Bind(reserved, p, bytes)
             /\ device' = Bind(device, p, bytes)
             /\ live' = Bind(live, p, bytes)
  <2>1. PICK p \in Addresses :
          /\ p + bytes <= DeviceBytes /\ \A q \in DOMAIN device : p + bytes <= q \/ q + device[q] <= p
          /\ reserved' = Bind(reserved, p, bytes)
          /\ device' = Bind(device, p, bytes)
          /\ live' = Bind(live, p, bytes)
    BY <1>7 DEF DeviceFits
  <2>2. /\ Blocks(device') /\ Owned(arena.regions, device', reserved') /\ Holdings(arena, n, reserved', live')
        /\ Gains(device, device', p, bytes) /\ Gains(reserved, reserved', p, bytes) /\ Gains(live, live', p, bytes)
        /\ p \notin DOMAIN device /\ p \notin DOMAIN reserved /\ p \notin DOMAIN live
    BY <1>1, <1>6, <2>1, ReserveMemory
  <2>3. MemoryAt(n)'
    BY <1>2, <1>6, <2>2 DEF MemoryAt, Shaped
  <2> QED
    BY <1>2, <1>4, <1>5, <2>1, <2>2, <2>3
<1>8. CASE /\ bytes > DeviceCap /\ reserved' = Bind(reserved, Null, bytes)
           /\ device' = device /\ live' = live
  <2>1. /\ Owned(arena.regions, device, reserved') /\ Holdings(arena, n, reserved', live)
        /\ Gains(reserved, reserved', Null, bytes)
    BY <1>1, <1>6, <1>8, ReserveNothing
  <2>2. MemoryAt(n)'
    BY <1>2, <1>6, <1>8, <2>1 DEF MemoryAt, Shaped
  <2> QED
    BY <1>2, <1>4, <1>5, <1>8, <2>1, <2>2
<1> QED
  BY <1>7, <1>8 DEF Reserve

\* Free of a reservation keeps the invariant.
LEMMA FreeReservedKeeps ==
  ASSUME Counters, NEW n \in Nat, MemoryAt(n), NEW p \in DOMAIN live, Free(p), FreeReserved(p)
  PROVE  /\ MemoryAt(n)' /\ Counters' /\ arena' = arena
         /\ Loses(device, device', {p}) /\ Loses(reserved, reserved', {p}) /\ Loses(live, live', {p})
         /\ p \in DOMAIN device /\ p \in DOMAIN reserved /\ reserved[p] = device[p]
         /\ stats'.total = stats.total - reserved[p] /\ stats'.inUse = stats.inUse - reserved[p]
         /\ stats'.extensions = stats.extensions
<1>1. p \in DOMAIN reserved /\ p # Null
  BY NullIsNoAddress DEF FreeReserved, MemoryAt, Holdings
<1>2. /\ arena' = arena /\ clock' = clock /\ curr_region_allocation_bytes' = curr_region_allocation_bytes
      /\ stats' = [stats EXCEPT !.inUse = @ - reserved[p], !.total = @ - reserved[p]]
      /\ reserved' = Restrict(reserved, DOMAIN reserved \ {p})
      /\ device' = Restrict(device, DOMAIN device \ {p})
      /\ live' = Restrict(live, DOMAIN live \ {p})
  BY DEF Free, FreeReserved
<1>3. stats \in [total : Int, inUse : Int, extensions : Int]
  BY DEF Counters
<1>4. /\ arena \in Arenas(n) /\ Tiling(arena, n) /\ Blocks(device) /\ Owned(arena.regions, device, reserved)
      /\ Holdings(arena, n, reserved, live) /\ Shaped(arena, n)
  BY DEF MemoryAt, Shaped, Sound
<1>5. reserved[p] \in Nat
  BY <1>1, <1>4 DEF Owned, Numbered
<1>6. /\ stats'.total = stats.total - reserved[p] /\ stats'.inUse = stats.inUse - reserved[p]
      /\ stats'.extensions = stats.extensions /\ stats' \in [total : Int, inUse : Int, extensions : Int]
  <2>1. stats.inUse - reserved[p] \in Int /\ stats.total - reserved[p] \in Int
    BY <1>3, <1>5
  <2>2. stats' = [[stats EXCEPT !.inUse = stats.inUse - reserved[p]] EXCEPT !.total = stats.total - reserved[p]]
    BY <1>2, <1>3
  <2> QED
    BY <1>3, <2>1, <2>2
<1>7. Counters'
  BY <1>2, <1>6 DEF Counters, ClockTypes
<1>8. /\ Blocks(device') /\ Owned(arena.regions, device', reserved') /\ Holdings(arena, n, reserved', live')
      /\ Loses(device, device', {p}) /\ Loses(reserved, reserved', {p}) /\ Loses(live, live', {p})
      /\ p \in DOMAIN device /\ device[p] = reserved[p] /\ p \in DOMAIN live
  <2> PICK e : e = device'
    OBVIOUS
  <2> PICK w : w = reserved'
    OBVIOUS
  <2> PICK m : m = live'
    OBVIOUS
  <2>0. p \in DOMAIN reserved /\ p # Null /\ n \in Nat /\ arena \in Arenas(n) /\ Tiling(arena, n)
        /\ Blocks(device) /\ Owned(arena.regions, device, reserved) /\ Holdings(arena, n, reserved, live)
    BY <1>1, <1>4
  <2>1. /\ w = Restrict(reserved, DOMAIN reserved \ {p}) /\ e = Restrict(device, DOMAIN device \ {p})
        /\ m = Restrict(live, DOMAIN live \ {p})
    BY <1>2
  <2> PICK S : S = {p}
    OBVIOUS
  <2>2. Blocks(e) /\ Loses(device, e, S)
    BY <2>0, <2>1, BlocksLose
  <2>3. Loses(reserved, w, S) /\ Numbered(w)
    BY <2>0, <2>1, MapsLose DEF Owned
  <2>4. Loses(live, m, S) /\ Numbered(m)
    BY <2>0, <2>1, MapsLose DEF Holdings
  <2>5. /\ Owned(arena.regions, e, w) /\ Holdings(arena, n, w, m)
        /\ p \in DOMAIN device /\ device[p] = reserved[p] /\ p \in DOMAIN live
    BY <2>0, <2>2, <2>3, <2>4, FreeReservedMemory
  <2> QED
    BY <2>2, <2>3, <2>4, <2>5
<1>9. MemoryAt(n)'
  BY <1>2, <1>4, <1>8 DEF MemoryAt, Shaped
<1> QED
  BY <1>1, <1>2, <1>6, <1>7, <1>8, <1>9

\* The chunk a client's pointer names.
LEMMA ChunkOfClient ==
  ASSUME NEW n \in Nat, MemoryAt(n), NEW p \in DOMAIN live, p \notin DOMAIN reserved, NEW h, h = arena.handles[p]
  PROVE  h \in 1 .. n /\ Held(arena, h) /\ PtrOf(arena, h) = p
<1>1. PICK k \in 1 .. n : Held(arena, k) /\ PtrOf(arena, k) = p
  BY DEF MemoryAt, Holdings
<1>2. arena.handles[PtrOf(arena, k)] = k
  BY <1>1 DEF MemoryAt, Shaped, Sound, Tiling, Known, Held
<1> QED
  BY <1>1, <1>2

\* Free of a chunk keeps the invariant.
LEMMA FreeChunkKeeps ==
  ASSUME Counters, NEW n \in Nat, MemoryAt(n), NEW p \in DOMAIN live, Free(p), FreeChunk(p),
         NEW h, h = arena.handles[p]
  PROVE  /\ MemoryAt(n)' /\ Counters' /\ device' = device /\ reserved' = reserved /\ Loses(live, live', {p})
         /\ p \notin DOMAIN reserved /\ h \in 1 .. n /\ Held(arena, h) /\ PtrOf(arena, h) = p
         /\ stats'.total = stats.total /\ stats'.inUse = stats.inUse - SizeOf(arena, h)
         /\ stats'.extensions = stats.extensions /\ arena'.regions = arena.regions
         /\ \A k \in 1 .. n : /\ Held(arena', k) <=> Held(arena, k) /\ k # h
                              /\ Held(arena', k) => /\ PtrOf(arena', k) = PtrOf(arena, k)
                                                    /\ SizeOf(arena', k) = SizeOf(arena, k)
<1>1. /\ p \notin DOMAIN reserved /\ clock' = clock /\ device' = device /\ reserved' = reserved
      /\ curr_region_allocation_bytes' = curr_region_allocation_bytes
      /\ stats' = [stats EXCEPT !.inUse = @ - SizeOf(arena, h)]
      /\ arena' = FreeAndMaybeCoalesce(arena, h)
      /\ live' = Restrict(live, DOMAIN live \ {p})
  BY DEF Free, FreeChunk, SizeOf
<1>2. h \in 1 .. n /\ Held(arena, h) /\ PtrOf(arena, h) = p
  BY <1>1, ChunkOfClient
<1>3. /\ arena \in Arenas(n) /\ Sound(arena, n, {}) /\ Blocks(device) /\ Owned(arena.regions, device, reserved)
      /\ Holdings(arena, n, reserved, live) /\ Tiling(arena, n) /\ \A k \in 1 .. n : Settled(arena, k)
  BY DEF MemoryAt, Shaped, Sound, Calm
<1>4. /\ arena' \in Arenas(n) /\ Sound(arena', n, {}) /\ \A k \in 1 .. n : Settled(arena', k)
      /\ arena'.regions = arena.regions
      /\ \A k \in 1 .. n : /\ Held(arena', k) <=> Held(arena, k) /\ k # h
                           /\ Held(arena', k) => /\ PtrOf(arena', k) = PtrOf(arena, k)
                                                 /\ SizeOf(arena', k) = SizeOf(arena, k)
  BY <1>1, <1>2, <1>3, FreeSound
<1>5. Holdings(arena', n, reserved, live') /\ Loses(live, live', {p})
  BY <1>1, <1>2, <1>3, <1>4, FreedHoldings, SMTT(30)
<1>6. MemoryAt(n)'
  BY <1>1, <1>3, <1>4, <1>5 DEF MemoryAt, Shaped, Calm
<1>7. SizeOf(arena, h) \in Nat
  BY <1>2, <1>3, FieldTypes
<1>8. /\ stats'.total = stats.total /\ stats'.inUse = stats.inUse - SizeOf(arena, h)
      /\ stats'.extensions = stats.extensions /\ stats' \in [total : Int, inUse : Int, extensions : Int]
  BY <1>1, <1>7 DEF Counters
<1>9. Counters'
  BY <1>1, <1>8 DEF Counters, ClockTypes
<1> QED
  BY <1>1, <1>2, <1>4, <1>5, <1>6, <1>8, <1>9

\* ResetChunksUsingStream keeps the invariant.
LEMMA ResetKeeps ==
  ASSUME Counters, NEW n \in Nat, MemoryAt(n), NEW s, ResetChunksUsingStream(s)
  PROVE  /\ MemoryAt(n)' /\ Counters' /\ arena'.regions = arena.regions /\ SameHeld(arena, arena', n)
         /\ stats' = stats /\ reserved' = reserved /\ device' = device /\ live' = live
<1> PICK u : u = Unassigned(arena, s)
  OBVIOUS
<1> PICK R : R = InAddressOrder(CoalesceRegion, u, u.regions)
  OBVIOUS
<1>1. /\ s \in DOMAIN arena.streamChunks
      /\ arena' = InAddressOrder(CoalesceRegion, Unassigned(arena, s), Unassigned(arena, s).regions)
      /\ stats' = stats /\ reserved' = reserved /\ device' = device /\ live' = live
      /\ clock' = clock /\ curr_region_allocation_bytes' = curr_region_allocation_bytes
  BY DEF ResetChunksUsingStream, Unassigned
<1>2. arena' = R
  BY <1>1
<1>3. /\ arena \in Arenas(n) /\ Sound(arena, n, {}) /\ Blocks(device) /\ Owned(arena.regions, device, reserved)
      /\ Holdings(arena, n, reserved, live)
  BY DEF MemoryAt, Shaped
<1>4. R \in Arenas(n) /\ Sound(R, n, {}) /\ Calm(R, n) /\ R.regions = arena.regions /\ SameHeld(arena, R, n)
  BY <1>1, <1>3, ResetSound
<1>5. Holdings(R, n, reserved, live)
  BY <1>3, <1>4, SameHoldings
<1>6. MemoryAt(n)'
  BY <1>1, <1>2, <1>3, <1>4, <1>5 DEF MemoryAt, Shaped
<1>7. Counters'
  BY <1>1 DEF Counters, ClockTypes
<1> QED
  BY <1>1, <1>2, <1>4, <1>6, <1>7

\* The regions Shrink gives back hold no memory in use.
LEMMA ShrinkableIdle ==
  ASSUME NEW n \in Nat, MemoryAt(n), NEW r \in arena.regions
  PROVE  Shrinkable(r) <=> /\ SameAsRequested \/ r.id # 0
                           /\ \A k \in InRegion(arena, n, r) : Idle(arena, k)
<1> PICK s : s = Chain(arena, r)
  OBVIOUS
<1>1. arena \in Arenas(n) /\ Tiling(arena, n)
  BY DEF MemoryAt, Shaped, Sound
<1>2. PICK len \in 0 .. n : Meets(arena, n, r, s, len)
  BY <1>1, ChainMeetsAll
<1>3. /\ DOMAIN s = 1 .. len /\ \A i \in 1 .. len : s[i] \in InRegion(arena, n, r)
      /\ \A k \in InRegion(arena, n, r) : \E i \in 1 .. len : s[i] = k
  BY <1>2 DEF Meets
<1>4. ToSet(s) = InRegion(arena, n, r)
  BY <1>3 DEF ToSet
<1> QED
  BY <1>4 DEF Shrinkable, Idle

Gone == {r \in arena.regions : Shrinkable(r)}

\* Shrink keeps the invariant.
LEMMA ShrinkKeeps ==
  ASSUME Configured, Counters, NEW n \in Nat, MemoryAt(n), Shrink
  PROVE  /\ MemoryAt(n)' /\ Counters' /\ Thinned(arena, arena', n, Gone) /\ SameHeld(arena, arena', n)
         /\ reserved' = reserved /\ live' = live
         /\ device' = Restrict(device, DOMAIN device \ {r.ptr : r \in Gone})
         /\ stats'.inUse = stats.inUse /\ stats'.total = stats.total - SumFunction([r \in Gone |-> r.size])
         /\ stats'.extensions = stats.extensions - Cardinality(Gone)
<1> PICK gone : gone = Gone
  OBVIOUS
<1> PICK R : R = InAddressOrder(ReleaseRegion, arena, gone)
  OBVIOUS
<1>1. /\ arena' = R /\ device' = Restrict(device, DOMAIN device \ {r.ptr : r \in gone})
      /\ stats' = [stats EXCEPT !.total = @ - SumFunction([r \in gone |-> r.size]),
                                !.extensions = @ - Cardinality(gone)]
      /\ curr_region_allocation_bytes' = InitialGrowth
      /\ reserved' = reserved /\ live' = live /\ clock' = clock
  BY DEF Shrink, Gone
<1>2. /\ arena \in Arenas(n) /\ Sound(arena, n, {}) /\ Calm(arena, n) /\ Blocks(device)
      /\ Owned(arena.regions, device, reserved) /\ Holdings(arena, n, reserved, live)
      /\ RegionsApart(arena.regions)
  BY DEF MemoryAt, Shaped, Sound, Tiling
<1>3. gone \subseteq arena.regions
  BY DEF Gone
<1>4. \A r \in gone : \A k \in InRegion(arena, n, r) : Idle(arena, k)
  BY ShrinkableIdle DEF Gone
<1>5. Thinned(arena, R, n, gone) /\ Calm(R, n) /\ SameHeld(arena, R, n)
  BY <1>2, <1>3, <1>4, AllReleased
<1>6. R \in Arenas(n) /\ Sound(R, n, {}) /\ R.regions = arena.regions \ gone
  BY <1>5 DEF Thinned
<1>7. Blocks(device') /\ Owned(R.regions, device', reserved)
  <2> PICK e : e = device'
    OBVIOUS
  <2>1. Blocks(e) /\ Owned(arena.regions \ gone, e, reserved)
    BY <1>1, <1>2, <1>3, ShrinkMemory
  <2> QED
    BY <1>6, <2>1
<1>8. Holdings(R, n, reserved, live)
  BY <1>2, <1>5, SameHoldings
<1>9. MemoryAt(n)'
  BY <1>1, <1>5, <1>6, <1>7, <1>8 DEF MemoryAt, Shaped
<1>10. SumFunction([r \in gone |-> r.size]) \in Int /\ Cardinality(gone) \in Nat
  <2>1. IsFiniteSet(gone)
    BY <1>2, <1>3, FS_Subset DEF RegionsApart
  <2>2. [r \in gone |-> r.size] \in [gone -> Int]
    BY <1>2, <1>3, RegionTypes
  <2> QED
    BY <2>1, <2>2, SumIsInteger, FS_CardinalityType
<1>11. /\ stats'.inUse = stats.inUse /\ stats'.total = stats.total - SumFunction([r \in gone |-> r.size])
       /\ stats'.extensions = stats.extensions - Cardinality(gone)
       /\ stats' \in [total : Int, inUse : Int, extensions : Int]
  <2> PICK x \in Int : x = SumFunction([r \in gone |-> r.size])
    BY <1>10
  <2> PICK c \in Int : c = Cardinality(gone)
    BY <1>10
  <2>1. stats.total \in Int /\ stats.extensions \in Int /\ stats \in [total : Int, inUse : Int, extensions : Int]
    BY DEF Counters
  <2>2. stats' = [[stats EXCEPT !.total = stats.total - x] EXCEPT !.extensions = stats.extensions - c]
    BY <1>1, <2>1
  <2>3. stats.total - x \in Int /\ stats.extensions - c \in Int
    BY <2>1
  <2>4. /\ stats'.inUse = stats.inUse /\ stats'.total = stats.total - x
        /\ stats'.extensions = stats.extensions - c
        /\ stats' \in [total : Int, inUse : Int, extensions : Int]
    BY <2>1, <2>2, <2>3
  <2> QED
    BY <2>4
<1>12. Counters'
  <2>1. InitialGrowth \in Nat \ {0}
    BY ArenaConstants DEF Configured, IsValid
  <2> QED
    BY <1>1, <1>11, <2>1 DEF Counters, ClockTypes
<1> QED
  BY <1>1, <1>5, <1>9, <1>11, <1>12

\* A synchronization between streams keeps the invariant.
LEMMA SynchronizeKeeps ==
  ASSUME Counters, NEW n \in Nat, MemoryAt(n), NEW s \in Streams, NEW t \in Streams, Synchronize(s, t)
  PROVE  /\ MemoryAt(n)' /\ Counters' /\ arena' = arena
         /\ stats' = stats /\ reserved' = reserved /\ device' = device /\ live' = live
<1>1. /\ arena' = arena /\ stats' = stats /\ reserved' = reserved /\ device' = device /\ live' = live
      /\ curr_region_allocation_bytes' = curr_region_allocation_bytes
      /\ clock.id[s] < MaxSync
      /\ clock' = [clock EXCEPT !.id[s] = @ + 1, !.wait[s][t] = clock.id[s] + 1]
  BY DEF Synchronize
<1>2. MemoryAt(n)'
  BY <1>1 DEF MemoryAt, Shaped
<1>3. clock.id \in [Streams -> 0 .. MaxSync] /\ MaxSync \in Nat
  BY ArenaConstants DEF Counters, ClockTypes
<1>4. clock'.id = [clock.id EXCEPT ![s] = clock.id[s] + 1]
  BY <1>1
<1>5. clock'.id \in [Streams -> 0 .. MaxSync]
  <2>1. clock.id[s] + 1 \in 0 .. MaxSync
    BY <1>1, <1>3
  <2> QED
    BY <1>3, <1>4, <2>1
<1>6. Counters'
  BY <1>1, <1>5 DEF Counters, ClockTypes
<1> QED
  BY <1>1, <1>2, <1>6

\* The empty arena satisfies the invariant with no chunk record.
LEMMA EmptyArena ==
  ASSUME Init
  PROVE  MemoryAt(0)
<1>1. arena = [chunks |-> <<>>, freeList |-> None, bins |-> [b \in Bins |-> {}],
               regions |-> {}, handles |-> [p \in Addresses |-> None],
               streamChunks |-> <<>>, fault |-> FALSE]
  BY DEF Init
<1>2. /\ arena.chunks = <<>> /\ arena.freeList = 0 /\ arena.bins = [b \in Bins |-> {}] /\ arena.regions = {}
      /\ arena.handles = [p \in Addresses |-> 0] /\ arena.streamChunks = <<>> /\ arena.fault = FALSE
  BY <1>1 DEF None
<1>3. <<>> \in [1 .. 0 -> ChunkSet(0)] /\ 1 .. 0 = {}
  BY IsASeq, LenProperties, EmptySeq
<1>4. <<>> \in Index(0)
  <2>1. <<>> \in [{} -> SUBSET (1 .. 0)]
    BY IsASeq, LenProperties, EmptySeq
  <2> QED
    BY <2>1 DEF Index
<1>5. arena \in Arenas(0)
  <2>1. [b \in Bins |-> {}] \in [Bins -> SUBSET (1 .. 0)]
    OBVIOUS
  <2>2. [p \in Addresses |-> 0] \in [Addresses -> 0 .. 0]
    OBVIOUS
  <2> QED
    BY <1>1, <1>3, <1>4, <2>1, <2>2 DEF Arenas, None
<1>6. Tiling(arena, 0)
  <2>1. RegionsApart(arena.regions)
    BY <1>2, FS_EmptySet DEF RegionsApart
  <2>2. Handled(arena) /\ Based(arena)
    BY <1>2 DEF Handled, Based, None
  <2>3. Spread(arena, 0)
    BY <1>3 DEF Spread
  <2> QED
    BY <1>3, <2>1, <2>2, <2>3 DEF Tiling
<1>7. Listed(arena, 0)
  <2>1. Blanks(arena, 0) = {}
    BY <1>3 DEF Blanks
  <2> DEFINE rank == [k \in 1 .. 0 |-> 0]
  <2>2. Ranked(arena, 0, rank, {})
    BY DEF Ranked, Integral
  <2> HIDE DEF rank
  <2> QED
    BY <1>2, <2>1, <2>2 DEF Listed, None
<1>8. Filed(arena, 0, {}) /\ Calm(arena, 0) /\ ~arena.fault
  BY <1>2, <1>3 DEF Filed, Calm
<1>9. /\ device = <<>> /\ reserved = <<>> /\ live = <<>>
  BY DEF Init
<1>10. Blocks(device) /\ Owned(arena.regions, device, reserved) /\ Holdings(arena, 0, reserved, live)
  BY <1>2, <1>3, <1>9, NoMap DEF Blocks, Owned, Holdings
<1> QED
  BY <1>5, <1>6, <1>7, <1>8, <1>10 DEF MemoryAt, Shaped, Sound

\* The invariant holds initially.
LEMMA MemoryInit ==
  ASSUME Configured, Init
  PROVE  MemoryInv
<1>1. MemoryAt(0)
  BY EmptyArena
<1>2. Smaller(MaxMem, InitialChunk) \in Nat \ {0}
  BY ArenaConstants DEF Configured, Smaller
<1>3. curr_region_allocation_bytes \in Nat \ {0}
  <2>1. curr_region_allocation_bytes = RoundedBytes(Smaller(MaxMem, InitialChunk))
    BY DEF Init
  <2> QED
    BY <1>2, <2>1, RoundedUp DEF Whole
<1>4. stats \in [total : Int, inUse : Int, extensions : Int]
  <2>1. Garbage \subseteq Int /\ stats \in [total : Garbage, inUse : Garbage, extensions : Garbage]
    BY ArenaConstants DEF Init
  <2> QED
    BY <2>1
<1>5. ClockTypes
  <2>1. clock.id = [s \in Streams |-> 0] /\ MaxSync \in Nat
    BY ArenaConstants DEF Init
  <2> QED
    BY <2>1 DEF ClockTypes
<1> QED
  BY <1>1, <1>3, <1>4, <1>5 DEF MemoryInv, Counters

\* The invariant holds on when nothing changes.
LEMMA MemoryStays ==
  ASSUME MemoryInv, UNCHANGED vars
  PROVE  MemoryInv'
<1>1. /\ arena' = arena /\ stats' = stats /\ reserved' = reserved /\ device' = device /\ live' = live
      /\ curr_region_allocation_bytes' = curr_region_allocation_bytes /\ clock' = clock
  BY DEF vars
<1> PICK n \in Nat : MemoryAt(n)
  BY DEF MemoryInv
<1>2. MemoryAt(n)' /\ Counters'
  BY <1>1 DEF MemoryInv, MemoryAt, Shaped, Counters, ClockTypes
<1> QED
  BY <1>2 DEF MemoryInv

\* Every step keeps the invariant.
LEMMA MemoryStep ==
  ASSUME Configured, MemoryInv, [Next]_vars
  PROVE  MemoryInv'
<1> PICK n \in Nat : MemoryAt(n)
  BY DEF MemoryInv
<1>1. Counters
  BY DEF MemoryInv
<1>2. ASSUME NEW bytes \in Sizes, NEW s \in Streams \cup {NoStream}, Allocate(bytes, s) PROVE MemoryInv'
  <2> PICK a : a = RegisterStream(arena, s)
    OBVIOUS
  <2>1. CASE AllocFromBin(bytes, s)
    <3>1. (\E N \in Nat, h \in 1 .. n : Delivered(a, n, N, h, s, bytes) /\ MemoryAt(N)') /\ Counters'
      BY <1>1, <2>1, FromBinDelivers
    <3> QED
      BY <3>1 DEF MemoryInv
  <2>2. CASE AllocExtend(bytes, s)
    <3>1. /\ Counters'
          /\ \E p, size : /\ Obtained(p, size)
                          /\ size = Attempt(ExtendBytes(RoundedBytes(bytes)), RoundedBytes(bytes))
                          /\ \/ Unserved(a, n, size)
                             \/ \E R, N, m, M, h : Served(a, n, p, size, R, N, m, M, h, s, bytes)
      BY <1>1, <2>2, ExtendDelivers
    <3>2. PICK p, size : \/ Unserved(a, n, size)
                         \/ \E R, N, m, M, h : Served(a, n, p, size, R, N, m, M, h, s, bytes)
      BY <3>1
    <3>3. CASE Unserved(a, n, size)
      BY <3>1, <3>3 DEF Unserved, MemoryInv
    <3>4. CASE \E R, N, m, M, h : Served(a, n, p, size, R, N, m, M, h, s, bytes)
      <4>1. PICK R, N, m, M, h : Served(a, n, p, size, R, N, m, M, h, s, bytes)
        BY <3>4
      <4>2. MemoryAt(M)' /\ M \in Nat
        BY <4>1 DEF Served
      <4> QED
        BY <3>1, <4>2 DEF MemoryInv
    <3> QED
      BY <3>2, <3>3, <3>4
  <2>3. CASE AllocOverLimit(bytes, s) \/ AllocDeviceFails(bytes, s)
    <3>1. MemoryAt(n)' /\ Counters'
      BY <1>1, <2>3, FailureKeeps
    <3> QED
      BY <3>1 DEF MemoryInv
  <2> QED
    BY <1>2, <2>1, <2>2, <2>3 DEF Allocate
<1>3. ASSUME NEW bytes \in ReserveSizes, Reserve(bytes) PROVE MemoryInv'
  <2>1. MemoryAt(n)' /\ Counters'
    BY <1>1, <1>3, ReserveKeeps
  <2> QED
    BY <2>1 DEF MemoryInv
<1>4. ASSUME NEW p \in DOMAIN live, Free(p) PROVE MemoryInv'
  <2>1. CASE FreeReserved(p)
    <3>1. MemoryAt(n)' /\ Counters'
      BY <1>1, <1>4, <2>1, FreeReservedKeeps
    <3> QED
      BY <3>1 DEF MemoryInv
  <2>2. CASE FreeChunk(p)
    <3>1. MemoryAt(n)' /\ Counters'
      BY <1>1, <1>4, <2>2, FreeChunkKeeps
    <3> QED
      BY <3>1 DEF MemoryInv
  <2> QED
    BY <1>4, <2>1, <2>2 DEF Free
<1>5. ASSUME NEW s \in Streams, ResetChunksUsingStream(s) PROVE MemoryInv'
  <2>1. MemoryAt(n)' /\ Counters'
    BY <1>1, <1>5, ResetKeeps
  <2> QED
    BY <2>1 DEF MemoryInv
<1>6. ASSUME Shrink PROVE MemoryInv'
  <2>1. MemoryAt(n)' /\ Counters'
    BY <1>1, <1>6, ShrinkKeeps
  <2> QED
    BY <2>1 DEF MemoryInv
<1>7. ASSUME NEW s \in Streams, NEW t \in Streams, Synchronize(s, t) PROVE MemoryInv'
  <2>1. MemoryAt(n)' /\ Counters'
    BY <1>1, <1>7, SynchronizeKeeps
  <2> QED
    BY <2>1 DEF MemoryInv
<1>8. CASE UNCHANGED vars
  BY <1>8, MemoryStays
<1> QED
  BY <1>2, <1>3, <1>4, <1>5, <1>6, <1>7, <1>8 DEF Next

\* The chunks region_to_chunk handles name are those that are in a list.
LEMMA LinkedInList ==
  ASSUME NEW n \in Nat, NEW a \in Arenas(n), Tiling(a, n)
  PROVE  {a.handles[p] : p \in Addresses} \ {None} = {h \in 1 .. n : InList(a, h)}
<1>1. a.handles \in [Addresses -> 0 .. n] /\ None = 0
  BY DEF Arenas, None
<1>2. ASSUME NEW p \in Addresses, a.handles[p] # None
      PROVE  a.handles[p] \in 1 .. n /\ InList(a, a.handles[p])
  <2>1. PtrOf(a, a.handles[p]) = p
    BY <1>2 DEF Tiling, Handled
  <2> QED
    BY <1>1, <1>2, <2>1, NullIsNoAddress DEF InList
<1>3. ASSUME NEW h \in 1 .. n, InList(a, h)
      PROVE  h # None /\ \E p \in Addresses : a.handles[p] = h
  <2>1. a.handles[PtrOf(a, h)] = h /\ PtrOf(a, h) \in Addresses
    BY <1>3, TypesOfLinked DEF Tiling, Known
  <2> QED
    BY <1>1, <2>1
<1> QED
  BY <1>2, <1>3

\* The free list is the chunk records that are in no list.
LEMMA FollowingFreeList ==
  ASSUME NEW n \in Nat, NEW a \in Arenas(n), Listed(a, n)
  PROVE  ToSet(Following(a, a.freeList)) = Blanks(a, n)
<1> PICK rank : Ranked(a, n, rank, Blanks(a, n))
  BY DEF Listed
<1> PICK h : h = a.freeList
  OBVIOUS
<1> PICK B : B = Blanks(a, n)
  OBVIOUS
<1> PICK s : s = Following(a, h)
  OBVIOUS
<1>1. /\ h \in 0 .. n /\ (h # None => h \in B) /\ Ranked(a, n, rank, B)
      /\ \A k \in B : k # h => \E j \in B : NextOf(a, j) = k
  BY DEF Listed, Arenas
<1>2. PICK len \in 0 .. n : Tour(a, B, rank, h, s, len)
  BY <1>1, FollowingTours
<1>3. \A k \in B : \E i \in 1 .. len : s[i] = k
  BY <1>1, <1>2, TourMeetsAll
<1>4. s \in [1 .. len -> B]
  BY <1>2 DEF Tour
<1> QED
  BY <1>3, <1>4 DEF ToSet

\* The handle of a region's first address is its first chunk.
LEMMA FirstOfRegion ==
  ASSUME NEW n \in Nat, NEW a \in Arenas(n), Tiling(a, n), NEW r \in a.regions, NEW h, h = a.handles[r.ptr]
  PROVE  h \in 1 .. n /\ InList(a, h) /\ PtrOf(a, h) = r.ptr /\ PrevOf(a, h) = None
<1>1. RegionsApart(a.regions)
  BY DEF Tiling
<1>2. r.ptr \in Addresses /\ r.ptr \in Int /\ r.size \in Int /\ r.size > 0
  BY <1>1, RegionTypes
<1>3. h # None /\ PtrOf(a, h) = r.ptr
  BY <1>2 DEF Tiling, Based, Handled
<1>4. h \in 1 .. n /\ InList(a, h)
  <2>1. h \in 0 .. n /\ None = 0
    BY <1>2 DEF Arenas, None
  <2> QED
    BY <1>2, <1>3, <2>1, NullIsNoAddress DEF InList
<1>5. SUFFICES ASSUME PrevOf(a, h) # None PROVE FALSE
  BY <1>3, <1>4
<1> PICK g : g = PrevOf(a, h)
  OBVIOUS
<1>6. Backed(a, h) /\ g \in 0 .. n
  BY <1>4, TypesOfLinked DEF Tiling
<1>7. InList(a, g) /\ NextOf(a, g) = h /\ g \in 1 .. n
  BY <1>5, <1>6 DEF Backed, None
<1>8. PtrOf(a, h) = EndOf(a, g) /\ \E q \in a.regions : Within(a, g, q) /\ Within(a, h, q)
  BY <1>3, <1>7, Neighbours
<1>9. PICK q \in a.regions : Within(a, g, q) /\ Within(a, h, q)
  BY <1>8
<1>10. /\ q.ptr <= PtrOf(a, g) /\ q.ptr <= r.ptr /\ EndOf(a, h) <= q.ptr + q.size
  BY <1>3, <1>9 DEF Within
<1>11. /\ PtrOf(a, g) \in Int /\ SizeOf(a, g) \in Int /\ SizeOf(a, g) > 0 /\ SizeOf(a, h) \in Int /\ SizeOf(a, h) > 0
       /\ EndOf(a, g) = PtrOf(a, g) + SizeOf(a, g) /\ EndOf(a, h) = PtrOf(a, h) + SizeOf(a, h)
  BY <1>4, <1>7, TypesOfLinked DEF Tiling, Known, EndOf
<1>12. q.ptr \in Int /\ q.size \in Int
  BY <1>1, RegionTypes
<1>13. r.ptr < q.ptr + q.size
  BY <1>2, <1>3, <1>10, <1>11, <1>12
<1>14. q = r
  BY <1>1, <1>2, <1>10, <1>12, <1>13, OneRegion
<1>15. q.ptr = r.ptr
  BY <1>14
<1>16. PtrOf(a, g) + SizeOf(a, g) = r.ptr /\ r.ptr <= PtrOf(a, g)
  BY <1>3, <1>8, <1>10, <1>11, <1>15
<1> QED
  BY <1>2, <1>11, <1>16

\* The invariant implies the type invariant.
LEMMA MemoryTypes ==
  ASSUME NEW n \in Nat, MemoryAt(n), Counters
  PROVE  TypeOK /\ Len(arena.chunks) = n
<1>1. arena \in Arenas(n) /\ Tiling(arena, n)
  BY DEF MemoryAt, Shaped, Sound
<1>2. arena.chunks \in [1 .. n -> ChunkSet(n)]
  BY <1>1 DEF Arenas
<1>3. Len(arena.chunks) = n
  BY <1>2, IsASeq, LenProperties
<1>4. \A h \in Handles : arena.chunks[h] \in ChunkType
  BY <1>2, <1>3 DEF Handles, ChunkType, ChunkSet
<1>5. /\ arena.freeList \in 0 .. Len(arena.chunks) /\ arena.bins \in [Bins -> SUBSET Handles]
      /\ arena.handles \in [Addresses -> 0 .. Len(arena.chunks)] /\ arena.fault \in BOOLEAN
  BY <1>1, <1>3 DEF Arenas, Handles
<1>6. /\ DOMAIN arena.streamChunks \subseteq Streams
      /\ \A s \in DOMAIN arena.streamChunks : arena.streamChunks[s] \subseteq Handles
  <2>1. arena.streamChunks \in Index(n)
    BY <1>1 DEF Arenas
  <2> QED
    BY <1>3, <2>1 DEF Index, Handles
<1>7. \A r \in Regions : r.ptr \in Addresses /\ r.size \in 1 .. DeviceBytes /\ r.id \in Int
  <2> SUFFICES ASSUME NEW r \in arena.regions PROVE r.ptr \in Addresses /\ r.size \in 1 .. DeviceBytes /\ r.id \in Int
    BY DEF Regions
  <2>1. r \in RegionSet /\ r.ptr + r.size <= DeviceBytes
    BY <1>1 DEF Tiling, RegionsApart
  <2>2. r.ptr \in Addresses /\ r.size \in Nat \ {0} /\ r.id \in Int /\ r.ptr \in Nat
    BY <2>1, AddressesFinite DEF RegionSet
  <2>3. DeviceBytes \in Nat
    BY ArenaConstants
  <2> QED
    BY <2>1, <2>2, <2>3
<1>8. /\ DOMAIN reserved \subseteq Addresses \cup {Null} /\ DOMAIN device \subseteq Addresses
      /\ DOMAIN live \subseteq Addresses
  BY DEF MemoryAt, Blocks, Owned, Holdings
<1>9. curr_region_allocation_bytes \in Nat /\ stats \in [total : Int, inUse : Int, extensions : Int]
  BY DEF Counters
<1> QED
  BY <1>3, <1>4, <1>5, <1>6, <1>7, <1>8, <1>9 DEF TypeOK

\* The invariant implies that the chunks tile the regions.
LEMMA MemoryTiles ==
  ASSUME MemoryInv
  PROVE  ChunksTileRegions
<1> PICK n \in Nat : MemoryAt(n)
  BY DEF MemoryInv
<1>1. TypeOK /\ Len(arena.chunks) = n
  BY MemoryTypes DEF MemoryInv
<1>2. arena \in Arenas(n) /\ Tiling(arena, n) /\ Listed(arena, n)
  BY DEF MemoryAt, Shaped, Sound
<1>3. Handles = 1 .. n /\ Linked = {h \in 1 .. n : InList(arena, h)} /\ FreeListed = Blanks(arena, n)
  BY <1>1, <1>2, LinkedInList, FollowingFreeList DEF Handles, Linked, FreeListed
<1>4. Linked \cup FreeListed = Handles /\ Linked \cap FreeListed = {}
  BY <1>3 DEF Blanks
<1>5. \A r \in Regions : arena.handles[r.ptr] # None /\ arena.chunks[arena.handles[r.ptr]].prev = None
  BY <1>2, FirstOfRegion DEF Regions, PrevOf, None
<1>6. ASSUME NEW h \in Linked
      PROVE  LET c == arena.chunks[h] IN
             /\ c.ptr # Null /\ c.size > 0 /\ arena.handles[c.ptr] = h
             /\ \E r \in Regions :
                  /\ r.ptr <= c.ptr /\ c.ptr + c.size <= r.ptr + r.size
                  /\ IF c.ptr + c.size = r.ptr + r.size THEN c.next = None
                     ELSE /\ c.next # None /\ c.next = arena.handles[c.ptr + c.size]
                          /\ arena.chunks[c.next].prev = h
  <2> PICK g : g = NextOf(arena, h)
    OBVIOUS
  <2>1. h \in 1 .. n /\ InList(arena, h)
    BY <1>3
  <2>2. Known(arena, h) /\ Placed(arena, h) /\ EndOf(arena, h) = PtrOf(arena, h) + SizeOf(arena, h)
    BY <1>2, <2>1 DEF Tiling, EndOf
  <2>3. PICK r \in arena.regions :
          /\ Within(arena, h, r)
          /\ EndOf(arena, h) = r.ptr + r.size => g = None
          /\ EndOf(arena, h) # r.ptr + r.size =>
               g # None /\ PtrOf(arena, g) = EndOf(arena, h) /\ PrevOf(arena, g) = h
    BY <2>2 DEF Placed
  <2>4. g # None => arena.handles[EndOf(arena, h)] = g
    <3> SUFFICES ASSUME g # None PROVE arena.handles[EndOf(arena, h)] = g
      OBVIOUS
    <3>1. g \in 1 .. n /\ InList(arena, g) /\ PtrOf(arena, g) = EndOf(arena, h)
      BY <1>2, <2>1, Neighbours
    <3> QED
      BY <1>2, <3>1 DEF Tiling, Known
  <2>5. /\ r.ptr <= PtrOf(arena, h) /\ PtrOf(arena, h) + SizeOf(arena, h) <= r.ptr + r.size
        /\ IF PtrOf(arena, h) + SizeOf(arena, h) = r.ptr + r.size THEN g = None
           ELSE /\ g # None /\ g = arena.handles[PtrOf(arena, h) + SizeOf(arena, h)]
                /\ PrevOf(arena, g) = h
    BY <2>2, <2>3, <2>4 DEF Within
  <2>6. PtrOf(arena, h) # Null /\ SizeOf(arena, h) > 0 /\ arena.handles[PtrOf(arena, h)] = h
    BY <2>1, <2>2 DEF Known, InList
  <2> QED
    BY <2>5, <2>6 DEF PtrOf, SizeOf, NextOf, PrevOf, Regions
<1> QED
  BY <1>1, <1>4, <1>5, <1>6 DEF ChunksTileRegions

\* The invariant implies that free chunks are filed and none of the helpers' ENFORCEs fires.
LEMMA MemoryFiled ==
  ASSUME MemoryInv
  PROVE  FreeChunksFiled /\ NoEnforceFires
<1> PICK n \in Nat : MemoryAt(n)
  BY DEF MemoryInv
<1>1. TypeOK /\ Len(arena.chunks) = n
  BY MemoryTypes DEF MemoryInv
<1>2. /\ arena \in Arenas(n) /\ Tiling(arena, n) /\ Filed(arena, n, {}) /\ Calm(arena, n) /\ ~arena.fault
  BY DEF MemoryAt, Shaped, Sound
<1>3. Handles = 1 .. n /\ Linked = {h \in 1 .. n : InList(arena, h)}
  BY <1>1, <1>2, LinkedInList DEF Handles, Linked
<1>4. ASSUME NEW h \in Handles, NEW b \in Bins
      PROVE  h \in arena.bins[b] <=> /\ h \in Linked /\ ~arena.chunks[h].used
                                     /\ b = BinNumForSize(arena.chunks[h].size)
  <2>1. /\ BinOf(arena, h) = IF InList(arena, h) /\ Idle(arena, h) THEN BinNumForSize(SizeOf(arena, h)) ELSE NoBin
        /\ h \in arena.bins[b] <=> BinOf(arena, h) = b
    BY <1>2, <1>3 DEF Filed
  <2>2. b # NoBin
    BY DEF NoBin, Bins
  <2>3. h \in Linked <=> InList(arena, h)
    BY <1>3
  <2> QED
    BY <2>1, <2>2, <2>3 DEF Idle, SizeOf
<1>5. ASSUME NEW h \in Linked, ~arena.chunks[h].used
      PROVE  LET g == arena.chunks[h].next IN
             g # None /\ ~arena.chunks[g].used => arena.chunks[g].stream # arena.chunks[h].stream
  <2>1. h \in 1 .. n /\ InList(arena, h) /\ Idle(arena, h)
    BY <1>3, <1>5 DEF Idle
  <2>2. ~Joinable(arena, h, NextOf(arena, h))
    BY <1>2, <2>1 DEF Calm, Settled
  <2> QED
    BY <2>2 DEF Joinable, Idle, NextOf, StreamOf
<1> QED
  BY <1>2, <1>4, <1>5 DEF FreeChunksFiled, NoEnforceFires

\* The client's claim at p is a reservation or a chunk.
LEMMA GrantedIs ==
  ASSUME NEW n \in Nat, MemoryAt(n), NEW p \in DOMAIN live
  PROVE  /\ p \in Addresses /\ Granted(p) \in Nat /\ live[p] <= Granted(p) /\ live[p] \in Nat
         /\ \/ p \in DOMAIN reserved /\ p \in DOMAIN device /\ Granted(p) = device[p] /\ Granted(p) = reserved[p]
            \/ p \notin DOMAIN reserved /\ \E k \in 1 .. n :
                 Held(arena, k) /\ PtrOf(arena, k) = p /\ Granted(p) = SizeOf(arena, k) /\ k = arena.handles[p]
<1>1. Holdings(arena, n, reserved, live) /\ Owned(arena.regions, device, reserved) /\ arena \in Arenas(n)
  BY DEF MemoryAt, Shaped
<1>2. p \in Addresses /\ live[p] \in Nat
  BY <1>1 DEF Holdings, Numbered
<1>3. CASE p \in DOMAIN reserved
  <2>1. p # Null
    BY <1>2, NullIsNoAddress
  <2>2. Granted(p) = reserved[p] /\ reserved[p] \in Nat /\ p \in DOMAIN device /\ device[p] = reserved[p]
        /\ live[p] = reserved[p]
    BY <1>1, <1>3, <2>1 DEF Granted, Owned, Numbered, Holdings
  <2> QED
    BY <1>2, <1>3, <2>2
<1>4. CASE p \notin DOMAIN reserved
  <2> PICK k : k = arena.handles[p]
    OBVIOUS
  <2>1. k \in 1 .. n /\ Held(arena, k) /\ PtrOf(arena, k) = p
    BY <1>4, ChunkOfClient
  <2>2. Granted(p) = SizeOf(arena, k)
    BY <1>4 DEF Granted, SizeOf
  <2>3. live[p] <= SizeOf(arena, k) /\ SizeOf(arena, k) \in Nat
    BY <1>1, <2>1, FieldTypes DEF Holdings
  <2> QED
    BY <1>2, <1>4, <2>1, <2>2, <2>3
<1> QED
  BY <1>3, <1>4

\* Every claim lies in one block, which is the reservation's own.
LEMMA ClaimInBlock ==
  ASSUME NEW n \in Nat, MemoryAt(n), NEW p \in DOMAIN live
  PROVE  /\ Granted(p) > 0
         /\ \E q \in DOMAIN device : /\ q <= p /\ p + Granted(p) <= q + device[q]
                                     /\ q \in DOMAIN reserved <=> p \in DOMAIN reserved
                                     /\ p \in DOMAIN reserved => q = p
<1>1. Blocks(device) /\ Owned(arena.regions, device, reserved) /\ arena \in Arenas(n) /\ Tiling(arena, n)
  BY DEF MemoryAt, Shaped, Sound
<1>2. p \in Addresses /\ p \in Int /\ Granted(p) \in Nat
  BY GrantedIs, NullIsNoAddress
<1>3. CASE p \in DOMAIN reserved
  <2>1. p \in DOMAIN device /\ Granted(p) = device[p]
    BY <1>3, GrantedIs
  <2>2. device[p] > 0 /\ p <= p
    BY <1>1, <1>2, <2>1 DEF Blocks
  <2> QED
    BY <1>2, <1>3, <2>1, <2>2
<1>4. CASE p \notin DOMAIN reserved
  <2>1. PICK k \in 1 .. n : Held(arena, k) /\ PtrOf(arena, k) = p /\ Granted(p) = SizeOf(arena, k)
    BY <1>4, GrantedIs
  <2>2. InList(arena, k)
    BY <2>1 DEF Held
  <2>3. PICK q \in DOMAIN device : q <= p /\ EndOf(arena, k) <= q + device[q] /\ q \notin DOMAIN reserved
    BY <1>1, <2>1, <2>2, ChunksApartFromReserved
  <2>4. SizeOf(arena, k) > 0
    BY <1>1, <2>2 DEF Tiling, Known
  <2> QED
    BY <1>4, <2>1, <2>3, <2>4 DEF EndOf
<1> QED
  BY <1>3, <1>4

\* Two claims do not overlap.
LEMMA ClaimsApart ==
  ASSUME NEW n \in Nat, MemoryAt(n), NEW p \in DOMAIN live, NEW q \in DOMAIN live, p < q
  PROVE  p + Granted(p) <= q
<1>1. Blocks(device) /\ arena \in Arenas(n) /\ Tiling(arena, n)
  BY DEF MemoryAt, Shaped, Sound
<1>2. p \in Int /\ q \in Int /\ Granted(p) \in Int /\ Granted(q) \in Int
  BY GrantedIs, NullIsNoAddress
<1>3. PICK x \in DOMAIN device : /\ x <= p /\ p + Granted(p) <= x + device[x]
                                 /\ x \in DOMAIN reserved <=> p \in DOMAIN reserved
                                 /\ p \in DOMAIN reserved => x = p
  BY ClaimInBlock
<1>4. PICK y \in DOMAIN device : /\ y <= q /\ q + Granted(q) <= y + device[y]
                                 /\ y \in DOMAIN reserved <=> q \in DOMAIN reserved
                                 /\ q \in DOMAIN reserved => y = q
  BY ClaimInBlock
<1>5. Granted(p) > 0 /\ Granted(q) > 0
  BY ClaimInBlock
<1>6. x \in Int /\ y \in Int /\ device[x] \in Int /\ device[y] \in Int
  BY <1>1, NullIsNoAddress DEF Blocks, Numbered
<1>7. CASE x < y
  <2>1. x + device[x] <= y
    BY <1>1, <1>7 DEF Blocks
  <2> QED
    BY <1>2, <1>3, <1>4, <1>6, <2>1
<1>8. CASE y < x
  <2>1. y + device[y] <= x
    BY <1>1, <1>8 DEF Blocks
  <2> QED
    BY <1>2, <1>3, <1>4, <1>5, <1>6, <2>1
<1>9. CASE x = y
  <2>1. p \notin DOMAIN reserved /\ q \notin DOMAIN reserved
    BY <1>2, <1>3, <1>4, <1>9
  <2>2. PICK k \in 1 .. n : Held(arena, k) /\ PtrOf(arena, k) = p /\ Granted(p) = SizeOf(arena, k)
    BY <2>1, GrantedIs
  <2>3. PICK j \in 1 .. n : Held(arena, j) /\ PtrOf(arena, j) = q /\ Granted(q) = SizeOf(arena, j)
    BY <2>1, GrantedIs
  <2>4. EndOf(arena, k) <= PtrOf(arena, j) \/ EndOf(arena, j) <= PtrOf(arena, k)
    BY <1>1, <1>2, <2>2, <2>3 DEF Held, Tiling, Spread
  <2> QED
    BY <1>2, <1>5, <2>2, <2>3, <2>4 DEF EndOf
<1> QED
  BY <1>6, <1>7, <1>8, <1>9

\* The invariant implies that no memory is in two clients' hands.
LEMMA MemoryDisjoint ==
  ASSUME MemoryInv
  PROVE  LiveMemoryDisjoint
<1> PICK n \in Nat : MemoryAt(n)
  BY DEF MemoryInv
<1>1. \A p \in DOMAIN live : live[p] <= Granted(p)
  BY GrantedIs
<1>2. \A p \in DOMAIN live : \E q \in DOMAIN device : q <= p /\ p + Granted(p) <= q + device[q]
  BY ClaimInBlock
<1>3. \A p, q \in DOMAIN live : p < q => p + Granted(p) <= q
  BY ClaimsApart
<1> QED
  BY <1>1, <1>2, <1>3 DEF LiveMemoryDisjoint

\* The invariant holds in every reachable state.
LEMMA MemoryAlways ==
  ASSUME Configured
  PROVE  Spec => []MemoryInv
<1>1. Init => MemoryInv
  BY MemoryInit
<1>2. MemoryInv /\ [Next]_vars => MemoryInv'
  BY MemoryStep
<1> QED
  BY <1>1, <1>2, PTL DEF Spec

\* At all times each region is tiled by its chunks, in address order, linked
\* both ways, and every chunk's handle is registered (ArenaImpl's SplitChunk,
\* Merge and region_manager_).
THEOREM ArenaTiles ==
  ASSUME Configured
  PROVE  Spec => []ChunksTileRegions
<1>1. MemoryInv => ChunksTileRegions
  BY MemoryTiles
<1> QED
  BY <1>1, MemoryAlways, PTL

\* At all times the free chunks, and no others, are in the bin of their size,
\* and free neighbours of one stream are merged.
THEOREM ArenaFiles ==
  ASSUME Configured
  PROVE  Spec => []FreeChunksFiled
<1>1. MemoryInv => FreeChunksFiled
  BY MemoryFiled
<1> QED
  BY <1>1, MemoryAlways, PTL

\* No ENFORCE on chunks, bins or handles ever fires.
THEOREM ArenaEnforcesHold ==
  ASSUME Configured
  PROVE  Spec => []NoEnforceFires
<1>1. MemoryInv => NoEnforceFires
  BY MemoryFiled
<1> QED
  BY <1>1, MemoryAlways, PTL

\* At no time is a byte of device memory in the hands of two clients, chunk or
\* reservation.
THEOREM ArenaKeepsClientsApart ==
  ASSUME Configured
  PROVE  Spec => []LiveMemoryDisjoint
<1>1. MemoryInv => LiveMemoryDisjoint
  BY MemoryDisjoint
<1> QED
  BY <1>1, MemoryAlways, PTL

\* What every client's pointer stands for, by its address.
Claims == [p \in DOMAIN live |-> Granted(p)]
Charged(a, n, v, l, c) ==
  /\ DOMAIN c = DOMAIN l /\ c = [p \in DOMAIN c |-> c[p]]
  /\ \A p \in DOMAIN v : p # Null => c[p] = v[p]
  /\ \A k \in 1 .. n : Held(a, k) => c[PtrOf(a, k)] = SizeOf(a, k)

ClaimsOf(a, v, l) ==
  [p \in DOMAIN l |-> IF p \in DOMAIN v THEN v[p] ELSE SizeOf(a, a.handles[p])]

\* A claim is of a chunk's size, or a reservation's.
LEMMA ClaimsCharge ==
  ASSUME NEW n \in Nat, NEW a, Shaped(a, n), NEW e, Blocks(e), NEW v, Owned(a.regions, e, v),
         NEW l, Holdings(a, n, v, l), NEW c, c = ClaimsOf(a, v, l)
  PROVE  Charged(a, n, v, l, c)
<1>1. a \in Arenas(n) /\ Tiling(a, n)
  BY DEF Shaped, Sound
<1>2. ASSUME NEW p \in DOMAIN v, p # Null PROVE c[p] = v[p]
  <2>1. p \in DOMAIN l
    BY <1>2 DEF Holdings
  <2> QED
    BY <1>2, <2>1 DEF ClaimsOf
<1>3. ASSUME NEW k \in 1 .. n, Held(a, k) PROVE c[PtrOf(a, k)] = SizeOf(a, k)
  <2> PICK p : p = PtrOf(a, k)
    OBVIOUS
  <2>1. InList(a, k) /\ p \in DOMAIN l
    BY <1>3 DEF Held, Holdings
  <2>2. p \notin DOMAIN v
    BY <1>1, <2>1, ChunksApartFromReserved
  <2>3. a.handles[p] = k
    BY <1>1, <2>1 DEF Tiling, Known
  <2> QED
    BY <2>1, <2>2, <2>3 DEF ClaimsOf
<1>4. DOMAIN c = DOMAIN l /\ c = [p \in DOMAIN c |-> c[p]]
  BY DEF ClaimsOf
<1> QED
  BY <1>2, <1>3, <1>4 DEF Charged

\* The claims are a function of the arena, the reservations and the live
\* memory.
LEMMA ClaimsAre ==
  /\ Claims = ClaimsOf(arena, reserved, live)
  /\ Claims' = ClaimsOf(arena', reserved', live')
  BY DEF Claims, Granted, ClaimsOf, SizeOf

\* So it is in every state of the invariant.
LEMMA ClaimsCharged ==
  ASSUME NEW n \in Nat
  PROVE  /\ MemoryAt(n) => Charged(arena, n, reserved, live, Claims)
         /\ MemoryAt(n)' => Charged(arena', n, reserved', live', Claims')
<1>1. ASSUME MemoryAt(n) PROVE Charged(arena, n, reserved, live, Claims)
  <2>1. /\ Shaped(arena, n) /\ Blocks(device) /\ Owned(arena.regions, device, reserved)
        /\ Holdings(arena, n, reserved, live)
    BY <1>1 DEF MemoryAt
  <2> QED
    BY <2>1, ClaimsCharge, ClaimsAre
<1>2. ASSUME MemoryAt(n)' PROVE Charged(arena', n, reserved', live', Claims')
  <2>1. /\ Shaped(arena', n) /\ Blocks(device') /\ Owned(arena'.regions, device', reserved')
        /\ Holdings(arena', n, reserved', live')
    BY <1>2 DEF MemoryAt, Shaped
  <2> QED
    BY <2>1, ClaimsCharge, ClaimsAre
<1> QED
  BY <1>1, <1>2

\* A claim whose reservation or chunk stays as it is stays as it is.
LEMMA SameCharge ==
  ASSUME NEW n \in Nat, NEW N \in Nat, NEW a, NEW b, NEW v, NEW w, NEW l, NEW m, NEW c, NEW d,
         Charged(a, n, v, l, c), Holdings(a, n, v, l), Charged(b, N, w, m, d),
         \A p \in DOMAIN v : p # Null /\ p \in DOMAIN m => p \in DOMAIN w /\ w[p] = v[p],
         \A k \in 1 .. n : Held(a, k) /\ PtrOf(a, k) \in DOMAIN m =>
           /\ k \in 1 .. N /\ Held(b, k) /\ PtrOf(b, k) = PtrOf(a, k) /\ SizeOf(b, k) = SizeOf(a, k)
  PROVE  \A p \in DOMAIN l : p \in DOMAIN m => d[p] = c[p]
<1> SUFFICES ASSUME NEW p \in DOMAIN l, p \in DOMAIN m PROVE d[p] = c[p]
  OBVIOUS
<1>1. p # Null
  BY NullIsNoAddress DEF Holdings
<1>2. CASE p \in DOMAIN v
  BY <1>1, <1>2 DEF Charged
<1>3. CASE p \notin DOMAIN v
  <2>1. PICK k \in 1 .. n : Held(a, k) /\ PtrOf(a, k) = p
    BY <1>3 DEF Holdings
  <2>2. c[p] = SizeOf(a, k) /\ k \in 1 .. N /\ Held(b, k) /\ PtrOf(b, k) = p /\ SizeOf(b, k) = SizeOf(a, k)
    BY <2>1 DEF Charged
  <2> QED
    BY <2>2 DEF Charged
<1> QED
  BY <1>2, <1>3

\* Claims stay while the chunks in use and the live memory do.
LEMMA SameClaims ==
  ASSUME NEW n \in Nat, NEW a, NEW b, NEW v, NEW l, NEW c, NEW d,
         Charged(a, n, v, l, c), Holdings(a, n, v, l), Charged(b, n, v, l, d), SameHeld(a, b, n)
  PROVE  d = c
<1>1. \A p \in DOMAIN l : p \in DOMAIN l => d[p] = c[p]
  <2>1. \A k \in 1 .. n : Held(a, k) /\ PtrOf(a, k) \in DOMAIN l =>
           /\ k \in 1 .. n /\ Held(b, k) /\ PtrOf(b, k) = PtrOf(a, k) /\ SizeOf(b, k) = SizeOf(a, k)
    BY DEF SameHeld
  <2> QED
    BY <2>1, SameCharge
<1>2. DOMAIN c = DOMAIN d
  BY DEF Charged
<1> QED
  BY <1>1, <1>2 DEF Charged

\* What a step does to the statistics, the device's blocks and the claims.
Booked(total, inUse, extensions) ==
  /\ stats'.total = stats.total + total
  /\ stats'.inUse = stats.inUse + inUse
  /\ stats'.extensions = stats.extensions + extensions
SameBlocks == arena'.regions = arena.regions /\ device' = device /\ reserved' = reserved

Kept(c, d) == SameBlocks /\ d = c /\ Booked(0, 0, 0)
HandsOut(c, d) ==
  \E p, g : SameBlocks /\ Gains(c, d, p, g) /\ p \notin DOMAIN c /\ Booked(0, g, 0)
Grows(c, d) ==
  \E p, size, g :
    /\ Gains(device, device', p, size) /\ p \notin DOMAIN device
    /\ Gains(c, d, p, g) /\ p \notin DOMAIN c /\ g <= size
    /\ arena'.regions = arena.regions \cup {NewRegion(p, size)} /\ NewRegion(p, size) \notin arena.regions
    /\ reserved' = reserved /\ Booked(size, g, 1)
Strands(c, d) ==
  \E p, size :
    /\ Gains(device, device', p, size) /\ p \notin DOMAIN device /\ d = c
    /\ arena'.regions = arena.regions /\ reserved' = reserved /\ Booked(size, 0, 0)
    /\ ~Whole(curr_region_allocation_bytes)
Reserves(c, d) ==
  \E p, bytes :
    /\ Gains(device, device', p, bytes) /\ p \notin DOMAIN device
    /\ Gains(c, d, p, bytes) /\ p \notin DOMAIN c /\ Gains(reserved, reserved', p, bytes)
    /\ arena'.regions = arena.regions /\ Booked(bytes, bytes, 0)
ReservesNothing(c, d) ==
  \E bytes \in ReserveSizes :
    /\ bytes > DeviceCap /\ device' = device /\ d = c /\ Gains(reserved, reserved', Null, bytes)
    /\ arena'.regions = arena.regions /\ Booked(bytes, bytes, 0)
TakesBack(c, d) ==
  \E p \in DOMAIN c : SameBlocks /\ Loses(c, d, {p}) /\ Booked(0, -c[p], 0)
GivesBack(c, d) ==
  \E p \in DOMAIN c :
    /\ Loses(c, d, {p}) /\ Loses(device, device', {p}) /\ Loses(reserved, reserved', {p})
    /\ p \in DOMAIN device /\ p \in DOMAIN reserved /\ device[p] = c[p]
    /\ arena'.regions = arena.regions /\ Booked(-c[p], -c[p], 0)
Shrinks(c, d) ==
  /\ device' = Restrict(device, DOMAIN device \ {r.ptr : r \in Gone}) /\ d = c
  /\ arena'.regions = arena.regions \ Gone /\ reserved' = reserved
  /\ Booked(-SumFunction([r \in Gone |-> r.size]), 0, -Cardinality(Gone))

Effect(c, d) ==
  \/ Kept(c, d) \/ HandsOut(c, d) \/ Grows(c, d) \/ Strands(c, d) \/ Reserves(c, d)
  \/ ReservesNothing(c, d) \/ TakesBack(c, d) \/ GivesBack(c, d) \/ Shrinks(c, d)

\* A delivered chunk is a new claim; the others stay.
LEMMA DeliveredClaims ==
  ASSUME NEW n \in Nat, NEW N \in Nat, NEW a, NEW v, NEW l, NEW m, NEW c, NEW d, NEW b, NEW h, NEW rounded, NEW bytes,
         Charged(a, n, v, l, c), Holdings(a, n, v, l), Charged(b, N, v, m, d),
         Taken(a, b, n, N, h, rounded), h \in 1 .. n, h \in 1 .. N, ~Held(a, h),
         Gains(l, m, PtrOf(a, h), bytes), PtrOf(a, h) \notin DOMAIN l
  PROVE  Gains(c, d, PtrOf(a, h), SizeOf(b, h)) /\ PtrOf(a, h) \notin DOMAIN c
<1> PICK p : p = PtrOf(a, h)
  OBVIOUS
<1>1. DOMAIN c = DOMAIN l /\ DOMAIN d = DOMAIN l \cup {p} /\ p \notin DOMAIN l
  BY DEF Charged, Gains
<1>2. \A q \in DOMAIN l : q \in DOMAIN m => d[q] = c[q]
  <2>1. \A q \in DOMAIN v : q # Null /\ q \in DOMAIN m => q \in DOMAIN v /\ v[q] = v[q]
    OBVIOUS
  <2>2. ASSUME NEW k \in 1 .. n, Held(a, k)
        PROVE  k \in 1 .. N /\ Held(b, k) /\ PtrOf(b, k) = PtrOf(a, k) /\ SizeOf(b, k) = SizeOf(a, k)
    <3>1. k # h /\ n <= N
      BY <2>2 DEF Taken
    <3>2. k \in 1 .. N
      BY <3>1
    <3> QED
      BY <2>2, <3>1, <3>2 DEF Taken
  <2>3. \A k \in 1 .. n : Held(a, k) /\ PtrOf(a, k) \in DOMAIN m =>
           /\ k \in 1 .. N /\ Held(b, k) /\ PtrOf(b, k) = PtrOf(a, k) /\ SizeOf(b, k) = SizeOf(a, k)
    BY <2>2
  <2> QED
    BY <2>1, <2>3, SameCharge
<1>3. d[p] = SizeOf(b, h)
  <2>1. Held(b, h) /\ PtrOf(b, h) = p
    BY DEF Taken
  <2> QED
    BY <2>1 DEF Charged
<1> QED
  BY <1>1, <1>2, <1>3 DEF Gains

\* A request served from the bins adds one claim.
LEMMA FromBinEffect ==
  ASSUME Configured, Counters, NEW n \in Nat, MemoryAt(n), NEW c, c = Claims, NEW d, d = Claims',
         NEW bytes \in Sizes, NEW s \in Streams \cup {NoStream}, AllocFromBin(bytes, s)
  PROVE  HandsOut(c, d)
<1> PICK a : a = RegisterStream(arena, s)
  OBVIOUS
<1>1. PICK N \in Nat, h \in 1 .. n : Delivered(a, n, N, h, s, bytes) /\ MemoryAt(N)'
  BY FromBinDelivers
<1>2. /\ Holdings(a, n, reserved, live) /\ SameHeld(arena, a, n) /\ a.regions = arena.regions
      /\ Holdings(arena, n, reserved, live)
  BY Registering DEF MemoryAt
<1>3. Charged(arena, n, reserved, live, c)
  BY ClaimsCharged
<1>4. Charged(a, n, reserved, live, c)
  BY <1>2, <1>3 DEF Charged, SameHeld
<1>5. UNCHANGED <<device, reserved>> /\ stats' = [stats EXCEPT !.inUse = @ + GrantedSize(a, RoundedBytes(bytes), s)]
  BY DEF AllocFromBin
<1>6. Charged(arena', N, reserved', live', d)
  BY <1>1, ClaimsCharged
<1>7. Charged(arena', N, reserved, live', d)
  BY <1>5, <1>6
<1> PICK rounded : rounded = RoundedBytes(bytes)
  OBVIOUS
<1>8. /\ Taken(a, arena', n, N, h, rounded) /\ h \in 1 .. N /\ Idle(a, h)
      /\ Gains(live, live', PtrOf(a, h), bytes) /\ PtrOf(a, h) \notin DOMAIN live
      /\ GrantedSize(a, rounded, s) = SizeOf(arena', h) /\ arena'.regions = a.regions
  BY <1>1 DEF Delivered, Taken, Fits
<1>9. ~Held(a, h)
  BY <1>8 DEF Held
<1>10. Gains(c, d, PtrOf(a, h), SizeOf(arena', h)) /\ PtrOf(a, h) \notin DOMAIN c
  BY <1>2, <1>4, <1>7, <1>8, <1>9, DeliveredClaims
<1>11. SameBlocks
  BY <1>2, <1>5, <1>8 DEF SameBlocks
<1>12. Booked(0, SizeOf(arena', h), 0)
  BY <1>5, <1>8 DEF Counters, Booked
<1> QED
  BY <1>10, <1>11, <1>12 DEF HandsOut

\* When nothing fitted before an extension, what it delivers is the new chunk.
LEMMA ServedIsNew ==
  ASSUME NEW n \in Nat, NEW a, Shaped(a, n), NEW R, NEW N \in Nat, NEW m, NEW r, Enlarged(a, R, n, N, m, r),
         NEW rounded \in Nat, NEW s, Fitting(a, rounded, s) = {}, NEW h \in 1 .. N, Fits(R, N, rounded, s, h)
  PROVE  h = m
<1> SUFFICES ASSUME h # m PROVE FALSE
  OBVIOUS
<1>1. /\ h \in 1 .. n /\ (InList(R, h) <=> InList(a, h)) /\ (Idle(R, h) <=> Idle(a, h))
      /\ SizeOf(R, h) = SizeOf(a, h) /\ StreamOf(R, h) = StreamOf(a, h) /\ SyncOf(R, h) = SyncOf(a, h)
  BY DEF Enlarged
<1>2. SafeToUse(R.chunks[h], s) => SafeToUse(a.chunks[h], s)
  BY <1>1 DEF SafeToUse, StreamOf, SyncOf
<1>3. Fits(a, n, rounded, s, h)
  BY <1>1, <1>2 DEF Fits
<1>4. a \in Arenas(n) /\ Sound(a, n, {})
  BY DEF Shaped
<1> QED
  BY <1>3, <1>4, FittingMembers

\* A chunk at the start of a block is no longer than the block.
LEMMA ChunkWithinBlock ==
  ASSUME NEW n \in Nat, NEW a, Shaped(a, n), NEW e, Blocks(e), NEW v, Owned(a.regions, e, v),
         NEW h \in 1 .. n, Held(a, h), PtrOf(a, h) \in DOMAIN e
  PROVE  SizeOf(a, h) <= e[PtrOf(a, h)]
<1> PICK p : p = PtrOf(a, h)
  OBVIOUS
<1>1. a \in Arenas(n) /\ Tiling(a, n) /\ InList(a, h)
  BY DEF Shaped, Sound, Held
<1>2. PICK q \in DOMAIN e : q <= p /\ EndOf(a, h) <= q + e[q]
  BY <1>1, ChunksApartFromReserved
<1>3. p \in Int /\ q \in Int /\ e[q] \in Int /\ e[p] \in Int /\ SizeOf(a, h) \in Nat
  BY <1>1, FieldTypes, NullIsNoAddress DEF Blocks, Numbered
<1>4. SizeOf(a, h) > 0
  BY <1>1 DEF Tiling, Known
<1>5. q < p => q + e[q] <= p
  BY DEF Blocks
<1> QED
  BY <1>2, <1>3, <1>4, <1>5 DEF EndOf

\* A request that extends the arena adds a block and a claim in it, or strands
\* the block.
LEMMA ExtendEffect ==
  ASSUME Configured, Counters, NEW n \in Nat, MemoryAt(n), NEW c, c = Claims, NEW d, d = Claims',
         NEW bytes \in Sizes, NEW s \in Streams \cup {NoStream}, AllocExtend(bytes, s)
  PROVE  Grows(c, d) \/ Strands(c, d)
<1> PICK a : a = RegisterStream(arena, s)
  OBVIOUS
<1> PICK rounded : rounded = RoundedBytes(bytes)
  OBVIOUS
<1>1. PICK p, size : /\ Obtained(p, size) /\ size = Attempt(ExtendBytes(rounded), rounded)
                     /\ \/ Unserved(a, n, size)
                        \/ \E R, N, m, M, h : Served(a, n, p, size, R, N, m, M, h, s, bytes)
  BY ExtendDelivers
<1>2. /\ Holdings(a, n, reserved, live) /\ SameHeld(arena, a, n) /\ a.regions = arena.regions /\ Shaped(a, n)
      /\ Holdings(arena, n, reserved, live)
  BY Registering DEF MemoryAt
<1>3. Charged(arena, n, reserved, live, c)
  BY ClaimsCharged
<1>4. Charged(a, n, reserved, live, c)
  BY <1>2, <1>3 DEF Charged, SameHeld
<1>5. Fitting(a, rounded, s) = {} /\ rounded <= Available
  BY DEF AllocExtend
<1>6. bytes \in Nat \ {0} /\ rounded \in Nat
  BY ArenaConstants, RoundedUp DEF Whole
<1>7. /\ Gains(device, device', p, size) /\ p \notin DOMAIN device /\ stats'.total = stats.total + size
      /\ reserved' = reserved /\ size \in Nat
  BY <1>1 DEF Obtained
<1>8. stats.total \in Int /\ stats.inUse \in Int /\ stats.extensions \in Int
  BY DEF Counters
<1>9. CASE Unserved(a, n, size)
  <2>1. /\ ~Whole(size) /\ arena' = a /\ live' = live /\ stats'.inUse = stats.inUse
        /\ stats'.extensions = stats.extensions /\ MemoryAt(n)'
    BY <1>9 DEF Unserved
  <2>2. Charged(a, n, reserved, live, d)
    BY <1>7, <2>1, ClaimsCharged
  <2>3. SameHeld(a, a, n)
    BY DEF SameHeld
  <2>4. d = c
    BY <1>2, <1>4, <2>2, <2>3, SameClaims
  <2>5. ~Whole(curr_region_allocation_bytes)
    BY <1>1, <1>5, <1>6, <2>1, Asked
  <2>6. Booked(size, 0, 0)
    BY <1>7, <1>8, <2>1 DEF Booked
  <2> QED
    BY <1>2, <1>7, <2>1, <2>4, <2>5, <2>6 DEF Strands
<1>10. CASE \E R, N, m, M, h : Served(a, n, p, size, R, N, m, M, h, s, bytes)
  <2>1. PICK R, N, m, M, h : Served(a, n, p, size, R, N, m, M, h, s, bytes)
    BY <1>10
  <2> PICK r : r = NewRegion(p, size)
    OBVIOUS
  <2>2. /\ N \in Nat /\ M \in Nat /\ Enlarged(a, R, n, N, m, r) /\ r \notin a.regions
        /\ Delivered(R, N, M, h, s, bytes) /\ MemoryAt(M)'
        /\ stats'.inUse = stats.inUse + SizeOf(arena', h) /\ stats'.extensions = stats.extensions + 1
    BY <2>1 DEF Served
  <2>3. /\ h \in 1 .. N /\ h \in 1 .. M /\ Fits(R, N, rounded, s, h) /\ Idle(R, h)
        /\ Taken(R, arena', N, M, h, rounded) /\ Gains(live, live', PtrOf(R, h), bytes)
        /\ PtrOf(R, h) \notin DOMAIN live
    BY <2>2 DEF Delivered, Fits
  <2>4. PtrOf(R, h) = p
    <3>1. h = m
      BY <1>2, <1>5, <1>6, <2>2, <2>3, ServedIsNew
    <3>2. PtrOf(R, m) = r.ptr /\ r.ptr = p
      BY <2>2 DEF Enlarged, NewRegion
    <3> QED
      BY <3>1, <3>2
  <2>5. Holdings(R, N, reserved, live) /\ \A k \in 1 .. N : Held(R, k) <=> k \in 1 .. n /\ Held(a, k)
    BY <1>2, <2>2, EnlargedHoldings
  <2>6. Charged(R, N, reserved, live, c)
    <3>1. ASSUME NEW k \in 1 .. N, Held(R, k) PROVE c[PtrOf(R, k)] = SizeOf(R, k)
      <4>1. k \in 1 .. n /\ Held(a, k) /\ k # m
        BY <2>2, <2>5, <3>1 DEF Enlarged, Held
      <4> QED
        BY <1>4, <2>2, <4>1 DEF Enlarged, Charged
    <3> QED
      BY <1>4, <3>1 DEF Charged
  <2>7. Charged(arena', M, reserved, live', d)
    BY <1>7, <2>2, ClaimsCharged
  <2>8. ~Held(R, h)
    BY <2>3 DEF Held
  <2>9. Gains(c, d, PtrOf(R, h), SizeOf(arena', h)) /\ PtrOf(R, h) \notin DOMAIN c
    BY <2>2, <2>3, <2>5, <2>6, <2>7, <2>8, DeliveredClaims
  <2>10. SizeOf(arena', h) <= size
    <3>1. Shaped(arena', M) /\ Blocks(device') /\ Owned(arena'.regions, device', reserved')
      BY <2>2 DEF MemoryAt, Shaped
    <3>2. Held(arena', h) /\ PtrOf(arena', h) = p
      BY <2>3, <2>4 DEF Taken
    <3>3. p \in DOMAIN device' /\ device'[p] = size
      BY <1>7 DEF Gains
    <3> QED
      BY <2>2, <2>3, <3>1, <3>2, <3>3, ChunkWithinBlock
  <2>11. arena'.regions = arena.regions \cup {r} /\ r \notin arena.regions
    BY <1>2, <2>2, <2>3 DEF Taken, Enlarged
  <2>12. Booked(size, SizeOf(arena', h), 1)
    BY <1>7, <2>2 DEF Booked
  <2> QED
    BY <1>7, <2>4, <2>9, <2>10, <2>11, <2>12 DEF Grows
<1> QED
  BY <1>1, <1>9, <1>10

\* Reserve adds a block that is one claim, or books memory it did not get.
LEMMA ReserveEffect ==
  ASSUME Counters, NEW n \in Nat, MemoryAt(n), NEW c, c = Claims, NEW d, d = Claims',
         NEW bytes \in ReserveSizes, Reserve(bytes)
  PROVE  Reserves(c, d) \/ ReservesNothing(c, d)
<1>1. /\ MemoryAt(n)' /\ arena' = arena
      /\ stats'.total = stats.total + bytes /\ stats'.inUse = stats.inUse + bytes
      /\ stats'.extensions = stats.extensions
  BY ReserveKeeps
<1>2. /\ Charged(arena, n, reserved, live, c) /\ Charged(arena, n, reserved', live', d)
      /\ Holdings(arena, n, reserved, live) /\ Holdings(arena, n, reserved', live')
  BY <1>1, ClaimsCharged DEF MemoryAt
<1>3. stats.extensions \in Int
  BY DEF Counters
<1>4. Booked(bytes, bytes, 0)
  BY <1>1, <1>3 DEF Booked
<1>5. CASE /\ bytes > DeviceCap /\ Gains(reserved, reserved', Null, bytes) /\ device' = device /\ live' = live
  <2>1. \A p \in DOMAIN reserved : p # Null /\ p \in DOMAIN live' => p \in DOMAIN reserved' /\ reserved'[p] = reserved[p]
    BY <1>5 DEF Gains
  <2>2. \A p \in DOMAIN live : p \in DOMAIN live' => d[p] = c[p]
    BY <1>2, <2>1, SameCharge
  <2>3. d = c
    BY <1>2, <1>5, <2>2 DEF Charged
  <2> QED
    BY <1>1, <1>4, <1>5, <2>3 DEF ReservesNothing
<1>6. CASE \E p \in Addresses :
                 /\ Gains(device, device', p, bytes) /\ Gains(reserved, reserved', p, bytes)
                 /\ Gains(live, live', p, bytes)
                 /\ p \notin DOMAIN device /\ p \notin DOMAIN reserved /\ p \notin DOMAIN live
  <2>1. PICK p \in Addresses :
                 /\ Gains(device, device', p, bytes) /\ Gains(reserved, reserved', p, bytes)
                 /\ Gains(live, live', p, bytes)
                 /\ p \notin DOMAIN device /\ p \notin DOMAIN reserved /\ p \notin DOMAIN live
    BY <1>6
  <2>2. \A q \in DOMAIN reserved : q # Null /\ q \in DOMAIN live' => q \in DOMAIN reserved' /\ reserved'[q] = reserved[q]
    BY <2>1 DEF Gains
  <2>3. \A q \in DOMAIN live : q \in DOMAIN live' => d[q] = c[q]
    BY <1>2, <2>2, SameCharge
  <2>4. p # Null /\ p \in DOMAIN reserved' /\ reserved'[p] = bytes
    BY <2>1, NullIsNoAddress DEF Gains
  <2>5. d[p] = bytes
    BY <1>2, <2>4 DEF Charged
  <2>6. Gains(c, d, p, bytes) /\ p \notin DOMAIN c
    BY <1>2, <2>1, <2>3, <2>5 DEF Charged, Gains
  <2> QED
    BY <1>1, <1>4, <2>1, <2>6 DEF Reserves
<1> QED
  BY <1>5, <1>6, ReserveKeeps

\* Free takes one claim away, with its block if it is a reservation.
LEMMA FreeEffect ==
  ASSUME Counters, NEW n \in Nat, MemoryAt(n), NEW c, c = Claims, NEW d, d = Claims',
         NEW p \in DOMAIN live, Free(p)
  PROVE  TakesBack(c, d) \/ GivesBack(c, d)
<1>1. Charged(arena, n, reserved, live, c) /\ Holdings(arena, n, reserved, live)
  BY ClaimsCharged DEF MemoryAt
<1>2. p \in DOMAIN c /\ p # Null
  BY <1>1, NullIsNoAddress DEF Charged, Holdings
<1>3. CASE FreeReserved(p)
  <2> PICK S : S = {p}
    OBVIOUS
  <2>1. /\ MemoryAt(n)' /\ arena' = arena
        /\ Loses(device, device', S) /\ Loses(reserved, reserved', S) /\ Loses(live, live', S)
        /\ p \in DOMAIN device /\ p \in DOMAIN reserved /\ reserved[p] = device[p]
        /\ stats'.total = stats.total - reserved[p] /\ stats'.inUse = stats.inUse - reserved[p]
        /\ stats'.extensions = stats.extensions
    BY <1>3, FreeReservedKeeps
  <2>2. Charged(arena, n, reserved', live', d)
    BY <2>1, ClaimsCharged
  <2>3. \A q \in DOMAIN reserved : q # Null /\ q \in DOMAIN live' => q \in DOMAIN reserved' /\ reserved'[q] = reserved[q]
    BY <2>1 DEF Loses
  <2>4. \A q \in DOMAIN live : q \in DOMAIN live' => d[q] = c[q]
    BY <1>1, <2>2, <2>3, SameCharge
  <2>5. c[p] = reserved[p]
    BY <1>1, <1>2, <2>1 DEF Charged
  <2>6. Loses(c, d, S)
    BY <1>1, <2>1, <2>2, <2>4 DEF Charged, Loses
  <2>7. stats.total \in Int /\ stats.inUse \in Int /\ stats.extensions \in Int /\ reserved[p] \in Int
    BY <2>1 DEF Counters, MemoryAt, Owned, Numbered
  <2>8. Booked(-c[p], -c[p], 0)
    BY <2>1, <2>5, <2>7 DEF Booked
  <2> QED
    BY <1>2, <2>1, <2>5, <2>6, <2>8 DEF GivesBack
<1>4. CASE FreeChunk(p)
  <2> PICK S : S = {p}
    OBVIOUS
  <2> PICK h : h = arena.handles[p]
    OBVIOUS
  <2>1. /\ MemoryAt(n)' /\ device' = device /\ reserved' = reserved /\ Loses(live, live', S)
        /\ h \in 1 .. n /\ Held(arena, h) /\ PtrOf(arena, h) = p
        /\ stats'.total = stats.total /\ stats'.inUse = stats.inUse - SizeOf(arena, h)
        /\ stats'.extensions = stats.extensions /\ arena'.regions = arena.regions
        /\ \A k \in 1 .. n : /\ Held(arena', k) <=> Held(arena, k) /\ k # h
                             /\ Held(arena', k) => /\ PtrOf(arena', k) = PtrOf(arena, k)
                                                   /\ SizeOf(arena', k) = SizeOf(arena, k)
    BY <1>4, FreeChunkKeeps
  <2>2. Charged(arena', n, reserved, live', d)
    BY <2>1, ClaimsCharged
  <2>3. \A k \in 1 .. n : Held(arena, k) /\ PtrOf(arena, k) \in DOMAIN live' =>
           /\ k \in 1 .. n /\ Held(arena', k) /\ PtrOf(arena', k) = PtrOf(arena, k)
           /\ SizeOf(arena', k) = SizeOf(arena, k)
    <3>1. p \notin DOMAIN live'
      BY <2>1 DEF Loses
    <3> QED
      BY <2>1, <3>1
  <2>4. \A q \in DOMAIN live : q \in DOMAIN live' => d[q] = c[q]
    BY <1>1, <2>2, <2>3, SameCharge
  <2>5. c[p] = SizeOf(arena, h)
    BY <1>1, <2>1 DEF Charged
  <2>6. Loses(c, d, S)
    BY <1>1, <2>1, <2>2, <2>4 DEF Charged, Loses
  <2>7. stats.total \in Int /\ stats.inUse \in Int /\ stats.extensions \in Int /\ SizeOf(arena, h) \in Int
    <3>1. arena \in Arenas(n)
      BY DEF MemoryAt, Shaped
    <3> QED
      BY <2>1, <3>1, FieldTypes DEF Counters
  <2>8. Booked(0, -c[p], 0)
    BY <2>1, <2>5, <2>7 DEF Booked
  <2>9. SameBlocks
    BY <2>1 DEF SameBlocks
  <2> QED
    BY <1>2, <2>6, <2>8, <2>9 DEF TakesBack
<1> QED
  BY <1>3, <1>4 DEF Free

\* Steps that leave the chunks in use as they are leave the claims as they are.
LEMMA QuietClaims ==
  ASSUME NEW n \in Nat, MemoryAt(n), MemoryAt(n)', SameHeld(arena, arena', n), reserved' = reserved, live' = live
  PROVE  Claims' = Claims
<1> PICK c : c = Claims
  OBVIOUS
<1> PICK d : d = Claims'
  OBVIOUS
<1>1. /\ Charged(arena, n, reserved, live, c) /\ Holdings(arena, n, reserved, live)
      /\ Charged(arena', n, reserved, live, d)
  BY ClaimsCharged DEF MemoryAt
<1> QED
  BY <1>1, SameClaims

\* The sizes of the regions given back add up.
LEMMA GoneSums ==
  ASSUME NEW n \in Nat, MemoryAt(n)
  PROVE  /\ IsFiniteSet(arena.regions) /\ arena.regions \subseteq RegionSet /\ Gone \subseteq arena.regions
         /\ IsFiniteSet(Gone) /\ Cardinality(Gone) \in Nat
         /\ [r \in Gone |-> r.size] \in [Gone -> Int] /\ SumFunction([r \in Gone |-> r.size]) \in Int
<1>1. arena \in Arenas(n) /\ IsFiniteSet(arena.regions) /\ arena.regions \subseteq RegionSet
  BY DEF MemoryAt, Shaped, Sound, Tiling, RegionsApart, Arenas
<1>2. Gone \subseteq arena.regions
  BY DEF Gone
<1>3. IsFiniteSet(Gone)
  BY <1>1, <1>2, FS_Subset
<1>4. [r \in Gone |-> r.size] \in [Gone -> Int]
  BY <1>1, <1>2 DEF RegionSet
<1> QED
  BY <1>1, <1>2, <1>3, <1>4, SumIsInteger, FS_CardinalityType

\* What each step does to the device's blocks, the claims and the statistics.
LEMMA Effects ==
  ASSUME Configured, MemoryInv, [Next]_vars, NEW c, c = Claims, NEW d, d = Claims'
  PROVE  Effect(c, d)
<1> PICK n \in Nat : MemoryAt(n)
  BY DEF MemoryInv
<1>1. Counters
  BY DEF MemoryInv
<1>2. stats.total \in Int /\ stats.inUse \in Int /\ stats.extensions \in Int
  BY <1>1 DEF Counters
<1>3. stats' = stats => Booked(0, 0, 0)
  BY <1>2 DEF Booked
<1>4. SameHeld(arena, arena, n)
  BY DEF SameHeld
<1>5. ASSUME NEW bytes \in Sizes, NEW s \in Streams \cup {NoStream}, Allocate(bytes, s) PROVE Effect(c, d)
  <2>1. CASE AllocFromBin(bytes, s)
    <3>1. HandsOut(c, d)
      BY <1>1, <2>1, FromBinEffect
    <3> QED
      BY <3>1 DEF Effect
  <2>2. CASE AllocExtend(bytes, s)
    <3>1. Grows(c, d) \/ Strands(c, d)
      BY <1>1, <2>2, ExtendEffect
    <3> QED
      BY <3>1 DEF Effect
  <2>3. CASE AllocOverLimit(bytes, s) \/ AllocDeviceFails(bytes, s)
    <3> PICK a : a = RegisterStream(arena, s)
      OBVIOUS
    <3>1. /\ MemoryAt(n)' /\ arena' = a
          /\ stats' = stats /\ reserved' = reserved /\ device' = device /\ live' = live
      BY <1>1, <2>3, FailureKeeps
    <3>2. SameHeld(arena, arena', n) /\ arena'.regions = arena.regions
      BY <3>1, Registering
    <3>3. d = c
      BY <3>1, <3>2, QuietClaims
    <3> QED
      BY <1>3, <3>1, <3>2, <3>3 DEF Effect, Kept, SameBlocks
  <2> QED
    BY <1>5, <2>1, <2>2, <2>3 DEF Allocate
<1>6. ASSUME NEW bytes \in ReserveSizes, Reserve(bytes) PROVE Effect(c, d)
  BY <1>1, <1>6, ReserveEffect DEF Effect
<1>7. ASSUME NEW p \in DOMAIN live, Free(p) PROVE Effect(c, d)
  BY <1>1, <1>7, FreeEffect DEF Effect
<1>8. ASSUME NEW s \in Streams, ResetChunksUsingStream(s) PROVE Effect(c, d)
  <2>1. /\ MemoryAt(n)' /\ arena'.regions = arena.regions /\ SameHeld(arena, arena', n)
        /\ stats' = stats /\ reserved' = reserved /\ device' = device /\ live' = live
    BY <1>1, <1>8, ResetKeeps
  <2>2. d = c
    BY <2>1, QuietClaims
  <2> QED
    BY <1>3, <2>1, <2>2 DEF Effect, Kept, SameBlocks
<1>9. ASSUME Shrink PROVE Effect(c, d)
  <2>1. /\ MemoryAt(n)' /\ Thinned(arena, arena', n, Gone) /\ SameHeld(arena, arena', n)
        /\ reserved' = reserved /\ live' = live
        /\ device' = Restrict(device, DOMAIN device \ {r.ptr : r \in Gone})
        /\ stats'.inUse = stats.inUse /\ stats'.total = stats.total - SumFunction([r \in Gone |-> r.size])
        /\ stats'.extensions = stats.extensions - Cardinality(Gone)
    BY <1>1, <1>9, ShrinkKeeps
  <2>2. d = c
    BY <2>1, QuietClaims
  <2>3. arena'.regions = arena.regions \ Gone
    BY <2>1 DEF Thinned
  <2>4. SumFunction([r \in Gone |-> r.size]) \in Int /\ Cardinality(Gone) \in Nat
    BY GoneSums
  <2>5. Booked(-SumFunction([r \in Gone |-> r.size]), 0, -Cardinality(Gone))
    BY <1>2, <2>1, <2>4 DEF Booked
  <2> QED
    BY <2>1, <2>2, <2>3, <2>5 DEF Effect, Shrinks
<1>10. ASSUME NEW s \in Streams, NEW t \in Streams, Synchronize(s, t) PROVE Effect(c, d)
  <2>1. /\ MemoryAt(n)' /\ arena' = arena
        /\ stats' = stats /\ reserved' = reserved /\ device' = device /\ live' = live
    BY <1>1, <1>10, SynchronizeKeeps
  <2>2. d = c
    BY <1>4, <2>1, QuietClaims
  <2> QED
    BY <1>3, <2>1, <2>2 DEF Effect, Kept, SameBlocks
<1>11. CASE UNCHANGED vars
  <2>1. /\ arena' = arena /\ stats' = stats /\ reserved' = reserved /\ device' = device /\ live' = live
    BY <1>11 DEF vars
  <2>2. d = c
    BY <2>1, ClaimsAre
  <2> QED
    BY <1>3, <2>1, <2>2 DEF Effect, Kept, SameBlocks
<1> QED
  BY <1>5, <1>6, <1>7, <1>8, <1>9, <1>10, <1>11 DEF Next

\* The growth sizes of the configuration are whole units.
WholeGrowth == Whole(InitialGrowth) /\ Whole(MaxPow2)
PoolInv == Whole(curr_region_allocation_bytes) /\ NoDeviceLeak

\* Region sizes stay whole when the growth settings are.
LEMMA WholeRegionBytes ==
  ASSUME Configured, WholeGrowth, Counters, Whole(curr_region_allocation_bytes), [Next]_vars
  PROVE  Whole(curr_region_allocation_bytes')
<1>1. CASE curr_region_allocation_bytes' = curr_region_allocation_bytes
  BY <1>1
<1>2. ASSUME NEW bytes \in Sizes, RoundedBytes(bytes) <= Available,
             curr_region_allocation_bytes' = NextRegionBytes(RoundedBytes(bytes))
      PROVE  Whole(curr_region_allocation_bytes')
  <2>1. bytes \in Nat \ {0} /\ Whole(MaxPow2)
    BY ArenaConstants DEF WholeGrowth
  <2> QED
    BY <1>2, <2>1, Asked
<1>3. CASE Shrink
  BY <1>3 DEF Shrink, WholeGrowth
<1>4. ASSUME NEW bytes \in Sizes, NEW s \in Streams \cup {NoStream}, Allocate(bytes, s)
      PROVE  Whole(curr_region_allocation_bytes')
  <2>1. CASE AllocFromBin(bytes, s)
    BY <1>1, <2>1 DEF AllocFromBin
  <2>2. CASE AllocExtend(bytes, s)
    BY <1>2, <2>2 DEF AllocExtend
  <2>3. CASE AllocOverLimit(bytes, s)
    BY <1>1, <2>3 DEF AllocOverLimit
  <2>4. CASE AllocDeviceFails(bytes, s)
    BY <1>2, <2>4 DEF AllocDeviceFails
  <2> QED
    BY <1>4, <2>1, <2>2, <2>3, <2>4 DEF Allocate
<1>5. CASE Next
  <2>1. ASSUME NEW bytes \in ReserveSizes, Reserve(bytes) PROVE Whole(curr_region_allocation_bytes')
    BY <1>1, <2>1 DEF Reserve
  <2>2. ASSUME NEW p \in DOMAIN live, Free(p) PROVE Whole(curr_region_allocation_bytes')
    BY <1>1, <2>2 DEF Free
  <2>3. ASSUME NEW s \in Streams, ResetChunksUsingStream(s) PROVE Whole(curr_region_allocation_bytes')
    BY <1>1, <2>3 DEF ResetChunksUsingStream
  <2>4. ASSUME NEW s \in Streams, NEW t \in Streams, Synchronize(s, t) PROVE Whole(curr_region_allocation_bytes')
    BY <1>1, <2>4 DEF Synchronize
  <2> QED
    BY <1>3, <1>4, <1>5, <2>1, <2>2, <2>3, <2>4 DEF Next
<1>6. CASE UNCHANGED vars
  BY <1>1, <1>6 DEF vars
<1> QED
  BY <1>5, <1>6

\* A block of the device is a region's or a reservation's.
Accounted(p, size, R, v) == (\E r \in R : r.ptr = p /\ r.size = size) \/ p \in DOMAIN v

\* No step lets a block go astray.
LEMMA LeakStep ==
  ASSUME Configured, MemoryInv, Whole(curr_region_allocation_bytes), NoDeviceLeak, [Next]_vars
  PROVE  NoDeviceLeak'
<1> PICK c : c = Claims
  OBVIOUS
<1> PICK d : d = Claims'
  OBVIOUS
<1>1. Effect(c, d)
  BY Effects
<1>2. \A p \in DOMAIN device : Accounted(p, device[p], arena.regions, reserved)
  BY DEF NoDeviceLeak, Accounted, Regions
<1>3. \A p \in DOMAIN device' : Accounted(p, device'[p], arena'.regions, reserved')
  <2>1. CASE device' = device /\ arena'.regions = arena.regions /\ DOMAIN reserved \subseteq DOMAIN reserved'
    BY <1>2, <2>1 DEF Accounted
  <2>2. CASE Kept(c, d) \/ HandsOut(c, d) \/ TakesBack(c, d)
    BY <2>1, <2>2 DEF Kept, HandsOut, TakesBack, SameBlocks
  <2>3. CASE ReservesNothing(c, d)
    BY <2>1, <2>3 DEF ReservesNothing, Gains
  <2>4. CASE Grows(c, d)
    <3>1. PICK p, size :
            /\ Gains(device, device', p, size) /\ p \notin DOMAIN device
            /\ arena'.regions = arena.regions \cup {NewRegion(p, size)} /\ reserved' = reserved
      BY <2>4 DEF Grows
    <3> PICK r : r = NewRegion(p, size)
      OBVIOUS
    <3>2. r \in arena'.regions /\ r.ptr = p /\ r.size = size /\ arena.regions \subseteq arena'.regions
      BY <3>1 DEF NewRegion
    <3>3. ASSUME NEW q \in DOMAIN device' PROVE Accounted(q, device'[q], arena'.regions, reserved')
      <4>1. CASE q = p
        BY <3>1, <3>2, <4>1 DEF Gains, Accounted
      <4>2. CASE q # p
        BY <1>2, <3>1, <3>2, <4>2 DEF Gains, Accounted
      <4> QED
        BY <4>1, <4>2
    <3> QED
      BY <3>3
  <2>5. CASE Strands(c, d)
    BY <2>5 DEF Strands
  <2>6. CASE Reserves(c, d)
    <3>1. PICK p, bytes :
            /\ Gains(device, device', p, bytes) /\ p \notin DOMAIN device
            /\ Gains(reserved, reserved', p, bytes) /\ arena'.regions = arena.regions
      BY <2>6 DEF Reserves
    <3> QED
      BY <1>2, <3>1 DEF Gains, Accounted
  <2>7. CASE GivesBack(c, d)
    <3>1. PICK p : /\ Loses(device, device', {p}) /\ Loses(reserved, reserved', {p})
                   /\ arena'.regions = arena.regions
      BY <2>7 DEF GivesBack
    <3> QED
      BY <1>2, <3>1 DEF Loses, Accounted
  <2>8. CASE Shrinks(c, d)
    <3> PICK G : G = Gone
      OBVIOUS
    <3> PICK P : P = {r.ptr : r \in G}
      OBVIOUS
    <3>1. /\ device' = Restrict(device, DOMAIN device \ P)
          /\ arena'.regions = arena.regions \ G /\ reserved' = reserved
      BY <2>8 DEF Shrinks
    <3>2. DOMAIN device' = DOMAIN device \ P /\ \A q \in DOMAIN device' : device'[q] = device[q]
      BY <3>1 DEF Restrict
    <3>3. ASSUME NEW q \in DOMAIN device' PROVE Accounted(q, device'[q], arena'.regions, reserved')
      <4>1. q \in DOMAIN device /\ device'[q] = device[q] /\ \A r \in G : r.ptr # q
        BY <3>2
      <4>2. Accounted(q, device[q], arena.regions, reserved)
        BY <1>2, <4>1
      <4> QED
        BY <3>1, <4>1, <4>2 DEF Accounted
    <3> QED
      BY <3>3
  <2> QED
    BY <1>1, <2>2, <2>3, <2>4, <2>5, <2>6, <2>7, <2>8 DEF Effect
<1> QED
  BY <1>3 DEF NoDeviceLeak, Accounted, Regions

\* Nothing is astray initially.
LEMMA PoolInit ==
  ASSUME Configured, Init
  PROVE  PoolInv
<1>1. Smaller(MaxMem, InitialChunk) \in Nat
  BY ArenaConstants DEF Smaller
<1>2. Whole(curr_region_allocation_bytes)
  BY <1>1, RoundedUp DEF Init
<1>3. NoDeviceLeak
  BY NoMap DEF Init, NoDeviceLeak
<1> QED
  BY <1>2, <1>3 DEF PoolInv

\* With growth sizes of whole units, as the defaults are, every block taken
\* from the device is a region or a reservation: none is lost.
THEOREM ArenaLeaksNothing ==
  ASSUME Configured, WholeGrowth
  PROVE  Spec => []NoDeviceLeak
<1>1. Init => PoolInv
  BY PoolInit
<1>2. MemoryInv /\ PoolInv /\ [Next]_vars => PoolInv'
  BY WholeRegionBytes, LeakStep DEF PoolInv, MemoryInv
<1>3. PoolInv => NoDeviceLeak
  BY DEF PoolInv
<1> QED
  BY <1>1, <1>2, <1>3, MemoryAlways, PTL DEF Spec

\* Every reservation is one the device allocator does not refuse outright.
ReservesWithinCap == \A bytes \in ReserveSizes : bytes <= DeviceCap

\* A new key adds its value to a map's sum.
LEMMA GainedSum ==
  ASSUME NEW f, NEW g, Numbered(f), Numbered(g), IsFiniteSet(DOMAIN f),
         NEW p, NEW v, Gains(f, g, p, v), p \notin DOMAIN f
  PROVE  SumFunction(g) = SumFunction(f) + v /\ SumFunction(f) \in Int /\ v \in Int
<1> PICK D : D = DOMAIN g
  OBVIOUS
<1> PICK x : x \in D
  BY DEF Gains
<1>1. D = DOMAIN f \cup {p} /\ p \in D /\ DOMAIN f = D \ {p} /\ g[p] = v
      /\ \A q \in D \ {p} : f[q] = g[q]
  BY DEF Gains
<1>2. IsFiniteSet(D)
  BY <1>1, FS_AddElement
<1>3. g \in [D -> Int] /\ f \in [DOMAIN f -> Int] /\ f \in [D \ {p} -> Int]
  BY <1>1 DEF Numbered
<1>4. Integral(g, D) /\ Integral(f, D \ {p})
  BY <1>3 DEF Integral
<1>5. SumFunction(g) = g[p] + SumFunction(f)
  BY <1>1, <1>2, <1>4, SumRemoves
<1>6. SumFunction(f) \in Int
  BY <1>3, SumIsInteger
<1> QED
  BY <1>1, <1>3, <1>5, <1>6

\* A key taken out takes its value off a map's sum.
LEMMA LostSum ==
  ASSUME NEW f, NEW g, Numbered(f), Numbered(g), IsFiniteSet(DOMAIN f),
         NEW p, p \in DOMAIN f, NEW S, S = {p}, Loses(f, g, S)
  PROVE  SumFunction(g) = SumFunction(f) - f[p] /\ SumFunction(f) \in Int /\ f[p] \in Int
<1> PICK D : D = DOMAIN f
  OBVIOUS
<1>1. p \in D /\ DOMAIN g = D \ {p} /\ \A q \in D \ {p} : g[q] = f[q]
  BY DEF Loses
<1>2. f \in [D -> Int] /\ g \in [DOMAIN g -> Int] /\ g \in [D \ {p} -> Int] /\ IsFiniteSet(D \ {p})
  BY <1>1, FS_Subset DEF Numbered
<1>3. Integral(f, D) /\ Integral(g, D \ {p})
  BY <1>2 DEF Integral
<1>4. SumFunction(f) = f[p] + SumFunction(g)
  BY <1>1, <1>3, SumRemoves
<1>5. SumFunction(f) \in Int /\ SumFunction(g) \in Int
  BY <1>2, SumIsInteger
<1> QED
  BY <1>1, <1>2, <1>4, <1>5

\* Blocks and claims are finitely many, with natural sizes.
LEMMA MapsFinite ==
  ASSUME NEW n \in Nat, NEW a, Shaped(a, n), NEW e, Blocks(e), NEW v, Owned(a.regions, e, v),
         NEW l, Holdings(a, n, v, l), NEW c, Charged(a, n, v, l, c)
  PROVE  Numbered(e) /\ IsFiniteSet(DOMAIN e) /\ Numbered(c) /\ IsFiniteSet(DOMAIN c) /\ DOMAIN c \subseteq Addresses
<1>1. Numbered(e) /\ IsFiniteSet(DOMAIN e)
  BY AddressesFinite, FS_Subset DEF Blocks
<1>2. DOMAIN c = DOMAIN l /\ DOMAIN l \subseteq Addresses
  BY DEF Charged, Holdings
<1>3. IsFiniteSet(DOMAIN c)
  BY <1>2, AddressesFinite, FS_Subset
<1>4. ASSUME NEW p \in DOMAIN c PROVE c[p] \in Nat
  <2>1. p # Null
    BY <1>2, NullIsNoAddress
  <2>2. CASE p \in DOMAIN v
    BY <2>1, <2>2 DEF Charged, Owned, Numbered
  <2>3. CASE p \notin DOMAIN v
    <3>1. PICK k \in 1 .. n : Held(a, k) /\ PtrOf(a, k) = p
      BY <1>2, <2>3 DEF Holdings
    <3>2. SizeOf(a, k) \in Nat
      BY FieldTypes DEF Shaped
    <3> QED
      BY <3>1, <3>2 DEF Charged
  <2> QED
    BY <2>2, <2>3
<1>5. Numbered(c)
  BY <1>4 DEF Charged, Numbered
<1> QED
  BY <1>1, <1>2, <1>3, <1>5

\* Blocks and claims are finitely many.
LEMMA StateFinite ==
  /\ MemoryInv => /\ Numbered(device) /\ IsFiniteSet(DOMAIN device) /\ DOMAIN device \subseteq Addresses
                  /\ Numbered(Claims) /\ IsFiniteSet(DOMAIN Claims) /\ DOMAIN Claims \subseteq Addresses
  /\ MemoryInv' => /\ Numbered(device') /\ IsFiniteSet(DOMAIN device') /\ DOMAIN device' \subseteq Addresses
                   /\ Numbered(Claims') /\ IsFiniteSet(DOMAIN Claims') /\ DOMAIN Claims' \subseteq Addresses
<1>1. ASSUME MemoryInv PROVE /\ Numbered(device) /\ IsFiniteSet(DOMAIN device) /\ DOMAIN device \subseteq Addresses
                             /\ Numbered(Claims) /\ IsFiniteSet(DOMAIN Claims) /\ DOMAIN Claims \subseteq Addresses
  <2> PICK n \in Nat : MemoryAt(n)
    BY <1>1 DEF MemoryInv
  <2> PICK c : c = Claims
    OBVIOUS
  <2>1. /\ Shaped(arena, n) /\ Blocks(device) /\ Owned(arena.regions, device, reserved)
        /\ Holdings(arena, n, reserved, live) /\ DOMAIN device \subseteq Addresses
    BY DEF MemoryAt, Blocks
  <2>2. Charged(arena, n, reserved, live, c)
    BY ClaimsCharged
  <2> QED
    BY <2>1, <2>2, MapsFinite
<1>2. ASSUME MemoryInv' PROVE /\ Numbered(device') /\ IsFiniteSet(DOMAIN device') /\ DOMAIN device' \subseteq Addresses
                              /\ Numbered(Claims') /\ IsFiniteSet(DOMAIN Claims') /\ DOMAIN Claims' \subseteq Addresses
  <2> PICK n \in Nat : MemoryAt(n)'
    BY <1>2 DEF MemoryInv
  <2> PICK c : c = Claims'
    OBVIOUS
  <2>1. /\ Shaped(arena', n) /\ Blocks(device') /\ Owned(arena'.regions, device', reserved')
        /\ Holdings(arena', n, reserved', live') /\ DOMAIN device' \subseteq Addresses
    BY DEF MemoryAt, Shaped, Blocks
  <2>2. Charged(arena', n, reserved', live', c)
    BY ClaimsCharged
  <2> QED
    BY <2>1, <2>2, MapsFinite
<1> QED
  BY <1>1, <1>2

\* The statistics are t, u and e more than the memory says.
Balance(t, u, e) ==
  /\ stats.total = t + SumFunction(device)
  /\ stats.inUse = u + SumFunction(Claims)
  /\ stats.extensions = e + Cardinality(arena.regions)

\* The balance in terms of the device's blocks and the claims.
LEMMA BalanceIs ==
  ASSUME MemoryInv, NEW t, NEW u, NEW e
  PROVE  StatsBalance(t, u, e) <=> Balance(t, u, e)
<1>1. device = [x \in DOMAIN device |-> device[x]]
  BY StateFinite DEF Numbered
<1>2. SumOver(DOMAIN device, LAMBDA p : device[p]) = SumFunction(device)
  BY <1>1 DEF SumOver
<1>3. SumOver(DOMAIN live, Granted) = SumFunction(Claims)
  BY DEF SumOver, Claims
<1> QED
  BY <1>2, <1>3 DEF StatsBalance, Balance, Regions

\* The blocks of the regions Shrink gives back, summed.
LEMMA ShrunkSum ==
  ASSUME NEW n \in Nat, MemoryAt(n), device' = Restrict(device, DOMAIN device \ {r.ptr : r \in Gone})
  PROVE  SumFunction(device') = SumFunction(device) - SumFunction([r \in Gone |-> r.size])
<1> PICK D : D = DOMAIN device
  OBVIOUS
<1> PICK f : f = device
  OBVIOUS
<1> PICK G : G = Gone
  OBVIOUS
<1>9. PICK w : w = [r \in G |-> r.size]
  OBVIOUS
<1>10. PICK key : key = [r \in G |-> r.ptr]
  OBVIOUS
<1>1. /\ IsFiniteSet(G) /\ G \subseteq arena.regions /\ arena.regions \subseteq RegionSet /\ w \in [G -> Int]
  BY <1>9, GoneSums
<1>2. Numbered(f) /\ IsFiniteSet(D) /\ Owned(arena.regions, f, reserved)
  BY AddressesFinite, FS_Subset DEF MemoryAt, Blocks
<1>3. f \in [D -> Int]
  BY <1>2 DEF Numbered
<1>4. \A r \in G : key[r] \in D /\ w[r] = f[key[r]]
  BY <1>1, <1>2, <1>9, <1>10 DEF Owned
<1>5. \A r, q \in G : key[r] = key[q] => r = q
  <2>1. RegionsApart(arena.regions)
    BY DEF MemoryAt, Shaped, Sound, Tiling
  <2>2. ASSUME NEW r \in G, NEW q \in G, r.ptr = q.ptr PROVE r = q
    <3>1. /\ r \in arena.regions /\ q \in arena.regions /\ r.ptr \in Int /\ r.size \in Int /\ r.size > 0
          /\ q.size \in Int /\ q.size > 0
      BY <1>1, <2>1, RegionTypes
    <3> QED
      BY <2>1, <2>2, <3>1 DEF RegionsApart
  <2> QED
    BY <1>10, <2>2
<1>6. {r.ptr : r \in G} = {key[r] : r \in G}
  BY <1>10
<1>7. SumFunction([x \in D \ {key[r] : r \in G} |-> f[x]]) = SumFunction(f) - SumFunction(w)
  BY <1>1, <1>2, <1>3, <1>4, <1>5, SumRemovesAll
<1>8. device' = [x \in D \ {key[r] : r \in G} |-> f[x]]
  BY <1>6 DEF Restrict
<1> QED
  BY <1>7, <1>8, <1>9

\* Every step keeps the balance.
LEMMA BalanceStep ==
  ASSUME Configured, ReservesWithinCap, MemoryInv, MemoryInv', [Next]_vars,
         NEW t \in Int, NEW u \in Int, NEW e \in Int, Balance(t, u, e)
  PROVE  Balance(t, u, e)'
<1> PICK c : c = Claims
  OBVIOUS
<1> PICK d : d = Claims'
  OBVIOUS
<1> PICK n \in Nat : MemoryAt(n)
  BY DEF MemoryInv
<1>1. Effect(c, d)
  BY Effects
<1>2. /\ Numbered(device) /\ IsFiniteSet(DOMAIN device) /\ Numbered(c) /\ IsFiniteSet(DOMAIN c)
      /\ Numbered(device') /\ Numbered(d)
  BY StateFinite
<1>3. SumFunction(device) \in Int /\ SumFunction(c) \in Int
  <2>1. device \in [DOMAIN device -> Int] /\ c \in [DOMAIN c -> Int]
    BY <1>2 DEF Numbered
  <2> QED
    BY <1>2, <2>1, SumIsInteger
<1>4. IsFiniteSet(arena.regions) /\ Cardinality(arena.regions) \in Nat
  BY GoneSums, FS_CardinalityType
<1>5. /\ stats.total = t + SumFunction(device) /\ stats.inUse = u + SumFunction(c)
      /\ stats.extensions = e + Cardinality(arena.regions)
  BY DEF Balance
<1>6. SUFFICES /\ stats'.total = t + SumFunction(device') /\ stats'.inUse = u + SumFunction(d)
               /\ stats'.extensions = e + Cardinality(arena'.regions)
  BY DEF Balance
<1>7. CASE Kept(c, d)
  BY <1>3, <1>4, <1>5, <1>7 DEF Kept, SameBlocks, Booked
<1>8. CASE HandsOut(c, d)
  <2>1. PICK p, g : SameBlocks /\ Gains(c, d, p, g) /\ p \notin DOMAIN c /\ Booked(0, g, 0)
    BY <1>8 DEF HandsOut
  <2>2. SumFunction(d) = SumFunction(c) + g /\ g \in Int
    BY <1>2, <2>1, GainedSum
  <2> QED
    BY <1>3, <1>4, <1>5, <2>1, <2>2 DEF SameBlocks, Booked
<1>9. CASE Grows(c, d)
  <2>1. PICK p, size, g :
          /\ Gains(device, device', p, size) /\ p \notin DOMAIN device
          /\ Gains(c, d, p, g) /\ p \notin DOMAIN c
          /\ arena'.regions = arena.regions \cup {NewRegion(p, size)} /\ NewRegion(p, size) \notin arena.regions
          /\ Booked(size, g, 1)
    BY <1>9 DEF Grows
  <2>2. SumFunction(d) = SumFunction(c) + g /\ g \in Int
    BY <1>2, <2>1, GainedSum
  <2>3. SumFunction(device') = SumFunction(device) + size /\ size \in Int
    <3> PICK w : w = device'
      OBVIOUS
    <3>1. SumFunction(w) = SumFunction(device) + size /\ size \in Int
      BY <1>2, <2>1, GainedSum
    <3> QED
      BY <3>1
  <2>4. Cardinality(arena'.regions) = Cardinality(arena.regions) + 1
    BY <1>4, <2>1, FS_AddElement
  <2> QED
    BY <1>3, <1>4, <1>5, <2>1, <2>2, <2>3, <2>4 DEF Booked
<1>10. CASE Strands(c, d)
  <2>1. PICK p, size : /\ Gains(device, device', p, size) /\ p \notin DOMAIN device /\ d = c
                       /\ arena'.regions = arena.regions /\ Booked(size, 0, 0)
    BY <1>10 DEF Strands
  <2>2. SumFunction(device') = SumFunction(device) + size /\ size \in Int
    <3> PICK w : w = device'
      OBVIOUS
    <3>1. SumFunction(w) = SumFunction(device) + size /\ size \in Int
      BY <1>2, <2>1, GainedSum
    <3> QED
      BY <3>1
  <2> QED
    BY <1>3, <1>4, <1>5, <2>1, <2>2 DEF Booked
<1>11. CASE Reserves(c, d)
  <2>1. PICK p, bytes :
          /\ Gains(device, device', p, bytes) /\ p \notin DOMAIN device
          /\ Gains(c, d, p, bytes) /\ p \notin DOMAIN c
          /\ arena'.regions = arena.regions /\ Booked(bytes, bytes, 0)
    BY <1>11 DEF Reserves
  <2>2. SumFunction(d) = SumFunction(c) + bytes /\ bytes \in Int
    BY <1>2, <2>1, GainedSum
  <2>3. SumFunction(device') = SumFunction(device) + bytes
    <3> PICK w : w = device'
      OBVIOUS
    <3>1. SumFunction(w) = SumFunction(device) + bytes
      BY <1>2, <2>1, GainedSum
    <3> QED
      BY <3>1
  <2> QED
    BY <1>3, <1>4, <1>5, <2>1, <2>2, <2>3 DEF Booked
<1>12. CASE ReservesNothing(c, d)
  <2>1. DeviceCap \in Nat /\ ReserveSizes \subseteq Nat
    BY ArenaConstants
  <2> QED
    BY <1>12, <2>1 DEF ReservesNothing, ReservesWithinCap
<1>13. CASE TakesBack(c, d)
  <2>1. PICK p \in DOMAIN c : SameBlocks /\ Loses(c, d, {p}) /\ Booked(0, -c[p], 0)
    BY <1>13 DEF TakesBack
  <2>2. SumFunction(d) = SumFunction(c) - c[p] /\ c[p] \in Int
    BY <1>2, <2>1, LostSum
  <2> QED
    BY <1>3, <1>4, <1>5, <2>1, <2>2 DEF SameBlocks, Booked
<1>14. CASE GivesBack(c, d)
  <2>1. PICK p \in DOMAIN c :
          /\ Loses(c, d, {p}) /\ Loses(device, device', {p})
          /\ p \in DOMAIN device /\ device[p] = c[p]
          /\ arena'.regions = arena.regions /\ Booked(-c[p], -c[p], 0)
    BY <1>14 DEF GivesBack
  <2>2. SumFunction(d) = SumFunction(c) - c[p] /\ c[p] \in Int
    BY <1>2, <2>1, LostSum
  <2>3. SumFunction(device') = SumFunction(device) - c[p]
    <3> PICK w : w = device'
      OBVIOUS
    <3>1. SumFunction(w) = SumFunction(device) - device[p]
      BY <1>2, <2>1, LostSum
    <3> QED
      BY <2>1, <3>1
  <2> QED
    BY <1>3, <1>4, <1>5, <2>1, <2>2, <2>3 DEF Booked
<1>15. CASE Shrinks(c, d)
  <2> PICK sum : sum = SumFunction([r \in Gone |-> r.size])
    OBVIOUS
  <2>1. /\ device' = Restrict(device, DOMAIN device \ {r.ptr : r \in Gone}) /\ d = c
        /\ arena'.regions = arena.regions \ Gone /\ Booked(-sum, 0, -Cardinality(Gone))
    BY <1>15 DEF Shrinks
  <2>2. SumFunction(device') = SumFunction(device) - sum
    BY <2>1, ShrunkSum
  <2>3. sum \in Int /\ Gone \subseteq arena.regions /\ Cardinality(Gone) \in Nat
    BY GoneSums
  <2>4. Cardinality(arena'.regions) = Cardinality(arena.regions) - Cardinality(Gone)
    <3>1. arena.regions \cap Gone = Gone
      BY <2>3
    <3> QED
      BY <1>4, <2>1, <3>1, FS_Difference
  <2> QED
    BY <1>3, <1>4, <1>5, <2>1, <2>2, <2>3, <2>4 DEF Booked
<1> QED
  BY <1>1, <1>7, <1>8, <1>9, <1>10, <1>11, <1>12, <1>13, <1>14, <1>15 DEF Effect

BalanceInv == \E t, u, e \in Garbage : Balance(t, u, e)

\* The statistics balance initially, whatever the uninitialized counters held.
LEMMA BalanceInit ==
  ASSUME Init
  PROVE  BalanceInv
<1>7. PICK none : none = <<>>
  OBVIOUS
<1>1. DOMAIN none = {} /\ none \in [{} -> Int]
  BY <1>7, NoMap DEF Numbered
<1>2. SumFunction(none) = 0
  BY <1>1, FS_EmptySet, SumOfZeros
<1>3. /\ device = none /\ live = none /\ arena.regions = {}
      /\ stats.total \in Garbage /\ stats.inUse \in Garbage /\ stats.extensions \in Garbage
  BY <1>7 DEF Init
<1>4. Claims = none
  <2>1. Claims \in [{} -> Int]
    BY <1>1, <1>3 DEF Claims
  <2> QED
    BY <1>1, <2>1
<1>5. Cardinality({}) = 0 /\ Garbage \subseteq Int
  BY FS_EmptySet, ArenaConstants
<1>6. Balance(stats.total, stats.inUse, stats.extensions)
  <2>1. stats.total \in Int /\ stats.inUse \in Int /\ stats.extensions \in Int
    BY <1>3, <1>5
  <2>2. SumFunction(device) = 0 /\ SumFunction(Claims) = 0 /\ Cardinality(arena.regions) = 0
    BY <1>2, <1>3, <1>4, <1>5
  <2> QED
    BY <2>1, <2>2 DEF Balance
<1> QED
  BY <1>3, <1>6 DEF BalanceInv

\* The same offsets balance the statistics after a step.
LEMMA BalanceInvStep ==
  ASSUME Configured, ReservesWithinCap, MemoryInv, MemoryInv', [Next]_vars, BalanceInv
  PROVE  BalanceInv'
<1>1. PICK t \in Garbage, u \in Garbage, e \in Garbage : Balance(t, u, e)
  BY DEF BalanceInv
<1>2. t \in Int /\ u \in Int /\ e \in Int
  BY ArenaConstants
<1>3. Balance(t, u, e)'
  BY <1>1, <1>2, BalanceStep
<1> QED
  BY <1>3 DEF BalanceInv

\* The byte counters differ from what is really allocated and in use by a
\* constant, the initial garbage, if Reserve is asked for no more than the
\* device's cap.
THEOREM ArenaStatisticsBalance ==
  ASSUME Configured, ReservesWithinCap
  PROVE  Spec => []StatsBalanced
<1>1. Init => BalanceInv
  BY BalanceInit
<1>2. MemoryInv /\ MemoryInv' /\ BalanceInv /\ [Next]_vars => BalanceInv'
  BY BalanceInvStep
<1>3. MemoryInv /\ BalanceInv => StatsBalanced
  BY BalanceIs DEF BalanceInv, StatsBalanced
<1> QED
  BY <1>1, <1>2, <1>3, MemoryAlways, PTL DEF Spec

\* Pieces of memory, by their addresses, that do not overlap; blocks e and claims c inside them.
Pieces(f) ==
  /\ Numbered(f) /\ DOMAIN f \subseteq Addresses
  /\ \A p \in DOMAIN f : f[p] > 0
  /\ \A p, q \in DOMAIN f : p < q => p + f[p] <= q
Pool(e, c) ==
  /\ Pieces(e) /\ Pieces(c)
  /\ \A p \in DOMAIN c : \E q \in DOMAIN e : q <= p /\ p + c[p] <= q + e[q]
Image(f) == {Units(p, f[p]) : p \in DOMAIN f}

\* Intervals that follow one another are disjoint; one within another is a
\* subset.
LEMMA UnitsFacts ==
  ASSUME NEW p \in Addresses, NEW q \in Addresses, NEW m \in Nat, NEW n \in Nat
  PROVE  /\ Units(p, m) \in SUBSET Addresses /\ (m > 0 => p \in Units(p, m))
         /\ p + m <= q => Units(p, m) \cap Units(q, n) = {} /\ Units(q, n) \cap Units(p, m) = {}
         /\ q <= p /\ p + m <= q + n => Units(p, m) \subseteq Units(q, n)
<1>1. p \in Nat /\ q \in Nat /\ \A x \in Addresses : x \in Nat
  BY AddressesFinite
<1>2. Units(p, m) \in SUBSET Addresses /\ (m > 0 => p \in Units(p, m))
  BY <1>1 DEF Units
<1>3. p + m <= q => Units(p, m) \cap Units(q, n) = {} /\ Units(q, n) \cap Units(p, m) = {}
  <2>1. ASSUME p + m <= q, NEW x \in Addresses, x \in Units(p, m), x \in Units(q, n) PROVE FALSE
    <3>1. x < p + m /\ q <= x /\ x \in Nat
      BY <1>1, <2>1 DEF Units
    <3> QED
      BY <1>1, <2>1, <3>1
  <2>2. Units(p, m) \subseteq Addresses
    BY DEF Units
  <2> QED
    BY <2>1, <2>2
<1>4. q <= p /\ p + m <= q + n => Units(p, m) \subseteq Units(q, n)
  <2>1. ASSUME q <= p, p + m <= q + n, NEW x \in Addresses, x \in Units(p, m) PROVE x \in Units(q, n)
    <3>1. p <= x /\ x < p + m /\ x \in Nat
      BY <1>1, <2>1 DEF Units
    <3>2. q <= x /\ x < q + n
      BY <1>1, <2>1, <3>1
    <3> QED
      BY <3>2 DEF Units
  <2>2. Units(p, m) \subseteq Addresses
    BY DEF Units
  <2> QED
    BY <2>1, <2>2
<1> QED
  BY <1>2, <1>3, <1>4

\* The pieces of a map are disjoint and not empty.
LEMMA PiecesApart ==
  ASSUME NEW f, Pieces(f), NEW p \in DOMAIN f, NEW q \in DOMAIN f
  PROVE  /\ Units(p, f[p]) \in SUBSET Addresses /\ Units(p, f[p]) # {}
         /\ p # q => Units(p, f[p]) \cap Units(q, f[q]) = {} /\ Units(p, f[p]) # Units(q, f[q])
<1>1. p \in Addresses /\ q \in Addresses /\ f[p] \in Nat /\ f[q] \in Nat /\ f[p] > 0
  BY DEF Pieces, Numbered
<1>2. p \in Nat /\ q \in Nat
  BY <1>1, AddressesFinite
<1>3. Units(p, f[p]) \in SUBSET Addresses /\ p \in Units(p, f[p])
  BY <1>1, UnitsFacts
<1>4. ASSUME p # q PROVE Units(p, f[p]) \cap Units(q, f[q]) = {}
  <2>1. CASE p < q
    <3>1. p + f[p] <= q
      BY <2>1 DEF Pieces
    <3> QED
      BY <1>1, <3>1, UnitsFacts
  <2>2. CASE q < p
    <3>1. q + f[q] <= p
      BY <2>2 DEF Pieces
    <3> QED
      BY <1>1, <3>1, UnitsFacts
  <2> QED
    BY <1>2, <1>4, <2>1, <2>2
<1> QED
  BY <1>3, <1>4

\* A new key adds its piece.
LEMMA ImageGains ==
  ASSUME NEW f, NEW g, NEW p, NEW v, Gains(f, g, p, v), p \notin DOMAIN f
  PROVE  Image(g) = Image(f) \cup {Units(p, v)}
<1> PICK u : u = [x \in DOMAIN g |-> Units(x, g[x])]
  OBVIOUS
<1>1. Image(g) = {u[x] : x \in DOMAIN g} /\ Image(f) = {u[x] : x \in DOMAIN f} /\ u[p] = Units(p, v)
  BY DEF Gains, Image
<1>2. DOMAIN g = DOMAIN f \cup {p}
  BY DEF Gains
<1> QED
  BY <1>1, <1>2

\* Keys taken out take their pieces away.
LEMMA ImageLoses ==
  ASSUME NEW f, Pieces(f), NEW g, NEW S, Loses(f, g, S)
  PROVE  Image(g) = Image(f) \ {Units(p, f[p]) : p \in DOMAIN f \cap S}
<1> PICK D : D = DOMAIN f
  OBVIOUS
<1>1. PICK u : u = [x \in D |-> Units(x, f[x])]
  OBVIOUS
<1>2. /\ Image(f) = {u[x] : x \in D} /\ Image(g) = {u[x] : x \in D \ S}
      /\ {Units(p, f[p]) : p \in D \cap S} = {u[x] : x \in D \cap S}
  BY <1>1 DEF Loses, Image
<1>3. \A x, y \in D : x # y => u[x] # u[y]
  BY <1>1, PiecesApart
<1> QED
  <2> PICK W : W = {Units(p, f[p]) : p \in D \cap S}
    OBVIOUS
  <2>1. ASSUME NEW y PROVE y \in Image(g) <=> y \in Image(f) /\ y \notin W
    <3>1. /\ y \in Image(f) <=> \E x \in D : y = u[x]
          /\ y \in Image(g) <=> \E x \in D : x \notin S /\ y = u[x]
          /\ y \in W <=> \E x \in D : x \in S /\ y = u[x]
      BY <1>2
    <3> QED
      BY <1>3, <3>1
  <2> QED
    BY <2>1

\* Blocks are apart, claims are apart, and each claim lies in a block.
LEMMA MemoryPool ==
  ASSUME MemoryInv
  PROVE  Pool(device, Claims)
<1> PICK n \in Nat : MemoryAt(n)
  BY DEF MemoryInv
<1>1. Pieces(device)
  BY DEF MemoryAt, Blocks, Pieces
<1>2. DOMAIN Claims = DOMAIN live /\ \A p \in DOMAIN live : Claims[p] = Granted(p)
  BY DEF Claims
<1>3. \A p \in DOMAIN live : Granted(p) > 0 /\ \E q \in DOMAIN device : q <= p /\ p + Granted(p) <= q + device[q]
  BY ClaimInBlock
<1>4. \A p, q \in DOMAIN live : p < q => p + Granted(p) <= q
  BY ClaimsApart
<1>5. Numbered(Claims) /\ DOMAIN Claims \subseteq Addresses
  BY StateFinite
<1>6. Pieces(Claims)
  BY <1>2, <1>3, <1>4, <1>5 DEF Pieces
<1> QED
  BY <1>1, <1>2, <1>3, <1>6 DEF Pool

Owns == {Units(p, device[p]) : p \in DOMAIN device}
Holds == {Units(p, Granted(p)) : p \in DOMAIN live}

\* Initially the pool is empty.
LEMMA MappedInit ==
  ASSUME Init
  PROVE  Abstract!SpecInit
<1>1. Owns = {} /\ Holds = {}
  BY NoMap DEF Init, Owns, Holds
<1> QED
  BY <1>1 DEF Abstract!SpecInit, Owns, Holds

\* A new block with a part of it handed out; blocks without a part in hand given back.
PoolGrows(O, H, P, K) ==
  \E b, S \in SUBSET Addresses : /\ \A x \in O : b \cap x = {}
                                 /\ S # {} /\ S \subseteq b /\ \A T \in H : S \cap T = {}
                                 /\ P = O \cup {b} /\ K = H \cup {S}
PoolGivesBack(O, H, P, K) ==
  \E b \in SUBSET Addresses : b \in H /\ b \in O /\ K = H \ {b} /\ P = O \ {b}
PoolReleases(O, H, P, K) ==
  \E B \in SUBSET O : (\A b \in B, T \in H : b \cap T = {}) /\ P = O \ B /\ K = H

\* The steps of the pool, in terms of its two sets.
LEMMA MappedNext ==
  ASSUME NEW O, O = Owns, NEW H, H = Holds, NEW P, P = Owns', NEW K, K = Holds',
         \/ \E S \in SUBSET Addresses : /\ S # {} /\ (\E b \in O : S \subseteq b) /\ (\A T \in H : S \cap T = {})
                                        /\ K = H \cup {S} /\ P = O
         \/ PoolGrows(O, H, P, K)
         \/ \E S \in SUBSET Addresses : S \in H /\ K = H \ {S} /\ P = O
         \/ PoolGivesBack(O, H, P, K)
         \/ PoolReleases(O, H, P, K)
  PROVE  Abstract!SpecNext
<1>1. ASSUME NEW S \in SUBSET Addresses, S # {}, \E b \in O : S \subseteq b, \A T \in H : S \cap T = {},
             K = H \cup {S}, P = O
      PROVE  Abstract!HandOutPart(S)
  BY <1>1 DEF Abstract!HandOutPart, Abstract!MayHandOut, Abstract!Apart, Owns, Holds
<1>2. ASSUME NEW b \in SUBSET Addresses, NEW S \in SUBSET Addresses, \A x \in O : b \cap x = {},
             S # {}, S \subseteq b, \A T \in H : S \cap T = {}, P = O \cup {b}, K = H \cup {S}
      PROVE  Abstract!GrowAndHandOut(b, S)
  BY <1>2 DEF Abstract!GrowAndHandOut, Abstract!MayHandOut, Abstract!Apart, Owns, Holds
<1>3. ASSUME NEW S, S \in H, K = H \ {S}, P = O PROVE Abstract!TakeBack(S)
  BY <1>3 DEF Abstract!TakeBack, Owns, Holds
<1>4. ASSUME NEW b, b \in H, b \in O, K = H \ {b}, P = O \ {b} PROVE Abstract!TakeBackAndRelease(b)
  BY <1>4 DEF Abstract!TakeBackAndRelease, Owns, Holds
<1>5. ASSUME NEW B, \A b \in B, T \in H : b \cap T = {}, P = O \ B, K = H PROVE Abstract!Release(B)
  BY <1>5 DEF Abstract!Release, Abstract!Apart, Owns, Holds
<1>6. \A B \in SUBSET O : B \in SUBSET {Units(p, device[p]) : p \in DOMAIN device}
  BY DEF Owns
<1>7. CASE \E S \in SUBSET Addresses : /\ S # {} /\ (\E b \in O : S \subseteq b) /\ (\A T \in H : S \cap T = {})
                                        /\ K = H \cup {S} /\ P = O
  <2>1. \E S \in SUBSET Addresses : Abstract!HandOutPart(S)
    BY <1>1, <1>7
  <2> QED
    BY <2>1 DEF Abstract!SpecNext
<1>8. CASE PoolGrows(O, H, P, K)
  <2>1. \E b, S \in SUBSET Addresses : Abstract!GrowAndHandOut(b, S)
    BY <1>2, <1>8 DEF PoolGrows
  <2> QED
    BY <2>1 DEF Abstract!SpecNext
<1>9. CASE \E S \in SUBSET Addresses : S \in H /\ K = H \ {S} /\ P = O
  <2>1. \E S \in SUBSET Addresses : Abstract!TakeBack(S)
    BY <1>3, <1>9
  <2> QED
    BY <2>1 DEF Abstract!SpecNext
<1>10. CASE PoolGivesBack(O, H, P, K)
  <2>1. \E S \in SUBSET Addresses : Abstract!TakeBackAndRelease(S)
    BY <1>4, <1>10 DEF PoolGivesBack
  <2> QED
    BY <2>1 DEF Abstract!SpecNext
<1>11. CASE PoolReleases(O, H, P, K)
  <2>1. \E B \in SUBSET {Units(p, device[p]) : p \in DOMAIN device} : Abstract!Release(B)
    BY <1>5, <1>6, <1>11 DEF PoolReleases
  <2> QED
    BY <2>1 DEF Abstract!SpecNext
<1> QED
  BY <1>7, <1>8, <1>9, <1>10, <1>11

\* The pool's two sets are those of the refinement mapping.
LEMMA ImagesAre ==
  /\ Owns = Image(device) /\ Holds = Image(Claims)
  /\ Owns' = Image(device') /\ Holds' = Image(Claims')
  BY DEF Owns, Holds, Image, Claims

\* A new claim lies in one block and apart from the others.
LEMMA NewClaimFits ==
  ASSUME NEW e, NEW c, NEW d, Pool(e, d), NEW p, NEW g, Gains(c, d, p, g), p \notin DOMAIN c,
         NEW S, S = Units(p, g)
  PROVE  /\ S \in SUBSET Addresses /\ S # {} /\ \E b \in Image(e) : S \subseteq b
         /\ \A T \in Image(c) : S \cap T = {}
<1>1. Pieces(d) /\ Pieces(e) /\ p \in DOMAIN d /\ d[p] = g
  BY DEF Pool, Gains
<1>2. S \in SUBSET Addresses /\ S # {}
  BY <1>1, PiecesApart
<1>3. PICK q \in DOMAIN e : q <= p /\ p + g <= q + e[q]
  BY <1>1 DEF Pool
<1>4. p \in Addresses /\ q \in Addresses /\ g \in Nat /\ e[q] \in Nat
  BY <1>1 DEF Pieces, Numbered
<1>5. S \subseteq Units(q, e[q])
  BY <1>3, <1>4, UnitsFacts
<1>6. ASSUME NEW t \in DOMAIN c PROVE S \cap Units(t, c[t]) = {}
  <2>1. t \in DOMAIN d /\ d[t] = c[t] /\ t # p
    BY DEF Gains
  <2> QED
    BY <1>1, <2>1, PiecesApart
<1> QED
  BY <1>2, <1>3, <1>5, <1>6 DEF Image

\* A new block is apart from the others.
LEMMA NewBlockFits ==
  ASSUME NEW e, NEW f, Pieces(f), NEW p, NEW size, Gains(e, f, p, size), p \notin DOMAIN e, NEW B, B = Units(p, size)
  PROVE  B \in SUBSET Addresses /\ B # {} /\ \A x \in Image(e) : B \cap x = {}
<1>1. p \in DOMAIN f /\ f[p] = size
  BY DEF Gains
<1>2. ASSUME NEW t \in DOMAIN e PROVE B \cap Units(t, e[t]) = {}
  <2>1. t \in DOMAIN f /\ f[t] = e[t] /\ t # p
    BY DEF Gains
  <2> QED
    BY <1>1, <2>1, PiecesApart
<1> QED
  BY <1>1, <1>2, PiecesApart DEF Image

\* Blocks that leave a pool hold no claim of it.
LEMMA ReleasedHoldNothing ==
  ASSUME NEW e, NEW f, NEW c, Pool(e, c), Pool(f, c), NEW S, Loses(e, f, S),
         NEW x \in DOMAIN e \cap S, NEW t \in DOMAIN c
  PROVE  Units(x, e[x]) \cap Units(t, c[t]) = {}
<1>1. PICK q \in DOMAIN f : q <= t /\ t + c[t] <= q + f[q]
  BY DEF Pool
<1>2. q \in DOMAIN e /\ e[q] = f[q] /\ q # x
  BY DEF Loses
<1>3. Pieces(e) /\ Pieces(c)
  BY DEF Pool
<1>4. t \in Addresses /\ q \in Addresses /\ c[t] \in Nat /\ e[q] \in Nat
  BY <1>2, <1>3 DEF Pieces, Numbered
<1>5. Units(t, c[t]) \subseteq Units(q, e[q])
  BY <1>1, <1>2, <1>4, UnitsFacts
<1>6. Units(x, e[x]) \cap Units(q, e[q]) = {}
  BY <1>2, <1>3, PiecesApart
<1> QED
  BY <1>5, <1>6

\* A step of the arena is a step of the pool, or leaves it as it was.
LEMMA MappedStep ==
  ASSUME Configured, MemoryInv, Whole(curr_region_allocation_bytes), Pool(device, Claims), Pool(device', Claims'),
         [Next]_vars
  PROVE  [Abstract!SpecNext]_(Abstract!specVars)
<1> PICK c : c = Claims
  OBVIOUS
<1> PICK d : d = Claims'
  OBVIOUS
<1> PICK e : e = device
  OBVIOUS
<1> PICK f : f = device'
  OBVIOUS
<1>1. Effect(c, d)
  BY Effects
<1>2. Pool(e, c) /\ Pool(f, d) /\ Pieces(e) /\ Pieces(f) /\ Pieces(c) /\ Pieces(d)
  BY DEF Pool
<1>3. Owns = Image(e) /\ Holds = Image(c) /\ Owns' = Image(f) /\ Holds' = Image(d)
  BY ImagesAre
<1>4. CASE f = e /\ d = c
  <2>1. Owns' = Owns /\ Holds' = Holds
    BY <1>3, <1>4
  <2> QED
    BY <2>1 DEF Abstract!specVars, Owns, Holds
<1> HIDE DEF Abstract!SpecNext
<1>5. CASE HandsOut(c, d)
  <2>1. PICK p, g : f = e /\ Gains(c, d, p, g) /\ p \notin DOMAIN c
    BY <1>5 DEF HandsOut, SameBlocks
  <2> PICK S : S = Units(p, g)
    OBVIOUS
  <2>2. /\ S \in SUBSET Addresses /\ S # {} /\ \E b \in Image(e) : S \subseteq b
        /\ \A T \in Image(c) : S \cap T = {}
    BY <1>2, <2>1, NewClaimFits
  <2>3. Image(d) = Image(c) \cup {S} /\ Image(f) = Image(e)
    BY <2>1, ImageGains
  <2>4. Abstract!SpecNext
    BY <1>3, <2>2, <2>3, MappedNext
  <2> QED
    BY <2>4
<1>6. ASSUME NEW p, NEW size, NEW g, Gains(e, f, p, size), p \notin DOMAIN e, Gains(c, d, p, g), p \notin DOMAIN c,
             g <= size
      PROVE  Abstract!SpecNext
  <2> PICK S : S = Units(p, g)
    OBVIOUS
  <2> PICK B : B = Units(p, size)
    OBVIOUS
  <2>1. /\ S \in SUBSET Addresses /\ S # {} /\ \A T \in Image(c) : S \cap T = {}
    BY <1>2, <1>6, NewClaimFits
  <2>2. B \in SUBSET Addresses /\ \A x \in Image(e) : B \cap x = {}
    BY <1>2, <1>6, NewBlockFits
  <2>3. S \subseteq B
    <3>1. p \in DOMAIN d /\ p \in DOMAIN f /\ d[p] = g /\ f[p] = size
      BY <1>6 DEF Gains
    <3>2. p \in Addresses /\ g \in Nat /\ size \in Nat
      BY <1>2, <3>1 DEF Pieces, Numbered
    <3>3. p \in Nat
      BY <3>2, AddressesFinite
    <3> QED
      BY <1>6, <3>2, <3>3, UnitsFacts
  <2>4. Image(d) = Image(c) \cup {S} /\ Image(f) = Image(e) \cup {B}
    BY <1>6, ImageGains
  <2> PICK H : H = Image(c)
    OBVIOUS
  <2> PICK O : O = Image(e)
    OBVIOUS
  <2> PICK K : K = Image(d)
    OBVIOUS
  <2> PICK P : P = Image(f)
    OBVIOUS
  <2>5. O = Owns /\ H = Holds /\ P = Owns' /\ K = Holds'
    BY <1>3
  <2>6. PoolGrows(O, H, P, K)
    BY <2>1, <2>2, <2>3, <2>4 DEF PoolGrows
  <2> QED
    BY <2>5, <2>6, MappedNext
<1>7. CASE Grows(c, d)
  <2>1. PICK p, size, g :
          Gains(e, f, p, size) /\ p \notin DOMAIN e /\ Gains(c, d, p, g) /\ p \notin DOMAIN c /\ g <= size
    BY <1>7 DEF Grows
  <2> QED
    BY <1>6, <2>1
<1>8. CASE Reserves(c, d)
  <2>1. PICK p, bytes : Gains(e, f, p, bytes) /\ p \notin DOMAIN e /\ Gains(c, d, p, bytes) /\ p \notin DOMAIN c
    BY <1>8 DEF Reserves
  <2>2. bytes <= bytes
    <3>1. p \in DOMAIN d /\ d[p] = bytes
      BY <2>1 DEF Gains
    <3> QED
      BY <1>2, <3>1 DEF Pieces, Numbered
  <2> QED
    BY <1>6, <2>1, <2>2
<1>9. CASE Strands(c, d)
  BY <1>9 DEF Strands
<1>10. CASE TakesBack(c, d)
  <2>1. PICK p \in DOMAIN c : f = e /\ Loses(c, d, {p})
    BY <1>10 DEF TakesBack, SameBlocks
  <2> PICK S : S = Units(p, c[p])
    OBVIOUS
  <2>2. Image(d) = Image(c) \ {S} /\ S \in Image(c) /\ S \in SUBSET Addresses
    <3> PICK Q : Q = {p}
      OBVIOUS
    <3>1. Image(d) = Image(c) \ {Units(q, c[q]) : q \in DOMAIN c \cap Q}
      BY <1>2, <2>1, ImageLoses
    <3> QED
      BY <1>2, <3>1, PiecesApart DEF Image
  <2>3. Image(f) = Image(e)
    BY <2>1
  <2>4. Abstract!SpecNext
    BY <1>3, <2>2, <2>3, MappedNext
  <2> QED
    BY <2>4
<1>11. CASE GivesBack(c, d)
  <2>1. PICK p \in DOMAIN c : Loses(c, d, {p}) /\ Loses(e, f, {p}) /\ p \in DOMAIN e /\ e[p] = c[p]
    BY <1>11 DEF GivesBack
  <2> PICK S : S = Units(p, c[p])
    OBVIOUS
  <2> PICK Q : Q = {p}
    OBVIOUS
  <2>2. Image(d) = Image(c) \ {S} /\ S \in Image(c) /\ S \in SUBSET Addresses
    <3>1. Image(d) = Image(c) \ {Units(q, c[q]) : q \in DOMAIN c \cap Q}
      BY <1>2, <2>1, ImageLoses
    <3> QED
      BY <1>2, <3>1, PiecesApart DEF Image
  <2>3. Image(f) = Image(e) \ {S} /\ S \in Image(e)
    <3>1. Image(f) = Image(e) \ {Units(q, e[q]) : q \in DOMAIN e \cap Q}
      BY <1>2, <2>1, ImageLoses
    <3> QED
      BY <2>1, <3>1 DEF Image
  <2>4. Abstract!SpecNext
    <3> PICK H : H = Image(c)
      OBVIOUS
    <3> PICK O : O = Image(e)
      OBVIOUS
    <3> PICK K : K = Image(d)
      OBVIOUS
    <3> PICK P : P = Image(f)
      OBVIOUS
    <3>1. O = Owns /\ H = Holds /\ P = Owns' /\ K = Holds'
      BY <1>3
    <3>2. PoolGivesBack(O, H, P, K)
      BY <2>2, <2>3 DEF PoolGivesBack
    <3> QED
      BY <3>1, <3>2, MappedNext
  <2> QED
    BY <2>4
<1>12. CASE Shrinks(c, d)
  <2> PICK Q : Q = {r.ptr : r \in Gone}
    OBVIOUS
  <2>1. f = Restrict(e, DOMAIN e \ Q) /\ d = c
    BY <1>12 DEF Shrinks
  <2>2. Loses(e, f, Q)
    BY <1>2, <2>1, MapsLose DEF Pieces
  <2> PICK B : B = {Units(q, e[q]) : q \in DOMAIN e \cap Q}
    OBVIOUS
  <2>3. Image(f) = Image(e) \ B
    BY <1>2, <2>2, ImageLoses
  <2>4. \A b \in B, T \in Image(c) : b \cap T = {}
    <3>1. \A x \in DOMAIN e \cap Q, t \in DOMAIN c : Units(x, e[x]) \cap Units(t, c[t]) = {}
      BY <1>2, <2>1, <2>2, ReleasedHoldNothing
    <3> QED
      BY <3>1 DEF Image
  <2>5. B \in SUBSET Image(e)
    BY DEF Image
  <2>6. Image(d) = Image(c)
    BY <2>1
  <2>7. Abstract!SpecNext
    <3> PICK H : H = Image(c)
      OBVIOUS
    <3> PICK O : O = Image(e)
      OBVIOUS
    <3> PICK K : K = Image(d)
      OBVIOUS
    <3> PICK P : P = Image(f)
      OBVIOUS
    <3>1. O = Owns /\ H = Holds /\ P = Owns' /\ K = Holds'
      BY <1>3
    <3>2. PoolReleases(O, H, P, K)
      BY <2>3, <2>4, <2>5, <2>6 DEF PoolReleases
    <3> QED
      BY <3>1, <3>2, MappedNext
  <2> QED
    BY <2>7
<1>13. CASE Kept(c, d)
  BY <1>4, <1>13 DEF Kept, SameBlocks
<1>14. CASE ReservesNothing(c, d)
  BY <1>4, <1>14 DEF ReservesNothing
<1> QED
  BY <1>1, <1>5, <1>7, <1>8, <1>9, <1>10, <1>11, <1>12, <1>13, <1>14 DEF Effect

\* Seen from the device and its clients the arena is ArenaSpec's pool: it hands
\* out disjoint parts of blocks it owns and gives back only what nobody uses.
THEOREM ArenaImplementsPool ==
  ASSUME Configured, WholeGrowth
  PROVE  Spec => ImplementsArenaSpec
<1>1. Init => Abstract!SpecInit
  BY MappedInit
<1>2. Init => PoolInv
  BY PoolInit
<1>3. MemoryInv /\ PoolInv /\ [Next]_vars => PoolInv'
  BY WholeRegionBytes, LeakStep DEF PoolInv, MemoryInv
<1>4. MemoryInv => Pool(device, Claims)
  BY MemoryPool
<1>5. MemoryInv /\ PoolInv /\ Pool(device, Claims) /\ Pool(device, Claims)' /\ [Next]_vars
        => [Abstract!SpecNext]_(Abstract!specVars)
  BY MappedStep DEF PoolInv
<1> QED
  BY <1>1, <1>2, <1>3, <1>4, <1>5, MemoryAlways, PTL DEF Spec, ImplementsArenaSpec, Abstract!AbstractSpec

\* The pool's promise, in terms of its two sets.
PoolSound(O, H) ==
  /\ \A S, T \in H : S # T => S \cap T = {}
  /\ \A S \in H : S # {} /\ \E b \in O : S \subseteq b
  /\ \A b, c \in O : b # c => b \cap c = {}

\* What the pool's steps do to its two sets keeps the promise.
LEMMA PoolStep ==
  ASSUME NEW O, NEW H, NEW P, NEW K, PoolSound(O, H),
         \/ \E S : S # {} /\ (\E b \in O : S \subseteq b) /\ (\A T \in H : S \cap T = {})
                   /\ K = H \cup {S} /\ P = O
         \/ \E b, S : (\A x \in O : b \cap x = {}) /\ S # {} /\ S \subseteq b
                      /\ (\A T \in H : S \cap T = {}) /\ P = O \cup {b} /\ K = H \cup {S}
         \/ \E S : S \in H /\ K = H \ {S} /\ P = O
         \/ \E b : b \in H /\ b \in O /\ K = H \ {b} /\ P = O \ {b}
         \/ \E B : (\A b \in B, T \in H : b \cap T = {}) /\ P = O \ B /\ K = H
         \/ P = O /\ K = H
  PROVE  PoolSound(P, K)
<1> USE DEF PoolSound
<1>1. CASE \E S : S # {} /\ (\E b \in O : S \subseteq b) /\ (\A T \in H : S \cap T = {})
                  /\ K = H \cup {S} /\ P = O
  BY <1>1
<1>2. CASE \E b, S : (\A x \in O : b \cap x = {}) /\ S # {} /\ S \subseteq b
                     /\ (\A T \in H : S \cap T = {}) /\ P = O \cup {b} /\ K = H \cup {S}
  BY <1>2
<1>3. CASE \E S : S \in H /\ K = H \ {S} /\ P = O
  BY <1>3
<1>4. ASSUME NEW b, b \in H, b \in O, K = H \ {b}, P = O \ {b} PROVE PoolSound(P, K)
  <2>1. ASSUME NEW S \in H, S # b PROVE \E c \in O \ {b} : S \subseteq c
    \* S lies in a block; were it b, S would share its cells with what b's holder has
    <3>1. PICK c \in O : S \subseteq c
      OBVIOUS
    <3>2. S # {} /\ S \cap b = {}
      BY <1>4, <2>1
    <3> QED
      BY <3>1, <3>2
  <2> QED
    BY <1>4, <2>1
<1>5. ASSUME NEW B, \A b \in B, T \in H : b \cap T = {}, P = O \ B, K = H PROVE PoolSound(P, K)
  <2>1. ASSUME NEW S \in H PROVE \E c \in O \ B : S \subseteq c
    <3>1. PICK c \in O : S \subseteq c
      OBVIOUS
    <3>2. S # {} /\ (c \in B => c \cap S = {})
      BY <1>5
    <3> QED
      BY <3>1, <3>2
  <2> QED
    BY <1>5, <2>1
<1>6. CASE P = O /\ K = H
  BY <1>6
<1> HIDE DEF PoolSound
<1> QED
  BY <1>1, <1>2, <1>3, <1>4, <1>5, <1>6

(* In every behaviour of the abstract arena, memory in two clients' hands  *)
(* is disjoint, it is inside a block the arena owns, and blocks do not     *)
(* overlap.  ArenaImpl inherits this where it implements the abstraction.  *)
THEOREM PoolSafe ==
  Abstract!AbstractSpec => [](Abstract!HeldApart /\ Abstract!HeldOwned /\ Abstract!BlocksApart)
<1> DEFINE Safe == PoolSound(Owns, Holds)
<1>1. Abstract!SpecInit => Safe
  BY DEF Abstract!SpecInit, PoolSound, Owns, Holds
<1>2. Safe /\ [Abstract!SpecNext]_(Abstract!specVars) => Safe'
  <2> SUFFICES ASSUME Safe, [Abstract!SpecNext]_(Abstract!specVars) PROVE Safe'
    OBVIOUS
  <2> PICK O : O = Owns
    OBVIOUS
  <2> PICK H : H = Holds
    OBVIOUS
  <2> PICK P : P = Owns'
    OBVIOUS
  <2> PICK K : K = Holds'
    OBVIOUS
  <2>1. PoolSound(O, H)
    OBVIOUS
  <2>2. ASSUME NEW S, Abstract!HandOutPart(S)
        PROVE  S # {} /\ (\E b \in O : S \subseteq b) /\ (\A T \in H : S \cap T = {})
               /\ K = H \cup {S} /\ P = O
    BY <2>2 DEF Abstract!HandOutPart, Abstract!MayHandOut, Abstract!Apart, Owns, Holds
  <2>3. ASSUME NEW b, NEW S, Abstract!GrowAndHandOut(b, S)
        PROVE  (\A x \in O : b \cap x = {}) /\ S # {} /\ S \subseteq b
               /\ (\A T \in H : S \cap T = {}) /\ P = O \cup {b} /\ K = H \cup {S}
    <3>1. /\ \A c \in Owns : b \cap c = {}
          /\ S # {} /\ (\E c \in {b} : S \subseteq c) /\ \A T \in Holds : S \cap T = {}
          /\ Owns' = Owns \cup {b} /\ Holds' = Holds \cup {S}
      BY <2>3 DEF Abstract!GrowAndHandOut, Abstract!MayHandOut, Abstract!Apart, Owns, Holds
    <3> QED
      BY <3>1
  <2>4. ASSUME NEW S, Abstract!TakeBack(S) PROVE S \in H /\ K = H \ {S} /\ P = O
    BY <2>4 DEF Abstract!TakeBack, Owns, Holds
  <2>5. ASSUME NEW b, Abstract!TakeBackAndRelease(b)
        PROVE  b \in H /\ b \in O /\ K = H \ {b} /\ P = O \ {b}
    BY <2>5 DEF Abstract!TakeBackAndRelease, Owns, Holds
  <2>6. ASSUME NEW B, Abstract!Release(B)
        PROVE  (\A b \in B, T \in H : b \cap T = {}) /\ P = O \ B /\ K = H
    BY <2>6 DEF Abstract!Release, Abstract!Apart, Owns, Holds
  <2>7. CASE UNCHANGED Abstract!specVars
    <3>1. P = O /\ K = H
      BY <2>7 DEF Abstract!specVars, Owns, Holds
    <3> QED
      BY <2>1, <3>1
  <2>8. CASE Abstract!SpecNext
    <3>1. CASE \E S \in SUBSET Addresses : Abstract!HandOutPart(S)
      BY <2>1, <2>2, <3>1, PoolStep
    <3>2. CASE \E S \in SUBSET Addresses : Abstract!TakeBack(S)
      BY <2>1, <2>4, <3>2, PoolStep
    <3>3. CASE \E S \in SUBSET Addresses : Abstract!TakeBackAndRelease(S)
      BY <2>1, <2>5, <3>3, PoolStep
    <3>4. CASE \E b, S \in SUBSET Addresses : Abstract!GrowAndHandOut(b, S)
      BY <2>1, <2>3, <3>4, PoolStep
    <3>5. CASE \E B : Abstract!Release(B)
      BY <2>1, <2>6, <3>5, PoolStep
    <3> QED
      BY <2>8, <3>1, <3>2, <3>3, <3>4, <3>5 DEF Abstract!SpecNext
  <2> QED
    BY <2>7, <2>8
<1>3. Safe => Abstract!HeldApart /\ Abstract!HeldOwned /\ Abstract!BlocksApart
  BY DEF PoolSound, Owns, Holds, Abstract!HeldApart, Abstract!HeldOwned, Abstract!BlocksApart, Abstract!Apart
<1> QED
  BY <1>1, <1>2, <1>3, PTL DEF Abstract!AbstractSpec

\* A region holds live memory exactly when one of its chunks is in use.
LEMMA RegionInUse ==
  ASSUME NEW n \in Nat, MemoryAt(n), NEW r \in arena.regions
  PROVE  (\E p \in DOMAIN live : p \in Units(r.ptr, r.size)) <=> \E k \in InRegion(arena, n, r) : ~Idle(arena, k)
<1>1. /\ arena \in Arenas(n) /\ Tiling(arena, n) /\ RegionsApart(arena.regions) /\ Blocks(device)
      /\ Owned(arena.regions, device, reserved) /\ Holdings(arena, n, reserved, live)
  BY DEF MemoryAt, Shaped, Sound, Tiling
<1>2. /\ r.ptr \in Int /\ r.size \in Int /\ r.ptr \in DOMAIN device /\ device[r.ptr] = r.size
      /\ r.ptr \notin DOMAIN reserved
  BY <1>1, RegionTypes DEF Owned
<1>3. ASSUME NEW p \in DOMAIN live, p \in Units(r.ptr, r.size)
      PROVE  \E k \in InRegion(arena, n, r) : ~Idle(arena, k)
  <2>1. p \in Addresses /\ p \in Int /\ p # Null /\ r.ptr <= p /\ p < r.ptr + r.size
    BY <1>3, NullIsNoAddress DEF Units
  <2>2. p \notin DOMAIN reserved
    <3> SUFFICES ASSUME p \in DOMAIN reserved PROVE FALSE
      OBVIOUS
    <3>1. p \in DOMAIN device /\ p # r.ptr
      BY <1>1, <1>2, <2>1 DEF Owned
    <3>2. r.ptr < p
      BY <1>2, <2>1, <3>1
    <3>3. r.ptr + device[r.ptr] <= p
      BY <1>1, <1>2, <3>1, <3>2 DEF Blocks
    <3> QED
      BY <1>2, <2>1, <3>3
  <2>3. PICK k \in 1 .. n : Held(arena, k) /\ PtrOf(arena, k) = p
    BY <1>1, <2>2 DEF Holdings
  <2>4. Inside(arena, k, r) /\ InList(arena, k)
    BY <2>1, <2>3 DEF Inside, Held
  <2>5. Within(arena, k, r)
    BY <1>1, <2>4, InsideWithin
  <2> QED
    BY <2>3, <2>4, <2>5 DEF InRegion, Held
<1>4. ASSUME NEW k \in InRegion(arena, n, r), ~Idle(arena, k)
      PROVE  \E p \in DOMAIN live : p \in Units(r.ptr, r.size)
  <2>1. k \in 1 .. n /\ InList(arena, k) /\ Within(arena, k, r) /\ Held(arena, k)
    BY <1>4 DEF InRegion, Held
  <2>2. PtrOf(arena, k) \in DOMAIN live /\ PtrOf(arena, k) \in Addresses
    BY <1>1, <2>1, TypesOfLinked DEF Holdings
  <2>3. Inside(arena, k, r)
    BY <1>1, <2>1, InsideWithin
  <2> QED
    BY <2>2, <2>3 DEF Inside, Units
<1> QED
  BY <1>3, <1>4

\* No call but Shrink gives a region back, and a call that adds one serves its request.
LEMMA OthersKeepRegions ==
  ASSUME Configured, MemoryInv, [Next]_vars, ~Shrink
  PROVE  /\ arena.regions \subseteq arena'.regions
         /\ arena'.regions # arena.regions => DOMAIN live' # DOMAIN live
<1> PICK n \in Nat : MemoryAt(n)
  BY DEF MemoryInv
<1>1. Counters
  BY DEF MemoryInv
<1>2. SUFFICES ASSUME arena'.regions # arena.regions
               PROVE  arena.regions \subseteq arena'.regions /\ DOMAIN live' # DOMAIN live
  OBVIOUS
<1>3. ASSUME NEW bytes \in Sizes, NEW s \in Streams \cup {NoStream}, Allocate(bytes, s)
      PROVE  arena.regions \subseteq arena'.regions /\ DOMAIN live' # DOMAIN live
  <2> PICK a : a = RegisterStream(arena, s)
    OBVIOUS
  <2>1. a.regions = arena.regions
    BY Registering
  <2>2. CASE AllocFromBin(bytes, s)
    <3>1. PICK N \in Nat, h \in 1 .. n : Delivered(a, n, N, h, s, bytes)
      BY <1>1, <2>2, FromBinDelivers
    <3> QED
      BY <1>2, <2>1, <3>1 DEF Delivered, Taken
  <2>3. CASE AllocExtend(bytes, s)
    <3>1. PICK p, size : \/ Unserved(a, n, size)
                         \/ \E R, N, m, M, h : Served(a, n, p, size, R, N, m, M, h, s, bytes)
      BY <1>1, <2>3, ExtendDelivers
    <3>2. CASE Unserved(a, n, size)
      BY <1>2, <2>1, <3>2 DEF Unserved
    <3>3. ASSUME NEW R, NEW N, NEW m, NEW M, NEW h, Served(a, n, p, size, R, N, m, M, h, s, bytes)
          PROVE  arena.regions \subseteq arena'.regions /\ DOMAIN live' # DOMAIN live
      <4>1. R.regions = a.regions \cup {NewRegion(p, size)} /\ Delivered(R, N, M, h, s, bytes)
        BY <3>3 DEF Served, Enlarged
      <4>2. arena'.regions = R.regions /\ Gains(live, live', PtrOf(R, h), bytes) /\ PtrOf(R, h) \notin DOMAIN live
        BY <4>1 DEF Delivered, Taken
      <4> QED
        BY <2>1, <4>1, <4>2 DEF Gains
    <3> QED
      BY <3>1, <3>2, <3>3
  <2>4. CASE AllocOverLimit(bytes, s) \/ AllocDeviceFails(bytes, s)
    <3>1. arena' = a
      BY <2>4 DEF AllocOverLimit, AllocDeviceFails
    <3> QED
      BY <1>2, <2>1, <3>1
  <2> QED
    BY <1>3, <2>2, <2>3, <2>4 DEF Allocate
<1>4. ASSUME NEW bytes \in ReserveSizes, Reserve(bytes) PROVE FALSE
  BY <1>2, <1>4 DEF Reserve
<1>5. ASSUME NEW p \in DOMAIN live, Free(p) PROVE FALSE
  <2> PICK c : c = Claims
    OBVIOUS
  <2> PICK d : d = Claims'
    OBVIOUS
  <2>1. TakesBack(c, d) \/ GivesBack(c, d)
    BY <1>1, <1>5, FreeEffect
  <2> QED
    BY <1>2, <2>1 DEF TakesBack, GivesBack, SameBlocks
<1>6. ASSUME NEW s \in Streams, ResetChunksUsingStream(s) PROVE FALSE
  BY <1>1, <1>2, <1>6, ResetKeeps
<1>7. ASSUME NEW s \in Streams, NEW t \in Streams, Synchronize(s, t) PROVE FALSE
  BY <1>2, <1>7 DEF Synchronize
<1>8. CASE UNCHANGED vars
  BY <1>2, <1>8 DEF vars
<1> QED
  BY <1>3, <1>4, <1>5, <1>6, <1>7, <1>8 DEF Next

\* Shrink releases the regions without live memory, except the first.
LEMMA ShrinkReleases ==
  ASSUME Configured, MemoryInv, Shrink
  PROVE  /\ live' = live
         /\ \A r \in arena.regions :
              (\E p \in DOMAIN live : p \in Units(r.ptr, r.size)) \/ (~SameAsRequested /\ r.id = 0)
                <=> r \in arena'.regions
<1> PICK n \in Nat : MemoryAt(n)
  BY DEF MemoryInv
<1>1. live' = live /\ arena'.regions = arena.regions \ Gone
  BY ShrinkKeeps DEF MemoryInv, Thinned
<1>2. ASSUME NEW r \in arena.regions
      PROVE  (\E p \in DOMAIN live : p \in Units(r.ptr, r.size)) \/ (~SameAsRequested /\ r.id = 0)
               <=> r \in arena'.regions
  <2>1. r \in Gone <=> Shrinkable(r)
    BY DEF Gone
  <2>2. Shrinkable(r) <=> (SameAsRequested \/ r.id # 0) /\ ~(\E p \in DOMAIN live : p \in Units(r.ptr, r.size))
    BY RegionInUse, ShrinkableIdle
  <2>3. SameAsRequested \in BOOLEAN
    BY ArenaConstants
  <2> QED
    BY <1>1, <2>1, <2>2, <2>3
<1> QED
  BY <1>1, <1>2

\* Shrink gives back the regions without live memory, save the first, and no
\* others; no other call gives a region back.
THEOREM ArenaShrinksExactly ==
  ASSUME Configured
  PROVE  Spec => ShrinkExact
<1>1. ASSUME MemoryInv, [Next]_vars
      PROVE  IF Shrink
             THEN /\ \A r \in Regions :
                       LET held == \E p \in DOMAIN live : p \in Units(r.ptr, r.size)
                       IN held \/ (~SameAsRequested /\ r.id = 0) <=> r \in arena'.regions
                  /\ live' = live
             ELSE Regions \subseteq arena'.regions
  <2>1. CASE Shrink
    <3>1. /\ live' = live
          /\ \A r \in arena.regions :
               (\E p \in DOMAIN live : p \in Units(r.ptr, r.size)) \/ (~SameAsRequested /\ r.id = 0)
                 <=> r \in arena'.regions
      BY <1>1, <2>1, ShrinkReleases
    <3> QED
      BY <2>1, <3>1 DEF Regions
  <2>2. CASE ~Shrink
    <3>1. arena.regions \subseteq arena'.regions
      BY <1>1, <2>2, OthersKeepRegions
    <3> QED
      BY <2>2, <3>1 DEF Regions
  <2> QED
    BY <2>1, <2>2
<1> QED
  BY <1>1, MemoryAlways, PTL DEF Spec, ShrinkExact

\* The GpuSyncAllocator adapter, next to the arena's other clients, does
\* nothing to the arena but what Spec allows, so all of the above holds of it.
THEOREM SyncAdapterIsClient ==
  SyncSpec => Spec
<1>1. SyncNext => Next
  <2> SUFFICES ASSUME SyncNext PROVE Next
    OBVIOUS
  <2>1. ~arena.fault
    BY DEF SyncNext
  <2>2. ASSUME NEW bytes \in ReserveSizes, allocateAsync(bytes) PROVE Next
    BY <2>1, <2>2 DEF Next, allocateAsync
  <2>3. ASSUME NEW p \in DOMAIN live, deallocateAsync(p) PROVE Next
    BY <2>1, <2>3 DEF Next, deallocateAsync
  <2>4. ASSUME OtherClients PROVE Next
    BY <2>1, <2>4 DEF Next, OtherClients
  <2> QED
    BY <2>2, <2>3, <2>4 DEF SyncNext
<1> QED
  BY <1>1, PTL DEF SyncSpec, Spec

\* No stream makes requests.
Unstreamed == Streams = {}

\* What BestFitOrExtend says of the client's new memory at p.
ServedWell(p) ==
  LET free == FreeFor(live'[p]) IN
  /\ FitsTightly(RoundedBytes(live'[p]), arena'.chunks[arena'.handles[p]].size)
  /\ IF device' # device THEN free = {}
     ELSE \E h \in free :
            /\ arena.chunks[h].ptr = p
            /\ \A g \in free : arena.chunks[h].size <= arena.chunks[g].size

\* The chunks a request may get are the free chunks of its size.
LEMMA FreeForFits ==
  ASSUME NEW n \in Nat, MemoryAt(n), NEW bytes \in Nat, NEW a, a.chunks = arena.chunks,
         NEW h
  PROVE  h \in FreeFor(bytes) => Fits(a, n, RoundedBytes(bytes), NoStream, h)
<1> SUFFICES ASSUME h \in FreeFor(bytes) PROVE Fits(a, n, RoundedBytes(bytes), NoStream, h)
  OBVIOUS
<1>1. arena \in Arenas(n) /\ Tiling(arena, n)
  BY DEF MemoryAt, Shaped, Sound
<1>2. PICK p \in Addresses : h = arena.handles[p] /\ h # None
  BY DEF FreeFor, Linked
<1>3. h \in 0 .. n
  BY <1>1, <1>2 DEF Arenas
<1>4. h \in 1 .. n
  BY <1>2, <1>3 DEF None
<1>5. InList(arena, h)
  <2>1. PtrOf(arena, h) = p /\ p # Null
    BY <1>1, <1>2, NullIsNoAddress DEF Tiling, Handled
  <2> QED
    BY <2>1 DEF InList
<1>6. ~arena.chunks[h].used /\ arena.chunks[h].stream = NoStream /\ arena.chunks[h].size >= RoundedBytes(bytes)
  BY DEF FreeFor
<1> QED
  BY <1>4, <1>5, <1>6 DEF Fits, InList, PtrOf, Idle, SizeOf, SafeToUse

\* Without streams the converse holds.
LEMMA FitsFreeFor ==
  ASSUME Unstreamed, NEW n \in Nat, MemoryAt(n), NEW bytes \in Nat, NEW a, a.chunks = arena.chunks,
         NEW h, Fits(a, n, RoundedBytes(bytes), NoStream, h)
  PROVE  h \in FreeFor(bytes)
<1>1. arena \in Arenas(n) /\ Tiling(arena, n)
  BY DEF MemoryAt, Shaped, Sound
<1>2. h \in 1 .. n /\ InList(arena, h) /\ Idle(arena, h) /\ SizeOf(arena, h) >= RoundedBytes(bytes)
  BY DEF Fits, InList, PtrOf, Idle, SizeOf
<1>3. PtrOf(arena, h) \in Addresses /\ arena.handles[PtrOf(arena, h)] = h
  BY <1>1, <1>2, TypesOfLinked DEF Tiling, Known
<1>4. h # None
  BY <1>2 DEF None
<1>5. StreamOf(arena, h) = NoStream
  BY <1>1, <1>2, FieldTypes DEF Unstreamed
<1> QED
  BY <1>2, <1>3, <1>4, <1>5 DEF FreeFor, Linked, Idle, SizeOf, StreamOf

\* A delivered chunk fits tightly.
LEMMA TakenTightly ==
  ASSUME Configured, NEW n \in Nat, NEW N \in Nat, NEW a, NEW h \in 1 .. n, h \in 1 .. N, NEW bytes \in Nat \ {0},
         NEW R, Taken(a, R, n, N, h, RoundedBytes(bytes))
  PROVE  /\ R.handles[PtrOf(a, h)] = h
         /\ FitsTightly(RoundedBytes(bytes), R.chunks[h].size)
<1> PICK rounded : rounded = RoundedBytes(bytes)
  OBVIOUS
<1>1. /\ R \in Arenas(N) /\ Tiling(R, N) /\ InList(R, h) /\ PtrOf(R, h) = PtrOf(a, h)
      /\ rounded <= SizeOf(R, h) /\ SizeOf(R, h) < 2 * rounded /\ SizeOf(R, h) - rounded < MaxDead
  BY DEF Taken, Sound, Held
<1>2. R.handles[PtrOf(a, h)] = h
  BY <1>1 DEF Tiling, Known
<1>3. SizeOf(R, h) \in Nat /\ rounded \in Nat /\ MaxDead \in Int /\ MaxDead > 0
  BY <1>1, FieldTypes, RoundedUp, ArenaConstants DEF Whole, Configured, IsValid
<1>4. Larger(SizeOf(R, h) - rounded, 0) < Larger(MaxDead, 1)
  BY <1>1, <1>3 DEF Larger
<1> QED
  BY <1>1, <1>2, <1>4 DEF FitsTightly, SizeOf

\* New memory that is no reservation is the best fit, or the device was asked
\* because none fitted.
LEMMA NewMemoryServed ==
  ASSUME Configured, Unstreamed, MemoryInv, [Next]_vars, NEW p \in DOMAIN live' \ (DOMAIN live \cup DOMAIN reserved')
  PROVE  ServedWell(p)
<1> PICK n \in Nat : MemoryAt(n)
  BY DEF MemoryInv
<1>1. Counters
  BY DEF MemoryInv
<1>2. p \in DOMAIN live' /\ p \notin DOMAIN live /\ p \notin DOMAIN reserved'
  OBVIOUS
<1>3. ASSUME NEW bytes \in Sizes, NEW s \in Streams \cup {NoStream}, Allocate(bytes, s) PROVE ServedWell(p)
  <2> PICK a : a = RegisterStream(arena, s)
    OBVIOUS
  <2>1. s = NoStream /\ bytes \in Nat \ {0} /\ RoundedBytes(bytes) \in Nat
    BY ArenaConstants, RoundedUp DEF Unstreamed, Whole
  <2>2. a.chunks = arena.chunks /\ Shaped(a, n)
    BY Registering
  <2>3. CASE AllocFromBin(bytes, s)
    <3>1. PICK N \in Nat, h \in 1 .. n : Delivered(a, n, N, h, s, bytes)
      BY <1>1, <2>3, FromBinDelivers
    <3>2. /\ Fits(a, n, RoundedBytes(bytes), s, h) /\ h \in 1 .. N
          /\ \A g \in 1 .. n : Fits(a, n, RoundedBytes(bytes), s, g) => SizeOf(a, h) <= SizeOf(a, g)
          /\ Taken(a, arena', n, N, h, RoundedBytes(bytes)) /\ Gains(live, live', PtrOf(a, h), bytes)
      BY <3>1 DEF Delivered
    <3>3. p = PtrOf(a, h) /\ live'[p] = bytes
      BY <1>2, <3>2 DEF Gains
    <3>4. arena'.handles[p] = h /\ FitsTightly(RoundedBytes(bytes), arena'.chunks[h].size)
      <4> PICK R : R = arena'
        OBVIOUS
      <4>1. R.handles[PtrOf(a, h)] = h /\ FitsTightly(RoundedBytes(bytes), R.chunks[h].size)
        BY <2>1, <3>2, TakenTightly
      <4> QED
        BY <3>3, <4>1
    <3>5. h \in FreeFor(bytes) /\ \A g \in FreeFor(bytes) : SizeOf(a, h) <= SizeOf(a, g)
      <4>1. h \in FreeFor(bytes)
        BY <2>1, <2>2, <3>2, FitsFreeFor
      <4>2. ASSUME NEW g \in FreeFor(bytes) PROVE SizeOf(a, h) <= SizeOf(a, g)
        <5>1. Fits(a, n, RoundedBytes(bytes), NoStream, g)
          BY <2>1, <2>2, FreeForFits
        <5> QED
          BY <2>1, <3>2, <5>1 DEF Fits
      <4> QED
        BY <4>1, <4>2
    <3>6. device' = device
      BY <2>3 DEF AllocFromBin
    <3> QED
      BY <2>2, <3>3, <3>4, <3>5, <3>6 DEF ServedWell, PtrOf, SizeOf
  <2>4. CASE AllocExtend(bytes, s)
    <3>1. PICK q, size : /\ Obtained(q, size)
                         /\ \/ Unserved(a, n, size)
                            \/ \E R, N, m, M, h : Served(a, n, q, size, R, N, m, M, h, s, bytes)
      BY <1>1, <2>4, ExtendDelivers
    <3>2. device' # device
      BY <3>1 DEF Obtained, Gains
    <3>3. FreeFor(bytes) = {}
      <4>1. Fitting(a, RoundedBytes(bytes), s) = {}
        BY <2>4 DEF AllocExtend
      <4>2. a \in Arenas(n) /\ Sound(a, n, {})
        BY <2>2 DEF Shaped
      <4>3. \A g : ~Fits(a, n, RoundedBytes(bytes), s, g)
        BY <2>1, <4>1, <4>2, FittingMembers
      <4> QED
        BY <2>1, <2>2, <4>3, FreeForFits
    <3>4. CASE Unserved(a, n, size)
      BY <1>2, <3>4 DEF Unserved
    <3>5. ASSUME NEW R, NEW N, NEW m, NEW M, NEW h, Served(a, n, q, size, R, N, m, M, h, s, bytes)
          PROVE  ServedWell(p)
      <4>1. N \in Nat /\ M \in Nat /\ Delivered(R, N, M, h, s, bytes)
        BY <3>5 DEF Served
      <4>2. /\ h \in 1 .. N /\ h \in 1 .. M /\ Taken(R, arena', N, M, h, RoundedBytes(bytes))
            /\ Gains(live, live', PtrOf(R, h), bytes)
        BY <4>1 DEF Delivered
      <4>3. p = PtrOf(R, h) /\ live'[p] = bytes
        BY <1>2, <4>2 DEF Gains
      <4>4. arena'.handles[p] = h /\ FitsTightly(RoundedBytes(bytes), arena'.chunks[h].size)
        <5> PICK T : T = arena'
          OBVIOUS
        <5>1. T.handles[PtrOf(R, h)] = h /\ FitsTightly(RoundedBytes(bytes), T.chunks[h].size)
          BY <2>1, <4>1, <4>2, TakenTightly
        <5> QED
          BY <4>3, <5>1
      <4> QED
        BY <3>2, <3>3, <4>3, <4>4 DEF ServedWell
    <3> QED
      BY <3>1, <3>4, <3>5
  <2>5. CASE AllocOverLimit(bytes, s) \/ AllocDeviceFails(bytes, s)
    BY <1>2, <2>5 DEF AllocOverLimit, AllocDeviceFails
  <2> QED
    BY <1>3, <2>3, <2>4, <2>5 DEF Allocate
<1>4. ASSUME NEW bytes \in ReserveSizes, Reserve(bytes) PROVE FALSE
  <2>1. \/ \E q \in Addresses : reserved' = Bind(reserved, q, bytes) /\ live' = Bind(live, q, bytes)
        \/ live' = live
    BY <1>4 DEF Reserve
  <2> QED
    BY <1>2, <2>1 DEF Bind
<1>5. ASSUME NEW q \in DOMAIN live, Free(q) PROVE FALSE
  <2>1. live' = Restrict(live, DOMAIN live \ {q})
    BY <1>5 DEF Free
  <2> QED
    BY <1>2, <2>1 DEF Restrict
<1>6. ASSUME NEW s \in Streams PROVE FALSE
  BY DEF Unstreamed
<1>7. CASE Shrink
  BY <1>2, <1>7 DEF Shrink
<1>8. CASE UNCHANGED vars
  BY <1>2, <1>8 DEF vars
<1> QED
  BY <1>3, <1>4, <1>5, <1>6, <1>7, <1>8 DEF Next

\* Without streams a request gets the smallest free chunk that fits, tightly,
\* and the device is asked only when none does.
THEOREM ArenaServesBestFit ==
  ASSUME Configured, Unstreamed
  PROVE  Spec => BestFitOrExtend
<1>1. ASSUME MemoryInv, [Next]_vars
      PROVE  /\ \A p \in DOMAIN live' \ (DOMAIN live \cup DOMAIN reserved') :
                  LET free == FreeFor(live'[p]) IN
                  /\ FitsTightly(RoundedBytes(live'[p]), arena'.chunks[arena'.handles[p]].size)
                  /\ IF device' # device THEN free = {}
                     ELSE \E h \in free :
                            /\ arena.chunks[h].ptr = p
                            /\ \A g \in free : arena.chunks[h].size <= arena.chunks[g].size
             /\ Regions # arena'.regions /\ ~Shrink => DOMAIN live' # DOMAIN live
  <2>1. \A p \in DOMAIN live' \ (DOMAIN live \cup DOMAIN reserved') : ServedWell(p)
    BY <1>1, NewMemoryServed
  <2>2. Regions # arena'.regions /\ ~Shrink => DOMAIN live' # DOMAIN live
    BY <1>1, OthersKeepRegions DEF Regions
  <2> QED
    BY <2>1, <2>2 DEF ServedWell
<1> QED
  BY <1>1, MemoryAlways, PTL DEF Spec, BestFitOrExtend
=============================================================================
