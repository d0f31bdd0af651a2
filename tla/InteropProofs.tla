--------------------------- MODULE InteropProofs ---------------------------
(***************************************************************************)
(* Proofs about the factory's devices, contexts and streams, for any       *)
(* hardware, any number of threads, streams and graphics contexts.         *)
(***************************************************************************)
EXTENDS InteropProperties, FoldLemmas, TLAPS

-----------------------------------------------------------------------------
(* Devices. *)

LEMMA CudaIsSequence == CudaDevices = 1 .. Len(Cuda) /\ Len(Cuda) \in Nat
  BY DevicesAssumption DEF CudaDevices

\* CudaIndex finds the device of the key, if there is one.
LEMMA CudaIndexFinds ==
  ASSUME NEW h
  PROVE  /\ CudaIndex(h) \in CudaDevices \cup {0}
         /\ CudaIndex(h) # 0 => h.key # NoKey /\ Cuda[CudaIndex(h)].key = h.key
<1> DEFINE I == {i \in 1 .. Len(Cuda) : Cuda[i].key = h.key}
<1>1. CudaIndex(h) = IF h.key = NoKey THEN 0 ELSE IF I # {} THEN Min(I) ELSE 0
  BY DEF CudaIndex, SelectInSeq
<1>2. I # {} => Min(I) \in I
  <2>1. I \subseteq Nat
    BY CudaIsSequence
  <2>2. I # {} => \E x \in I : \A y \in I : x <= y
    <3> HIDE DEF I
    <3> QED
      BY <2>1, LeastNumber
  <2> HIDE DEF I
  <2> QED
    BY <2>2 DEF Min
<1>3. I # {} => Min(I) \in 1 .. Len(Cuda) /\ Cuda[Min(I)].key = h.key
  BY <1>2
<1> QED
  BY <1>1, <1>3, CudaIsSequence

\* The hardware devices that GetSupportedDevices takes, if there is room.
Taken == {i \in DOMAIN Hardware : IsNvidiaGpu(Hardware[i]) /\ IsOrtHardwareDeviceSupported(Hardware[i])}

LEMMA TakenIsFinite == Taken \subseteq Nat /\ IsFiniteSet(Taken) /\ Cardinality(Taken) \in Nat
<1>1. DOMAIN Hardware = 1 .. Len(Hardware) /\ Len(Hardware) \in Nat
  BY DevicesAssumption
<1>2. IsFiniteSet(1 .. Len(Hardware))
  BY <1>1, FS_Interval
<1>3. IsFiniteSet(Taken)
  BY <1>1, <1>2, FS_Subset DEF Taken
<1> QED
  BY <1>1, <1>3, FS_CardinalityType DEF Taken

\* InOrder lists every member of a set once.
LEMMA InOrderLists ==
  ASSUME NEW S, S \subseteq Nat, IsFiniteSet(S)
  PROVE  /\ \A n \in 1 .. Cardinality(S) : InOrder(S)[n] \in S /\ Rank(S, InOrder(S)[n]) = n - 1
         /\ \A i \in S : Rank(S, i) + 1 \in 1 .. Cardinality(S) /\ InOrder(S)[Rank(S, i) + 1] = i
<1>1. ASSUME NEW n \in 1 .. Cardinality(S)
      PROVE  InOrder(S)[n] \in S /\ Rank(S, InOrder(S)[n]) = n - 1
  <2>1. InOrder(S)[n] = CHOOSE i \in S : Rank(S, i) = n - 1
    BY DEF InOrder, Rank
  <2>2. \E i \in S : Rank(S, i) = n - 1
    BY RanksOfMembers
  <2> QED
    BY <2>1, <2>2
<1>2. ASSUME NEW i \in S
      PROVE  Rank(S, i) + 1 \in 1 .. Cardinality(S) /\ InOrder(S)[Rank(S, i) + 1] = i
  <2>1. Rank(S, i) + 1 \in 1 .. Cardinality(S) /\ Rank(S, i) \in Nat
    <3>1. Rank(S, i) \in 0 .. Cardinality(S) - 1 /\ Cardinality(S) \in Nat
      BY FS_CardinalityType, RanksOfMembers
    <3> HIDE DEF Rank
    <3> QED
      BY <3>1
  <2> DEFINE k == InOrder(S)[Rank(S, i) + 1]
  <2>2. k \in S /\ Rank(S, k) = Rank(S, i)
    BY <1>1, <2>1
  <2> HIDE DEF k
  <2>3. ~(k < i) /\ ~(i < k)
    <3>1. /\ k < i => Rank(S, k) < Rank(S, i)
          /\ i < k => Rank(S, i) < Rank(S, k)
      BY <2>2, RanksOfMembers
    <3> QED
      BY <2>1, <2>2, <3>1
  <2>4. k = i
    BY <2>2, <2>3
  <2> QED
    BY <2>1, <2>4 DEF k
<1> QED
  BY <1>1, <1>2

(* What GetSupportedDevices has published: nothing yet, or in a sandbox at   *)
(* most one virtual device, or with a driver the first of the taken devices. *)
DevicesInv ==
  /\ env \in Environments
  /\ IF env.lockdown
     THEN /\ infos = {}
          /\ \A e \in Range(published) : e.cuda = 0 /\ e.target \in NamedSMs
     ELSE \/ infos = {} /\ published = <<>>
          \/ /\ infos = CudaDevices
             /\ DOMAIN published = 1 .. (IF Cardinality(Taken) > MaxEpDevices THEN MaxEpDevices
                                         ELSE Cardinality(Taken))
             /\ Len(published) = IF Cardinality(Taken) > MaxEpDevices THEN MaxEpDevices
                                 ELSE Cardinality(Taken)
             /\ \A n \in DOMAIN published : published[n] = Described(InOrder(Taken)[n])

LEMMA InitDevices == DevicesInit => DevicesInv
  BY DevicesAssumption DEF DevicesInit, DevicesInv, Range

LEMMA DevicesStep ==
  ASSUME DevicesInv, GetSupportedDevices \/ UNCHANGED deviceVars
  PROVE  DevicesInv'
<1>1. CASE UNCHANGED deviceVars
  BY <1>1 DEF DevicesInv, deviceVars, Range
<1>2. CASE GetSupportedDevices /\ env.lockdown
  <2>1. published' = VirtualDevices(env) /\ UNCHANGED <<env, infos>>
    BY <1>2 DEF GetSupportedDevices, DescribeVirtualDevice, EnumerateDevices
  <2>2. \A e \in Range(published') : e.cuda = 0 /\ e.target \in NamedSMs
    BY <2>1 DEF VirtualDevices, Range, IsTargetSMSupported
  <2> QED
    BY <1>2, <2>1, <2>2 DEF DevicesInv, Range
<1>3. CASE GetSupportedDevices /\ ~env.lockdown
  <2> DEFINE room == IF Cardinality(Taken) > MaxEpDevices THEN MaxEpDevices ELSE Cardinality(Taken)
  <2>1. /\ published' = [n \in 1 .. room |-> Described(InOrder(Taken)[n])]
        /\ infos' = CudaDevices /\ env' = env
    BY <1>3 DEF GetSupportedDevices, DescribeVirtualDevice, EnumerateDevices,
       CreateMemoryInfoForDevices, Taken, CudaDevices
  <2>2. room \in Nat
    BY TakenIsFinite, DevicesAssumption
  <2>3. DOMAIN published' = 1 .. room /\ Len(published') = room
    BY <2>1, <2>2
  <2> QED
    BY <1>3, <2>1, <2>3 DEF DevicesInv
<1> QED
  BY <1>1, <1>2, <1>3

\* A published device of a process with a driver is one of the CUDA devices.
LEMMA PublishedIsReal ==
  ASSUME DevicesInv, NEW e \in Range(published)
  PROVE  /\ env.lockdown => e.cuda = 0
         /\ ~env.lockdown => e.cuda \in CudaDevices /\ e.cuda # 0
<1>1. CASE env.lockdown
  BY <1>1 DEF DevicesInv
<1>2. CASE ~env.lockdown
  <2>1. PICK n \in DOMAIN published : e = published[n]
    BY DEF Range
  <2>2. e = Described(InOrder(Taken)[n]) /\ n \in 1 .. Cardinality(Taken)
    BY <1>2, <2>1, TakenIsFinite, DevicesAssumption DEF DevicesInv
  <2>3. InOrder(Taken)[n] \in Taken
    BY <2>2, TakenIsFinite, InOrderLists
  <2>4. CudaIndex(Hardware[InOrder(Taken)[n]]) # 0
    BY <2>3 DEF Taken, IsOrtHardwareDeviceSupported
  <2>5. e.cuda = CudaIndex(Hardware[InOrder(Taken)[n]])
    BY <2>2 DEF Described
  <2> QED
    BY <1>2, <2>4, <2>5, CudaIndexFinds
<1> QED
  BY <1>1, <1>2

\* The judgements agree wherever the published devices are what they must be.
LEMMA JudgementsFromDevices == DevicesInv => JudgementsAgree
<1> SUFFICES ASSUME DevicesInv PROVE JudgementsAgree
  OBVIOUS
<1>1. CASE env.lockdown
  BY <1>1 DEF DevicesInv, JudgementsAgree, CreateEpAccepts
<1>2. CASE ~env.lockdown /\ infos = {} /\ published = <<>>
  BY <1>2 DEF JudgementsAgree
<1>3. CASE /\ ~env.lockdown /\ infos = CudaDevices
           /\ \A n \in DOMAIN published : published[n] = Described(InOrder(Taken)[n])
           /\ DOMAIN published = 1 .. (IF Cardinality(Taken) > MaxEpDevices THEN MaxEpDevices
                                       ELSE Cardinality(Taken))
           /\ Len(published) = IF Cardinality(Taken) > MaxEpDevices THEN MaxEpDevices
                               ELSE Cardinality(Taken)
  <2> DEFINE nth(n) == InOrder(Taken)[n]
             room == IF Cardinality(Taken) > MaxEpDevices THEN MaxEpDevices ELSE Cardinality(Taken)
  <2>1. \A n \in DOMAIN published :
           /\ nth(n) \in Taken /\ Rank(Taken, nth(n)) = n - 1
           /\ published[n].hardware = nth(n) /\ published[n].cuda = CudaIndex(Hardware[nth(n)])
    <3>1. TAKE n \in DOMAIN published
    <3>2. n \in 1 .. Cardinality(Taken)
      BY <1>3, TakenIsFinite, DevicesAssumption
    <3>3. nth(n) \in Taken /\ Rank(Taken, nth(n)) = n - 1
      BY <3>2, TakenIsFinite, InOrderLists
    <3>4. published[n] = Described(nth(n))
      BY <1>3
    <3> QED
      BY <3>3, <3>4 DEF Described
  <2>2. ASSUME NEW i \in DOMAIN published, NEW j \in DOMAIN published, i # j
        PROVE  published[i].cuda # published[j].cuda
    <3>1. nth(i) # nth(j)
      <4>1. i \in Int /\ j \in Int
        BY <1>3, TakenIsFinite, DevicesAssumption
      <4> QED
        BY <2>1, <2>2, <4>1
    <3>2. Hardware[nth(i)].key # Hardware[nth(j)].key
      <4>1. CudaIndex(Hardware[nth(i)]) # 0 /\ nth(i) \in DOMAIN Hardware /\ nth(j) \in DOMAIN Hardware
        BY <2>1 DEF Taken, IsOrtHardwareDeviceSupported
      <4>2. Hardware[nth(i)].key # NoKey
        BY <4>1, CudaIndexFinds
      <4> QED
        BY <3>1, <4>1, <4>2, DevicesAssumption
    <3>3. CudaIndex(Hardware[nth(i)]) # 0 /\ CudaIndex(Hardware[nth(j)]) # 0
      BY <2>1 DEF Taken, IsOrtHardwareDeviceSupported
    <3> QED
      BY <2>1, <3>2, <3>3, CudaIndexFinds
  <2>3. \A i \in Taken : /\ CreateEpAccepts(FALSE, Hardware[i], FALSE)
                         /\ Incompatibility(Hardware[i], Newest) = "none"
                         /\ CudaIndex(Hardware[i]) \in CudaDevices
    <3>1. TAKE i \in Taken
    <3> DEFINE k == CudaIndex(Hardware[i])
    <3>2. k # 0 /\ IsNvidiaGpu(Hardware[i]) /\ IsOrtHardwareDeviceSupported(Hardware[i])
      BY DEF Taken, IsOrtHardwareDeviceSupported
    <3>3. k \in CudaDevices
      BY <3>2, CudaIndexFinds
    <3>4. CompareNVMLDriverVersion(Newest, MinDriverVersion(Cuda[k].cc))
      BY <3>3, DevicesAssumption DEF CompareNVMLDriverVersion, MinDriverVersion, Newest, CudaDevices
    <3> QED
      BY <3>2, <3>3, <3>4 DEF Incompatibility, CreateEpAccepts
  <2>4. \A i \in DOMAIN Hardware : IsNvidiaGpu(Hardware[i]) /\ i \notin Taken =>
           /\ ~CreateEpAccepts(FALSE, Hardware[i], FALSE)
           /\ Incompatibility(Hardware[i], Newest) = "device"
    BY DEF Taken, CreateEpAccepts, Incompatibility
  <2>5. ASSUME NEW i \in Taken, ~\E e \in Range(published) : e.hardware = i
        PROVE  Len(published) = MaxEpDevices
    <3>1. Rank(Taken, i) + 1 \in 1 .. Cardinality(Taken) /\ nth(Rank(Taken, i) + 1) = i
      BY TakenIsFinite, InOrderLists
    <3>2. Rank(Taken, i) + 1 \notin DOMAIN published
      BY <2>1, <2>5, <3>1 DEF Range
    <3>3. Cardinality(Taken) > MaxEpDevices
      BY <1>3, <3>1, <3>2
    <3> QED
      BY <1>3, <3>3
  <2>6. \A i \in DOMAIN Hardware : (\E e \in Range(published) : e.hardware = i) => i \in Taken
    BY <2>1 DEF Range
  <2> QED
    BY <1>3, <2>2, <2>3, <2>4, <2>5, <2>6 DEF JudgementsAgree
<1> QED
  BY <1>1, <1>2, <1>3 DEF DevicesInv

-----------------------------------------------------------------------------
(* Sequences. *)

LEMMA StacksStay ==
  ASSUME NEW S, NEW stack \in Seq(S), NEW c \in S
  PROVE  /\ WithCurrent(stack, c) \in Seq(S) /\ Append(stack, c) \in Seq(S)
         /\ <<c>> \in Seq(S) /\ <<>> \in Seq(S)
         /\ WithoutCurrent(stack, c) \in Seq(S)
         /\ stack # <<>> => Last(stack) \in S
<1>1. Append(stack, c) \in Seq(S) /\ <<c>> \in Seq(S) /\ <<>> \in Seq(S)
  OBVIOUS
<1>2. stack # <<>> => Len(stack) \in 1 .. Len(stack) /\ Len(stack) \in Nat
  OBVIOUS
<1>3. stack # <<>> => Last(stack) \in S
  BY <1>2 DEF Last
<1>4. WithCurrent(stack, c) \in Seq(S)
  BY <1>1, <1>2 DEF WithCurrent
<1>5. WithoutCurrent(stack, c) \in Seq(S)
  BY <1>2 DEF WithoutCurrent, Front
<1> QED
  BY <1>1, <1>3, <1>4, <1>5

LEMMA LastInside ==
  ASSUME NEW S, NEW stack \in Seq(S), stack # <<>>
  PROVE  Last(stack) \in S
<1>1. Len(stack) \in 1 .. Len(stack)
  OBVIOUS
<1> QED
  BY <1>1 DEF Last

-----------------------------------------------------------------------------
(* Calls and contexts. *)

Calls == [at : Places, device : DeviceIds \cup {0}, context : AllContexts \cup {None},
          stack : Seq(AllContexts), slot : Streams \cup {None},
          previous : AllContexts \cup {None}, changed : BOOLEAN, found : Seq(AllContexts)]
Made == [context : AllContexts, lies : AllContexts]

Types ==
  /\ cig \in [DeviceIds -> AllContexts \cup {None}]
  /\ contexts \in Seq([device : CudaDevices, live : BOOLEAN]) /\ Len(contexts) <= MaxContexts
  /\ thread \in [Threads -> Calls]
  /\ stream \in [Streams -> Made \cup {None}]
  /\ event \in [Streams -> AllContexts \cup {None}]

\* Thread t holds the graphics context n, to publish or to destroy it.
InHand(t, n) == (At(t, "publish") \/ At(t, "destroy")) /\ thread[t].context = Graphics(n)

\* A call under way has the device it looked up, and a context it made or took.
Placed(t) ==
  /\ At(t, "stream") => thread[t].device \in CudaDevices
  /\ At(t, "create") \/ At(t, "publish") =>
       thread[t].device \in DeviceIds /\ (~env.lockdown => thread[t].device \in CudaDevices)
  /\ At(t, "publish") \/ At(t, "destroy") =>
       \E n \in DOMAIN contexts :
         /\ InHand(t, n) /\ contexts[n].live
         /\ At(t, "publish") => contexts[n].device = thread[t].device

Mapped(d) ==
  cig[d] # None =>
    \E n \in DOMAIN contexts : cig[d] = Graphics(n) /\ contexts[n].live /\ contexts[n].device = d

OneHolder ==
  /\ \A t, u \in Threads : \A n \in DOMAIN contexts : InHand(t, n) /\ InHand(u, n) => t = u
  /\ \A t \in Threads, d \in DeviceIds : \A n \in DOMAIN contexts :
       InHand(t, n) => cig[d] # Graphics(n)

SomeHolder ==
  \A n \in DOMAIN contexts : contexts[n].live =>
    (\E d \in DeviceIds : cig[d] = Graphics(n)) \/ (\E t \in Threads : InHand(t, n))

InteropInv ==
  /\ DevicesInv /\ Types
  /\ \A t \in Threads : Placed(t)
  /\ \A d \in DeviceIds : Mapped(d)
  /\ OneHolder /\ SomeHolder

LEMMA NoneIsNoContext == None \notin AllContexts
  BY InteropAssumption DEF AllContexts, CudaDevices

LEMMA GraphicsAreContexts ==
  ASSUME Types, NEW n \in DOMAIN contexts
  PROVE  Graphics(n) \in AllContexts /\ Graphics(n) # None
<1>1. n \in 1 .. Len(contexts) /\ Len(contexts) \in Nat /\ Len(contexts) <= MaxContexts
  BY DEF Types
<1>2. n \in 1 .. MaxContexts
  BY <1>1, InteropAssumption
<1>3. Graphics(n) \in AllContexts
  BY <1>2 DEF AllContexts, Graphics
<1> QED
  BY <1>3, NoneIsNoContext

LEMMA InteropInit == Init => InteropInv
<1> SUFFICES ASSUME Init PROVE InteropInv
  OBVIOUS
<1> USE DEF Init
<1>1. DevicesInv
  BY InitDevices
<1>2. Types
  <2>1. Idle \in Calls
    BY InteropAssumption DEF Idle, Calls, Places
  <2>2. contexts \in Seq([device : CudaDevices, live : BOOLEAN]) /\ Len(contexts) <= MaxContexts
    BY InteropAssumption
  <2> QED
    BY <2>1, <2>2 DEF Types
<1>3. \A t \in Threads : Placed(t)
  BY DEF Placed, At, Idle
<1>4. \A d \in DeviceIds : Mapped(d)
  BY DEF Mapped
<1>5. OneHolder /\ SomeHolder
  BY DEF OneHolder, SomeHolder, InHand, At, Idle
<1> QED
  BY <1>1, <1>2, <1>3, <1>4, <1>5 DEF InteropInv

\* A thread that starts or leaves a call without a context in its hands changes
\* nothing that the others rely on.
LEMMA QuietStep ==
  ASSUME InteropInv, NEW t \in Threads, NEW r \in Calls, Step(t, r),
         UNCHANGED <<deviceVars, cig, contexts>>,
         ~At(t, "publish"), ~At(t, "destroy"), r.at # "publish", r.at # "destroy",
         r.at = "stream" => r.device \in CudaDevices,
         r.at = "create" => r.device \in DeviceIds /\ (~env.lockdown => r.device \in CudaDevices),
         stream' \in [Streams -> Made \cup {None}],
         event' \in [Streams -> AllContexts \cup {None}]
  PROVE  InteropInv'
<1>1. thread' = [thread EXCEPT ![t] = r] /\ thread \in [Threads -> Calls]
  BY DEF Step, InteropInv, Types
<1>2. DevicesInv'
  BY DevicesStep DEF InteropInv
<1>3. Types'
  BY <1>1 DEF Types, InteropInv
<1>4. \A u \in Threads : thread'[u] = IF u = t THEN r ELSE thread[u]
  BY <1>1
<1>5. \A u \in Threads : \A n : InHand(u, n)' <=> InHand(u, n)
  BY <1>4 DEF InHand, At
<1>6. ASSUME NEW u \in Threads PROVE Placed(u)'
  <2>1. Placed(u) /\ env' = env /\ contexts' = contexts
    BY DEF InteropInv, deviceVars
  <2>2. CASE u = t
    BY <1>4, <2>1, <2>2 DEF Placed, At
  <2>3. CASE u # t
    BY <1>4, <1>5, <2>1, <2>3 DEF Placed, At
  <2> QED
    BY <2>2, <2>3
<1>7. \A d \in DeviceIds : Mapped(d)'
  BY DEF InteropInv, Mapped
<1>8. OneHolder' /\ SomeHolder'
  BY <1>5 DEF InteropInv, OneHolder, SomeHolder
<1> QED
  BY <1>2, <1>3, <1>6, <1>7, <1>8 DEF InteropInv

LEMMA IdleIsCall == Idle \in Calls /\ Idle.at = "idle"
  BY InteropAssumption DEF Idle, Calls, Places

\* A thread leaves a call.
LEMMA LeaveStep ==
  ASSUME InteropInv, NEW t \in Threads, NEW stack \in Seq(AllContexts),
         Step(t, [Idle EXCEPT !.stack = stack]),
         UNCHANGED <<deviceVars, cig, contexts>>, ~At(t, "publish"), ~At(t, "destroy"),
         stream' \in [Streams -> Made \cup {None}],
         event' \in [Streams -> AllContexts \cup {None}]
  PROVE  InteropInv'
<1> DEFINE r == [Idle EXCEPT !.stack = stack]
<1>1. r \in Calls /\ r.at = "idle" /\ Step(t, r)
  BY IdleIsCall DEF Calls
<1> HIDE DEF r
<1> QED
  BY <1>1, QuietStep

\* A call pushes a context, or fails and is over.
LEMMA PushContextStep ==
  ASSUME InteropInv, NEW t \in Threads, NEW s \in Streams \cup {None},
         NEW base \in Seq(AllContexts), NEW c \in AllContexts, PushContext(t, s, base, c),
         UNCHANGED <<deviceVars, cig, contexts, stream, event>>, ~At(t, "publish"), ~At(t, "destroy")
  PROVE  InteropInv'
<1>1. thread[t] \in Calls /\ stream' \in [Streams -> Made \cup {None}]
      /\ event' \in [Streams -> AllContexts \cup {None}]
  BY DEF InteropInv, Types
<1> DEFINE r == [thread[t] EXCEPT !.at = "push", !.slot = s, !.stack = Append(base, c),
                                  !.found = thread[t].stack]
<1>2. r \in Calls /\ r.at = "push"
  <2>1. Append(base, c) \in Seq(AllContexts) /\ "push" \in Places
    BY DEF Places
  <2> QED
    BY <1>1, <2>1 DEF Calls
<1>3. CASE Step(t, r)
  <2> HIDE DEF r
  <2> QED
    BY <1>1, <1>2, <1>3, QuietStep
<1>4. CASE Leave(t, base)
  BY <1>1, <1>4, LeaveStep DEF Leave
<1> QED
  BY <1>3, <1>4 DEF PushContext

LEMMA IdsOfPublished ==
  ASSUME DevicesInv, NEW e \in Range(published)
  PROVE  ParseDeviceId(e) \in DeviceIds /\ (~env.lockdown => ParseDeviceId(e) \in CudaDevices)
<1>1. env.lockdown \in BOOLEAN
  BY DevicesAssumption DEF DevicesInv
<1>2. e.cuda # 0 => e.cuda \in CudaDevices
  BY <1>1, PublishedIsReal
<1>3. ~env.lockdown => ParseDeviceId(e) \in CudaDevices
  BY PublishedIsReal DEF ParseDeviceId
<1> QED
  BY <1>2, <1>3 DEF ParseDeviceId, DeviceIds

LEMMA InfosAreReal == DevicesInv => infos \subseteq CudaDevices
  BY DEF DevicesInv

LEMMA BeginInitStep ==
  ASSUME InteropInv, NEW t \in Threads, NEW e \in Range(published), BeginInit(t, e)
  PROVE  InteropInv'
<1> DEFINE r == [thread[t] EXCEPT !.at = "create", !.device = ParseDeviceId(e)]
<1>1. thread[t] \in Calls /\ DevicesInv
  BY DEF InteropInv, Types
<1>2. r.device \in DeviceIds /\ (~env.lockdown => r.device \in CudaDevices)
  BY <1>1, IdsOfPublished DEF Calls
<1>3. r \in Calls /\ r.at = "create"
  BY <1>1, <1>2 DEF Calls, Places
<1>4. Step(t, r) /\ UNCHANGED <<deviceVars, cig, contexts, event, stream>> /\ At(t, "idle")
  BY DEF BeginInit
<1> HIDE DEF r
<1> QED
  BY <1>2, <1>3, <1>4, QuietStep DEF InteropInv, Types, At

LEMMA SelectDeviceStep ==
  ASSUME InteropInv, NEW t \in Threads, NEW e \in Range(published), SelectDevice(t, e)
  PROVE  InteropInv'
<1> DEFINE r == [thread[t] EXCEPT !.stack = WithCurrent(@, Primary(e.cuda))]
<1>1. thread[t] \in Calls /\ DevicesInv
  BY DEF InteropInv, Types
<1>2. e.cuda \in CudaDevices
  BY <1>1, PublishedIsReal DEF SelectDevice, CreateEpAccepts
<1>3. Primary(e.cuda) \in AllContexts
  BY <1>2 DEF AllContexts, Primary
<1>4. r \in Calls /\ r.at = "idle"
  <2>1. WithCurrent(thread[t].stack, Primary(e.cuda)) \in Seq(AllContexts)
    BY <1>1, <1>3, StacksStay DEF Calls
  <2> QED
    BY <1>1, <2>1 DEF Calls, SelectDevice, At
<1>5. Step(t, r) /\ UNCHANGED <<deviceVars, cig, contexts, event, stream>> /\ At(t, "idle")
  BY DEF SelectDevice
<1> HIDE DEF r
<1> QED
  BY <1>4, <1>5, QuietStep DEF InteropInv, Types, At

LEMMA BeginStreamStep ==
  ASSUME InteropInv, NEW t \in Threads, NEW e \in Range(published), BeginStream(t, e)
  PROVE  InteropInv'
<1> DEFINE r == [thread[t] EXCEPT !.at = "stream", !.device = e.cuda, !.context = GetCigContext(e.cuda),
                                  !.found = thread[t].stack]
<1>1. thread[t] \in Calls /\ infos \subseteq CudaDevices
  BY InfosAreReal DEF InteropInv, Types
<1>2. e.cuda \in CudaDevices /\ e.cuda \in DeviceIds
  BY <1>1 DEF BeginStream, DeviceIds
<1>3. GetCigContext(e.cuda) \in AllContexts \cup {None}
  BY <1>2 DEF GetCigContext, InteropInv, Types
<1>4. r \in Calls /\ r.at = "stream" /\ r.device \in CudaDevices
  BY <1>1, <1>2, <1>3 DEF Calls, Places
<1>5. Step(t, r) /\ UNCHANGED <<deviceVars, cig, contexts, event, stream>> /\ At(t, "idle")
  BY DEF BeginStream
<1> HIDE DEF r
<1> QED
  BY <1>4, <1>5, QuietStep DEF InteropInv, Types, At

\* A call enters a context, or fails and is over.
LEMMA SetContextStep ==
  ASSUME InteropInv, NEW t \in Threads, NEW where \in Places, NEW s \in Streams \cup {None},
         NEW c \in AllContexts, ~At(t, "publish"), ~At(t, "destroy"),
         where \notin {"create", "publish", "destroy", "stream"},
         SetContext(t, where, s, c) \/ SetContextNoThrow(t, where, s, c),
         UNCHANGED <<deviceVars, cig, contexts, stream, event>>
  PROVE  InteropInv'
<1>1. thread[t] \in Calls
  BY DEF InteropInv, Types
<1>2. Current(t) \in AllContexts \cup {None} /\ WithCurrent(thread[t].stack, c) \in Seq(AllContexts)
  BY <1>1, StacksStay DEF Current, Calls
<1>3. ASSUME NEW stack \in Seq(AllContexts), NEW changed \in BOOLEAN, Inside(t, where, s, stack, changed)
      PROVE  InteropInv'
  <2> DEFINE r == [thread[t] EXCEPT !.at = where, !.device = 0, !.slot = s, !.stack = stack,
                                    !.previous = Current(t), !.changed = changed,
                                    !.found = thread[t].stack]
  <2>1. r \in Calls /\ r.at = where
    BY <1>1, <1>2 DEF Calls
  <2>2. Step(t, r)
    BY <1>3 DEF Inside
  <2> HIDE DEF r
  <2> QED
    BY <2>1, <2>2, QuietStep DEF InteropInv, Types
<1>4. CASE Return(t)
  <2>1. Step(t, [Idle EXCEPT !.stack = thread[t].stack])
    BY <1>4 DEF Return, Leave
  <2> QED
    BY <1>1, <2>1, LeaveStep DEF InteropInv, Types, Calls
<1>5. thread[t].stack \in Seq(AllContexts)
  BY <1>1 DEF Calls
<1> QED
  BY <1>2, <1>3, <1>4, <1>5 DEF SetContext, SetContextNoThrow

LEMMA RestoredIsStack ==
  ASSUME InteropInv, NEW t \in Threads
  PROVE  Restored(t) \in Seq(AllContexts)
<1>1. thread[t] \in Calls
  BY DEF InteropInv, Types
<1>2. /\ thread[t].stack \in Seq(AllContexts)
      /\ thread[t].previous # None => thread[t].previous \in AllContexts
      /\ thread[t].changed \in BOOLEAN
  BY <1>1 DEF Calls
<1>3. Front(thread[t].stack) \in Seq(AllContexts) \/ thread[t].stack = <<>>
  BY <1>2 DEF Front
<1>4. thread[t].stack = <<>> => Front(thread[t].stack) = <<>>
  BY DEF Front
<1>5. thread[t].previous # None => WithCurrent(thread[t].stack, thread[t].previous) \in Seq(AllContexts)
  BY <1>2, StacksStay
<1> QED
  BY <1>2, <1>3, <1>4, <1>5 DEF Restored

LEMMA BeginImportStep ==
  ASSUME InteropInv, NEW t \in Threads, NEW e \in Range(published), BeginImport(t, e)
  PROVE  InteropInv'
<1> DEFINE base == BaseForImport(t, ParseDeviceId(e))
<1>1. thread[t] \in Calls /\ ParseDeviceId(e) \in CudaDevices /\ At(t, "idle")
  BY InfosAreReal DEF InteropInv, Types, BeginImport
<1>2. Primary(ParseDeviceId(e)) \in AllContexts
  BY <1>1 DEF AllContexts, Primary
<1>3. base \in Seq(AllContexts) /\ base # <<>>
  BY <1>1, <1>2, StacksStay DEF BaseForImport, Calls
<1>4. PushContext(t, None, base, Last(base)) /\ UNCHANGED <<deviceVars, cig, contexts, stream, event>>
  BY DEF BeginImport
<1> HIDE DEF base
<1>5. Last(base) \in AllContexts
  BY <1>3, LastInside
<1> QED
  BY <1>1, <1>3, <1>4, <1>5, PushContextStep DEF At

LEMMA EnterStreamStep ==
  ASSUME InteropInv, NEW t \in Threads, NEW s \in Streams, EnterStream(t, s) \/ BeginSemaphore(t, s)
  PROVE  InteropInv'
<1>1. At(t, "idle") /\ stream[s] # None /\ UNCHANGED <<deviceVars, cig, contexts, stream, event>>
  BY DEF EnterStream, BeginSemaphore, Idling
<1>2. /\ stream[s].lies \in AllContexts /\ stream[s].context \in AllContexts
      /\ event[s] # None => event[s] \in AllContexts
  BY <1>1 DEF InteropInv, Types, Made
<1>3. CASE BeginSemaphore(t, s)
  <2>1. thread[t].stack \in Seq(AllContexts)
    BY DEF InteropInv, Types, Calls
  <2> QED
    BY <1>1, <1>2, <1>3, <2>1, PushContextStep DEF BeginSemaphore, At
<1>4. CASE EnterStream(t, s)
  <2>1. {"newEvent", "use", "freeEvent", "freeStream"} \subseteq Places
    BY DEF Places
  <2>2. /\ ~At(t, "publish") /\ ~At(t, "destroy")
    BY <1>1 DEF At
  <2>3. CASE SetContext(t, "newEvent", s, stream[s].lies)
    BY ONLY InteropInv, <1>1, <1>2, <2>1, <2>2, <2>3, SetContextStep
  <2>4. CASE SetContext(t, "use", s, stream[s].context)
    BY ONLY InteropInv, <1>1, <1>2, <2>1, <2>2, <2>4, SetContextStep
  <2>5. CASE event[s] # None /\ SetContextNoThrow(t, "freeEvent", s, event[s])
    BY ONLY InteropInv, <1>1, <1>2, <2>1, <2>2, <2>5, SetContextStep
  <2>6. CASE SetContextNoThrow(t, "freeStream", s, stream[s].context)
    BY ONLY InteropInv, <1>1, <1>2, <2>1, <2>2, <2>6, SetContextStep
  <2> QED
    BY <1>4, <2>3, <2>4, <2>5, <2>6 DEF EnterStream
<1> QED
  BY <1>3, <1>4

LEMMA EnterGraphicsStep ==
  ASSUME InteropInv, NEW t \in Threads, EnterGraphics(t)
  PROVE  InteropInv'
<1>1. thread[t].context \in AllContexts /\ "newStream" \in Places
  BY DEF InteropInv, Types, Calls, EnterGraphics, Places
<1>2. /\ SetContext(t, "newStream", None, thread[t].context)
      /\ UNCHANGED <<deviceVars, cig, contexts, stream, event>>
      /\ ~At(t, "publish") /\ ~At(t, "destroy")
  BY DEF EnterGraphics, At
<1> QED
  BY ONLY InteropInv, t \in Threads, <1>1, <1>2, SetContextStep

\* CUDA makes a stream in a context, which the implementation remembers, or fails.
LEMMA MakeStreamTyped ==
  ASSUME InteropInv, NEW s \in Streams, NEW c \in AllContexts, NEW m \in AllContexts, MakeStream(s, m, c)
  PROVE  stream' \in [Streams -> Made \cup {None}]
<1>1. stream \in [Streams -> Made \cup {None}] /\ [context |-> m, lies |-> c] \in Made
  BY DEF InteropInv, Types, Made
<1> QED
  BY <1>1 DEF MakeStream

LEMMA CreateStreamStep ==
  ASSUME InteropInv, NEW t \in Threads, NEW s \in Streams, CreateStream(t, s)
  PROVE  InteropInv'
<1>1. thread[t] \in Calls /\ thread[t].device \in CudaDevices /\ At(t, "stream")
  BY DEF InteropInv, Types, CreateStream, Placed
<1>2. Primary(thread[t].device) \in AllContexts
  BY <1>1 DEF AllContexts, Primary
<1>3. StackForStream(t) \in Seq(AllContexts) /\ StackForStream(t) # <<>>
  BY <1>1, <1>2, StacksStay DEF StackForStream, Calls
<1>4. Last(StackForStream(t)) \in AllContexts
  BY <1>3, LastInside
<1>5. stream' \in [Streams -> Made \cup {None}]
  BY <1>4, MakeStreamTyped DEF CreateStream
<1>6. /\ Step(t, [Idle EXCEPT !.stack = StackForStream(t)])
      /\ UNCHANGED <<deviceVars, cig, contexts, event>>
  BY DEF CreateStream, Leave
<1> QED
  BY <1>1, <1>3, <1>5, <1>6, LeaveStep DEF At, InteropInv, Types

\* What a call does inside a context is over with it.
LEMMA LeaveScopeStep ==
  ASSUME InteropInv, NEW t \in Threads,
         \/ \E s \in Streams : CreateGraphicsStream(t, s)
         \/ CreateNotification(t) \/ UseStream(t) \/ ReleaseNotification(t) \/ ReleaseStream(t),
         At(t, "newStream") => thread[t].context # None /\ CallContext(t) \in AllContexts,
         At(t, "newEvent") => CallContext(t) \in AllContexts
  PROVE  InteropInv'
<1>1. /\ Step(t, [Idle EXCEPT !.stack = Restored(t)]) /\ UNCHANGED <<deviceVars, cig, contexts>>
      /\ ~At(t, "publish") /\ ~At(t, "destroy")
  BY DEF CreateGraphicsStream, CreateNotification, UseStream, ReleaseNotification, ReleaseStream, Leave, At
<1>2. /\ stream \in [Streams -> Made \cup {None}] /\ event \in [Streams -> AllContexts \cup {None}]
      /\ thread[t].context \in AllContexts \cup {None}
  BY DEF InteropInv, Types, Calls
<1>3. /\ stream' \in [Streams -> Made \cup {None}] /\ event' \in [Streams -> AllContexts \cup {None}]
  <2>1. ASSUME NEW s \in Streams, CreateGraphicsStream(t, s)
        PROVE  stream' \in [Streams -> Made \cup {None}] /\ event' = event
    BY <1>2, <2>1, MakeStreamTyped DEF CreateGraphicsStream
  <2>2. CASE CreateNotification(t)
    BY <1>2, <2>2 DEF CreateNotification
  <2>3. CASE UseStream(t) \/ ReleaseNotification(t) \/ ReleaseStream(t)
    BY <1>2, <2>3 DEF UseStream, ReleaseNotification, ReleaseStream
  <2> QED
    BY <1>2, <2>1, <2>2, <2>3
<1> QED
  BY ONLY InteropInv, t \in Threads, <1>1, <1>3, RestoredIsStack, LeaveStep

LEMMA PopContextStep ==
  ASSUME InteropInv, NEW t \in Threads, PopContext(t)
  PROVE  InteropInv'
<1>1. thread[t].stack \in Seq(AllContexts)
  BY DEF InteropInv, Types, Calls
<1>2. Front(thread[t].stack) \in Seq(AllContexts)
  <2>1. thread[t].stack = <<>> => Front(thread[t].stack) = <<>>
    BY DEF Front
  <2>2. thread[t].stack # <<>> => Front(thread[t].stack) \in Seq(AllContexts)
    BY <1>1 DEF Front
  <2>3. <<>> \in Seq(AllContexts)
    OBVIOUS
  <2> QED
    BY <2>1, <2>2, <2>3
<1> QED
  BY <1>2, LeaveStep DEF PopContext, Leave, At, InteropInv, Types

LEMMA CreateContextFails ==
  ASSUME InteropInv, NEW t \in Threads, At(t, "create"), Return(t),
         UNCHANGED <<deviceVars, cig, contexts, stream, event>>
  PROVE  InteropInv'
<1> DEFINE r == [Idle EXCEPT !.stack = thread[t].stack]
<1>1. thread[t] \in Calls
  BY DEF InteropInv, Types
<1>2. r \in Calls /\ r.at = "idle"
  BY <1>1, IdleIsCall DEF Calls
<1>3. Step(t, r)
  BY DEF Return, Leave
<1> HIDE DEF r
<1> QED
  BY <1>2, <1>3, QuietStep DEF InteropInv, Types, At

\* The new context is in the hands of the thread that made it, and of no one else.
LEMMA CreateContextMakes ==
  ASSUME InteropInv, NEW t \in Threads, At(t, "create"), ~env.lockdown, Len(contexts) < MaxContexts,
         contexts' = Append(contexts, [device |-> thread[t].device, live |-> TRUE]),
         Step(t, [thread[t] EXCEPT !.at = "publish", !.context = Graphics(Len(contexts) + 1),
                                   !.stack = Append(@, Graphics(Len(contexts) + 1))]),
         UNCHANGED <<deviceVars, cig, stream, event>>
  PROVE  InteropInv'
<1>0. PICK k : k = Len(contexts) + 1
  OBVIOUS
<1> DEFINE r == [thread[t] EXCEPT !.at = "publish", !.context = Graphics(k),
                                  !.stack = Append(@, Graphics(k))]
           made == [device |-> thread[t].device, live |-> TRUE]
<1>1. /\ thread[t] \in Calls /\ thread \in [Threads -> Calls]
      /\ contexts \in Seq([device : CudaDevices, live : BOOLEAN]) /\ Len(contexts) \in Nat
      /\ DOMAIN contexts = 1 .. Len(contexts)
  BY DEF InteropInv, Types
<1>2. k \in 1 .. MaxContexts /\ k \notin DOMAIN contexts
  BY <1>0, <1>1, InteropAssumption
<1>3. Graphics(k) \in AllContexts
  BY <1>2 DEF AllContexts, Graphics
<1>4. thread[t].device \in CudaDevices
  BY DEF InteropInv, Placed
<1>5. r \in Calls /\ r.at = "publish" /\ r.context = Graphics(k) /\ r.device = thread[t].device
  <2>1. Append(thread[t].stack, Graphics(k)) \in Seq(AllContexts)
    BY <1>1, <1>3, StacksStay DEF Calls
  <2> QED
    BY <1>1, <1>3, <2>1 DEF Calls, Places
<1>6. /\ contexts' \in Seq([device : CudaDevices, live : BOOLEAN]) /\ Len(contexts') = k
      /\ DOMAIN contexts' = DOMAIN contexts \cup {k} /\ contexts'[k] = made
      /\ \A n \in DOMAIN contexts : contexts'[n] = contexts[n]
  BY <1>0, <1>1, <1>4
<1>7. thread' = [thread EXCEPT ![t] = r]
  BY <1>0 DEF Step
<1> HIDE DEF r
<1>8. \A u \in Threads : thread'[u] = IF u = t THEN r ELSE thread[u]
  BY <1>1, <1>7
<1>9. \A u \in Threads : \A n : InHand(u, n)' <=> IF u = t THEN Graphics(k) = Graphics(n) ELSE InHand(u, n)
  BY <1>5, <1>8 DEF InHand, At
<1>10. \A n \in DOMAIN contexts : Graphics(n) # Graphics(k)
  BY <1>2 DEF Graphics
<1>11. ASSUME NEW u \in Threads, InHand(u, k) PROVE FALSE
  <2>1. Placed(u)
    BY DEF InteropInv
  <2>2. PICK n \in DOMAIN contexts : InHand(u, n)
    BY <1>11, <2>1 DEF Placed, InHand
  <2> QED
    BY <1>11, <2>2, <1>10 DEF InHand
<1>12. ASSUME NEW d \in DeviceIds, cig[d] = Graphics(k) PROVE FALSE
  <2>1. Mapped(d) /\ cig[d] # None
    BY <1>3, <1>12, NoneIsNoContext DEF InteropInv
  <2> QED
    BY <1>12, <2>1, <1>10 DEF Mapped
<1>13. DevicesInv'
  BY DevicesStep DEF InteropInv
<1>14. Types'
  BY <1>5, <1>6, <1>7, <1>2, <1>1 DEF InteropInv, Types
<1>15. ASSUME NEW u \in Threads PROVE Placed(u)'
  <2>1. Placed(u) /\ env' = env
    BY DEF InteropInv, deviceVars
  <2>2. CASE u = t
    <3>1. InHand(t, k)' /\ contexts'[k].live /\ contexts'[k].device = thread'[t].device /\ k \in DOMAIN contexts'
      BY <1>5, <1>6, <1>8, <1>9
    <3>2. /\ ~At(t, "stream")' /\ thread'[t].device \in CudaDevices
      BY <1>4, <1>5, <1>8 DEF At
    <3> QED
      BY <2>2, <3>1, <3>2 DEF Placed, DeviceIds
  <2>3. CASE u # t
    BY <2>1, <2>3, <1>6, <1>8, <1>9 DEF Placed, At
  <2> QED
    BY <2>2, <2>3
<1>16. \A d \in DeviceIds : Mapped(d)'
  BY <1>6 DEF InteropInv, Mapped
<1>17. OneHolder'
  BY <1>6, <1>9, <1>10, <1>11, <1>12 DEF InteropInv, OneHolder
<1>18. SomeHolder'
  <2> SUFFICES ASSUME NEW n \in DOMAIN contexts', contexts'[n].live
               PROVE  (\E d \in DeviceIds : cig'[d] = Graphics(n)) \/ (\E u \in Threads : InHand(u, n)')
    BY DEF SomeHolder
  <2>1. CASE n = k
    BY <2>1, <1>9
  <2>2. CASE n # k
    <3>1. n \in DOMAIN contexts /\ contexts[n].live
      BY <1>6, <2>2
    <3>2. (\E d \in DeviceIds : cig[d] = Graphics(n)) \/ (\E u \in Threads : InHand(u, n))
      BY <3>1 DEF InteropInv, SomeHolder
    <3>3. ~InHand(t, n)
      BY DEF InHand, At
    <3> QED
      BY <3>2, <3>3, <1>9
  <2> QED
    BY <2>1, <2>2
<1> QED
  BY <1>13, <1>14, <1>15, <1>16, <1>17, <1>18 DEF InteropInv

LEMMA PublishContextStep ==
  ASSUME InteropInv, NEW t \in Threads, PublishContext(t)
  PROVE  InteropInv'
<1>1. /\ At(t, "publish") /\ UNCHANGED <<deviceVars, contexts, stream, event>>
      /\ thread[t] \in Calls /\ thread \in [Threads -> Calls] /\ cig \in [DeviceIds -> AllContexts \cup {None}]
  BY DEF InteropInv, Types, PublishContext
<1>2. PICK n \in DOMAIN contexts :
         InHand(t, n) /\ contexts[n].live /\ contexts[n].device = thread[t].device
  BY <1>1 DEF InteropInv, Placed
<1>3. PICK d \in DeviceIds : d = thread[t].device
  BY <1>1 DEF InteropInv, Placed
<1>4. Graphics(n) \in AllContexts /\ Graphics(n) # None /\ thread[t].context = Graphics(n)
  BY <1>2, GraphicsAreContexts DEF InHand, InteropInv
<1>5. DevicesInv'
  BY <1>1, DevicesStep DEF InteropInv
<1>7. \A m \in DOMAIN contexts : Graphics(m) = Graphics(n) => m = n
  BY DEF Graphics
<1>8. CASE cig[d] = None
  <2> DEFINE r == [Idle EXCEPT !.stack = thread[t].stack]
  <2>1. cig' = [cig EXCEPT ![d] = Graphics(n)] /\ thread' = [thread EXCEPT ![t] = r]
    BY <1>3, <1>4, <1>8 DEF PublishContext, Return, Leave, Step
  <2>2. r \in Calls /\ r.at = "idle"
    BY <1>1, IdleIsCall DEF Calls
  <2> HIDE DEF r
  <2>3. \A u \in Threads : thread'[u] = IF u = t THEN r ELSE thread[u]
    BY <1>1, <2>1
  <2>4. \A c \in DeviceIds : cig'[c] = IF c = d THEN Graphics(n) ELSE cig[c]
    BY <1>1, <2>1
  <2>5. \A u \in Threads : \A m : InHand(u, m)' <=> u # t /\ InHand(u, m)
    BY <2>2, <2>3 DEF InHand, At
  <2>6. Types'
    BY <1>1, <1>4, <2>1, <2>2 DEF InteropInv, Types
  <2>7. ASSUME NEW u \in Threads PROVE Placed(u)'
    <3>1. Placed(u) /\ env' = env /\ contexts' = contexts
      BY <1>1 DEF InteropInv, deviceVars
    <3>2. CASE u = t
      BY <2>2, <2>3, <3>2 DEF Placed, At
    <3>3. CASE u # t
      BY <2>3, <2>5, <3>1, <3>3 DEF Placed, At
    <3> QED
      BY <3>2, <3>3
  <2>8. \A c \in DeviceIds : Mapped(c)'
    BY <1>1, <1>2, <1>3, <2>4 DEF InteropInv, Mapped
  <2>9. OneHolder'
    BY <1>1, <1>2, <1>7, <2>4, <2>5 DEF InteropInv, OneHolder
  <2>10. SomeHolder'
    <3> SUFFICES ASSUME NEW m \in DOMAIN contexts, contexts[m].live
                 PROVE  (\E c \in DeviceIds : cig'[c] = Graphics(m)) \/ (\E u \in Threads : InHand(u, m)')
      BY <1>1 DEF SomeHolder
    <3>1. CASE m = n
      BY <2>4, <3>1
    <3>2. CASE m # n
      <4>1. (\E c \in DeviceIds : cig[c] = Graphics(m)) \/ (\E u \in Threads : InHand(u, m))
        BY DEF InteropInv, SomeHolder
      <4>2. ~InHand(t, m) /\ Graphics(m) # None
        BY <1>4, <1>7, <3>2, GraphicsAreContexts DEF InHand, InteropInv
      <4> QED
        BY <1>8, <2>4, <2>5, <4>1, <4>2
    <3> QED
      BY <3>1, <3>2
  <2> QED
    BY <1>5, <2>6, <2>7, <2>8, <2>9, <2>10 DEF InteropInv
<1>9. CASE cig[d] # None
  <2> DEFINE r == [thread[t] EXCEPT !.at = "destroy"]
  <2>1. cig' = cig /\ thread' = [thread EXCEPT ![t] = r]
    BY <1>3, <1>9 DEF PublishContext, Step
  <2>2. r \in Calls /\ r.at = "destroy" /\ r.context = thread[t].context
    BY <1>1 DEF Calls, Places
  <2> HIDE DEF r
  <2>3. \A u \in Threads : thread'[u] = IF u = t THEN r ELSE thread[u]
    BY <1>1, <2>1
  <2>4. \A u \in Threads : \A m : InHand(u, m)' <=> InHand(u, m)
    BY <1>1, <2>2, <2>3 DEF InHand, At
  <2>5. Types'
    BY <1>1, <2>1, <2>2 DEF InteropInv, Types
  <2>6. ASSUME NEW u \in Threads PROVE Placed(u)'
    <3>1. Placed(u) /\ env' = env /\ contexts' = contexts
      BY <1>1 DEF InteropInv, deviceVars
    <3>2. CASE u = t
      BY <1>2, <2>2, <2>3, <2>4, <3>1, <3>2 DEF Placed, At
    <3>3. CASE u # t
      BY <2>3, <2>4, <3>1, <3>3 DEF Placed, At
    <3> QED
      BY <3>2, <3>3
  <2>7. /\ \A c \in DeviceIds : Mapped(c)'
        /\ OneHolder' /\ SomeHolder'
    BY <1>1, <2>1, <2>4 DEF InteropInv, Mapped, OneHolder, SomeHolder
  <2> QED
    BY <1>5, <2>5, <2>6, <2>7 DEF InteropInv
<1> QED
  BY <1>8, <1>9

LEMMA BeginDeinitStep ==
  ASSUME InteropInv, NEW t \in Threads, NEW e \in Range(published), BeginDeinit(t, e)
  PROVE  InteropInv'
<1>1. /\ At(t, "idle") /\ UNCHANGED <<deviceVars, contexts, stream, event>>
      /\ thread[t] \in Calls /\ thread \in [Threads -> Calls] /\ cig \in [DeviceIds -> AllContexts \cup {None}]
  BY DEF InteropInv, Types, BeginDeinit
<1>2. PICK d \in DeviceIds : d = ParseDeviceId(e)
  BY IdsOfPublished DEF InteropInv
<1>3. PICK n \in DOMAIN contexts : cig[d] = Graphics(n) /\ contexts[n].live /\ contexts[n].device = d
  BY <1>2 DEF BeginDeinit, InteropInv, Mapped
<1> DEFINE r == [thread[t] EXCEPT !.at = "destroy", !.context = Graphics(n)]
<1>4. cig' = [cig EXCEPT ![d] = None] /\ thread' = [thread EXCEPT ![t] = r]
  BY <1>2, <1>3 DEF BeginDeinit, Step
<1>5. r \in Calls /\ r.at = "destroy" /\ r.context = Graphics(n)
  BY <1>1, <1>3 DEF Calls, Places
<1> HIDE DEF r
<1>6. \A u \in Threads : thread'[u] = IF u = t THEN r ELSE thread[u]
  BY <1>1, <1>4
<1>7. \A c \in DeviceIds : cig'[c] = IF c = d THEN None ELSE cig[c]
  BY <1>1, <1>4
<1>8. \A m \in DOMAIN contexts : Graphics(m) = Graphics(n) => m = n
  BY DEF Graphics
<1>9. \A u \in Threads : \A m : InHand(u, m)' <=> IF u = t THEN Graphics(m) = Graphics(n) ELSE InHand(u, m)
  BY <1>5, <1>6 DEF InHand, At
<1>10. DevicesInv'
  BY <1>1, DevicesStep DEF InteropInv
<1>12. Types'
  BY <1>1, <1>4, <1>5 DEF InteropInv, Types
<1>13. ASSUME NEW u \in Threads PROVE Placed(u)'
  <2>1. Placed(u) /\ env' = env /\ contexts' = contexts
    BY <1>1 DEF InteropInv, deviceVars
  <2>2. CASE u = t
    BY <1>3, <1>5, <1>6, <1>9, <2>1, <2>2 DEF Placed, At
  <2>3. CASE u # t
    BY <1>6, <1>9, <2>1, <2>3 DEF Placed, At
  <2> QED
    BY <2>2, <2>3
<1>14. \A c \in DeviceIds : Mapped(c)'
  BY <1>1, <1>7 DEF InteropInv, Mapped
<1>15. OneHolder'
  <2>1. \A c \in DeviceIds : cig[c] = Graphics(n) => c = d
    <3>1. TAKE c \in DeviceIds
    <3>2. HAVE cig[c] = Graphics(n)
    <3>3. Mapped(c) /\ cig[c] # None
      BY <1>2, <1>3, <3>2 DEF InteropInv, BeginDeinit
    <3> QED
      BY <1>3, <1>8, <3>2, <3>3 DEF Mapped
  <2>2. \A u \in Threads : ~InHand(u, n)
    BY <1>3 DEF InteropInv, OneHolder
  <2>3. \A m \in DOMAIN contexts : Graphics(m) # None
    BY GraphicsAreContexts DEF InteropInv
  <2>4. OneHolder /\ contexts' = contexts
    BY <1>1 DEF InteropInv
  <2>5. \A u, v \in Threads : \A m \in DOMAIN contexts' : InHand(u, m)' /\ InHand(v, m)' => u = v
    BY <1>8, <1>9, <2>2, <2>4 DEF OneHolder
  <2>6. \A u \in Threads, c \in DeviceIds : \A m \in DOMAIN contexts' :
           InHand(u, m)' => cig'[c] # Graphics(m)
    BY <1>7, <1>8, <1>9, <2>1, <2>3, <2>4 DEF OneHolder
  <2> QED
    BY <2>5, <2>6 DEF OneHolder
<1>16. SomeHolder'
  <2> SUFFICES ASSUME NEW m \in DOMAIN contexts, contexts[m].live
               PROVE  (\E c \in DeviceIds : cig'[c] = Graphics(m)) \/ (\E u \in Threads : InHand(u, m)')
    BY <1>1 DEF SomeHolder
  <2>1. CASE m = n
    BY <1>9, <2>1
  <2>2. CASE m # n
    <3>1. (\E c \in DeviceIds : cig[c] = Graphics(m)) \/ (\E u \in Threads : InHand(u, m))
      BY DEF InteropInv, SomeHolder
    <3>2. ~InHand(t, m) /\ cig[d] # Graphics(m)
      BY <1>1, <1>3, <1>8, <2>2 DEF InHand, At
    <3> QED
      BY <1>7, <1>9, <3>1, <3>2
  <2> QED
    BY <2>1, <2>2
<1> QED
  BY <1>10, <1>12, <1>13, <1>14, <1>15, <1>16 DEF InteropInv

LEMMA DestroyContextStep ==
  ASSUME InteropInv, NEW t \in Threads, DestroyContext(t)
  PROVE  InteropInv'
<1>1. /\ At(t, "destroy") /\ UNCHANGED <<deviceVars, cig, stream, event>>
      /\ thread[t] \in Calls /\ thread \in [Threads -> Calls]
      /\ contexts \in Seq([device : CudaDevices, live : BOOLEAN]) /\ Len(contexts) <= MaxContexts
  BY DEF InteropInv, Types, DestroyContext
<1>2. PICK n \in DOMAIN contexts : InHand(t, n) /\ contexts[n].live
  BY <1>1 DEF InteropInv, Placed
<1>3. n = thread[t].context[2] /\ thread[t].context \in AllContexts
  <2>1. thread[t].context = Graphics(n)
    BY <1>2 DEF InHand
  <2> QED
    BY <2>1, GraphicsAreContexts DEF Graphics, InteropInv
<1> DEFINE r == [Idle EXCEPT !.stack = WithoutCurrent(thread[t].stack, thread[t].context)]
<1>4. /\ contexts' = [contexts EXCEPT ![n].live = FALSE] /\ thread' = [thread EXCEPT ![t] = r]
  BY <1>3 DEF DestroyContext, Leave, Step
<1>5. r \in Calls /\ r.at = "idle"
  <2>1. WithoutCurrent(thread[t].stack, thread[t].context) \in Seq(AllContexts)
    BY <1>1, <1>3, StacksStay DEF Calls
  <2> QED
    BY <2>1, IdleIsCall DEF Calls
<1> HIDE DEF r
<1>6. \A u \in Threads : thread'[u] = IF u = t THEN r ELSE thread[u]
  BY <1>1, <1>4
<1>7. /\ contexts' \in Seq([device : CudaDevices, live : BOOLEAN]) /\ Len(contexts') = Len(contexts)
      /\ DOMAIN contexts' = DOMAIN contexts /\ ~contexts'[n].live
      /\ \A m \in DOMAIN contexts : contexts'[m].device = contexts[m].device
      /\ \A m \in DOMAIN contexts : m # n => contexts'[m] = contexts[m]
  <2>1. contexts' = [contexts EXCEPT ![n] = [contexts[n] EXCEPT !.live = FALSE]]
    BY <1>4
  <2>2. contexts[n] \in [device : CudaDevices, live : BOOLEAN]
    <3> DEFINE Ctx == [device : CudaDevices, live : BOOLEAN]
    <3>1. contexts \in Seq(Ctx)
      BY <1>1
    <3> HIDE DEF Ctx
    <3>2. contexts[n] \in Ctx
      BY <3>1
    <3> QED
      BY <3>2 DEF Ctx
  <2>3. [contexts[n] EXCEPT !.live = FALSE] \in [device : CudaDevices, live : BOOLEAN]
    BY <2>2
  <2>4. /\ contexts' \in Seq([device : CudaDevices, live : BOOLEAN]) /\ Len(contexts') = Len(contexts)
        /\ DOMAIN contexts' = DOMAIN contexts
    BY <1>1, <2>1, <2>2, <2>3
  <2>5. contexts'[n] = [contexts[n] EXCEPT !.live = FALSE]
    BY <1>1, <2>1, <2>2
  <2>6. \A m \in DOMAIN contexts : m # n => contexts'[m] = contexts[m]
    BY <1>1, <2>1
  <2> QED
    BY <2>2, <2>4, <2>5, <2>6
<1>8. \A m \in DOMAIN contexts : Graphics(m) = Graphics(n) => m = n
  BY DEF Graphics
<1>9. \A u \in Threads : \A m : InHand(u, m)' <=> u # t /\ InHand(u, m)
  BY <1>5, <1>6 DEF InHand, At
<1>10. DevicesInv'
  BY <1>1, DevicesStep DEF InteropInv
<1>12. Types'
  BY <1>1, <1>4, <1>5, <1>7 DEF InteropInv, Types
<1>13. ASSUME NEW u \in Threads PROVE Placed(u)'
  <2>1. Placed(u) /\ env' = env
    BY <1>1 DEF InteropInv, deviceVars
  <2>2. CASE u = t
    BY <1>5, <1>6, <2>2 DEF Placed, At
  <2>3. CASE u # t
    <3>1. ~InHand(u, n)
      BY <1>2, <2>3 DEF InteropInv, OneHolder
    <3> QED
      BY <1>6, <1>7, <1>9, <2>1, <2>3, <3>1 DEF Placed, At
  <2> QED
    BY <2>2, <2>3
<1>14. ASSUME NEW d \in DeviceIds PROVE Mapped(d)'
  <2>1. cig[d] # Graphics(n)
    BY <1>2 DEF InteropInv, OneHolder
  <2>2. Mapped(d) /\ cig' = cig
    BY <1>1 DEF InteropInv
  <2> QED
    BY <1>7, <2>1, <2>2 DEF Mapped
<1>15. OneHolder'
  BY <1>1, <1>7, <1>9 DEF InteropInv, OneHolder
<1>16. SomeHolder'
  <2> SUFFICES ASSUME NEW m \in DOMAIN contexts, contexts'[m].live
               PROVE  (\E c \in DeviceIds : cig'[c] = Graphics(m)) \/ (\E u \in Threads : InHand(u, m)')
    BY <1>7 DEF SomeHolder
  <2>1. m # n /\ contexts[m].live
    BY <1>7
  <2>2. (\E d \in DeviceIds : cig[d] = Graphics(m)) \/ (\E u \in Threads : InHand(u, m))
    BY <2>1 DEF InteropInv, SomeHolder
  <2>3. ~InHand(t, m)
    BY <1>2, <1>8, <2>1 DEF InHand
  <2> QED
    BY <1>1, <1>9, <2>2, <2>3
<1> QED
  BY <1>10, <1>12, <1>13, <1>14, <1>15, <1>16 DEF InteropInv

-----------------------------------------------------------------------------
(* What a call borrows. *)

Top(stack) == IF stack = <<>> THEN None ELSE Last(stack)
Scopes == {"newStream", "newEvent", "use", "freeEvent", "freeStream"}
OnStream == {"newEvent", "use", "freeEvent", "freeStream"}

Kept(r) == IF r.changed THEN \E c \in AllContexts : r.stack = WithCurrent(r.found, c)
           ELSE r.stack = r.found
Pushed(r) == \E c \in AllContexts :
  \/ r.stack = Append(r.found, c)
  \/ r.slot = None /\ r.found = <<>> /\ \E b \in AllContexts : r.stack = Append(<<b>>, c)

\* What the record r of a call says of its caller's stack, and of the stream it is for.
Scoped(r, streams, events) ==
  /\ r.at \in Scopes => r.previous = Top(r.found) /\ Kept(r)
  /\ r.at = "push" => Pushed(r)
  /\ r.at = "stream" => r.found = r.stack
  /\ r.at = "newStream" => r.context # None /\ Top(r.stack) = r.context
  /\ r.at \in OnStream => r.slot \in Streams /\ streams[r.slot] # None
  /\ r.at = "newEvent" => Top(r.stack) = streams[r.slot].lies
  /\ r.at = "freeStream" => events[r.slot] = None
  /\ r.at \notin OnStream \cup {"push"} => r.slot = None

OneSlot == \A t, u \in Threads : t # u => thread[t].slot = None \/ thread[t].slot # thread[u].slot

ScopesInv == (\A t \in Threads : Scoped(thread[t], stream, event)) /\ OneSlot /\ MadeWhereRemembered

LEMMA LiesIsContext ==
  ASSUME InteropInv, NEW s \in Streams, stream[s] # None
  PROVE  /\ stream[s].lies \in AllContexts /\ stream[s].lies # None
         /\ stream[s].context \in AllContexts
  BY NoneIsNoContext DEF InteropInv, Types, Made

LEMMA ScopesInit == Init => ScopesInv
  BY DEF Init, ScopesInv, Scoped, Scopes, OnStream, OneSlot, MadeWhereRemembered, Idle

\* A thread's step keeps what the calls of the others rely on, if it touches
\* only the stream of its own call, or one that is not there yet.
LEMMA ScopesStay ==
  ASSUME InteropInv, ScopesInv, NEW t \in Threads, NEW r, Step(t, r),
         Scoped(r, stream', event'), MadeWhereRemembered',
         r.slot = None \/ \A u \in Threads : u = t \/ thread[u].slot # r.slot,
         \A s \in Streams : \/ stream'[s] = stream[s] /\ event'[s] = event[s]
                            \/ stream[s] = None \/ s = thread[t].slot
  PROVE  ScopesInv'
<1>1. \A u \in Threads : thread'[u] = IF u = t THEN r ELSE thread[u]
  BY DEF Step, InteropInv, Types
<1>2. ASSUME NEW u \in Threads PROVE Scoped(thread'[u], stream', event')
  <2>1. CASE u = t
    BY <1>1, <2>1
  <2>2. CASE u # t
    <3>1. thread'[u] = thread[u] /\ Scoped(thread[u], stream, event)
      BY <1>1, <2>2 DEF ScopesInv
    <3>2. \/ thread[u].at \notin OnStream
          \/ stream'[thread[u].slot] = stream[thread[u].slot] /\ event'[thread[u].slot] = event[thread[u].slot]
      BY <2>2, <3>1, InteropAssumption DEF Scoped, ScopesInv, OneSlot
    <3> QED
      BY <3>1, <3>2 DEF Scoped, OnStream
  <2> QED
    BY <2>1, <2>2
<1>3. OneSlot'
  BY <1>1 DEF OneSlot, ScopesInv
<1> QED
  BY <1>2, <1>3 DEF ScopesInv

\* A step that has nothing to do with streams.
LEMMA ScopesApart ==
  ASSUME InteropInv, ScopesInv, NEW t \in Threads, NEW r, Step(t, r), UNCHANGED <<stream, event>>,
         r.slot = None, r.at \in {"idle", "create", "publish", "destroy"}
  PROVE  ScopesInv'
<1>1. Scoped(r, stream', event')
  BY DEF Scoped, Scopes, OnStream
<1>2. MadeWhereRemembered'
  BY DEF ScopesInv, MadeWhereRemembered
<1> QED
  BY <1>1, <1>2, ScopesStay

\* Entering a context keeps what was found, and makes the context current or not at all.
LEMMA InsideKeeps ==
  ASSUME InteropInv, NEW t \in Threads, NEW where \in Scopes, NEW s \in Streams \cup {None},
         NEW c \in AllContexts, NEW r, Step(t, r),
         SetContext(t, where, s, c) \/ SetContextNoThrow(t, where, s, c)
  PROVE  \/ r.at = "idle" /\ r.slot = None /\ r.stack = thread[t].stack
         \/ /\ r.at = where /\ r.slot = s /\ r.found = thread[t].stack /\ r.context = thread[t].context
            /\ r.previous = Top(r.found) /\ Kept(r)
            /\ SetContext(t, where, s, c) => Top(r.stack) = c
<1>1. thread[t] \in Calls /\ thread \in [Threads -> Calls]
  BY DEF InteropInv, Types
<1>2. \A q : Step(t, q) => q = r
  BY <1>1 DEF Step
<1>3. Current(t) = Top(thread[t].stack)
  BY DEF Current, Top
<1>4. \A stack, changed : Inside(t, where, s, stack, changed) =>
         /\ r.at = where /\ r.slot = s /\ r.found = thread[t].stack /\ r.context = thread[t].context
         /\ r.stack = stack /\ r.changed = changed /\ r.previous = Current(t)
  BY <1>1, <1>2 DEF Inside, Calls
<1>5. Return(t) => r.at = "idle" /\ r.slot = None /\ r.stack = thread[t].stack
  BY <1>2 DEF Return, Leave, Idle
<1>6. Top(WithCurrent(thread[t].stack, c)) = c
  BY <1>1 DEF Top, WithCurrent, Last, Calls
<1>7. CASE Return(t)
  BY <1>5, <1>7
<1>8. CASE Inside(t, where, s, thread[t].stack, FALSE)
  <2>1. Kept(r) /\ r.stack = thread[t].stack
    BY <1>4, <1>8 DEF Kept
  <2>2. r.at = where /\ r.changed = FALSE
    BY <1>4, <1>8
  <2>3. SetContext(t, where, s, c) => Top(r.stack) = c
    <3>1. ASSUME Inside(t, where, s, WithCurrent(thread[t].stack, c), TRUE) PROVE FALSE
      BY <1>4, <2>2, <3>1
    <3>2. ~Return(t)
      BY <1>5, <2>2 DEF Scopes
    <3> QED
      BY <1>3, <2>1, <3>1, <3>2 DEF SetContext
  <2> QED
    BY <1>3, <1>4, <1>8, <2>1, <2>3
<1>9. CASE Inside(t, where, s, WithCurrent(thread[t].stack, c), TRUE)
  BY <1>3, <1>4, <1>6, <1>9 DEF Kept
<1> QED
  BY <1>7, <1>8, <1>9 DEF SetContext, SetContextNoThrow

\* What is restored is what was found, unless its context is destroyed.
LEMMA RestoredIsFound ==
  ASSUME InteropInv, ScopesInv, NEW t \in Threads, thread[t].at \in Scopes
  PROVE  \/ Restored(t) = thread[t].found
         \/ /\ thread[t].found # <<>> /\ ~Live(Last(thread[t].found))
            /\ Restored(t) # <<>> /\ Front(Restored(t)) = Front(thread[t].found)
<1> DEFINE r == thread[t]
<1>1. r \in Calls /\ r.previous = Top(r.found) /\ Kept(r)
  BY DEF InteropInv, Types, ScopesInv, Scoped
<1>2. r.found \in Seq(AllContexts) /\ r.changed \in BOOLEAN
  BY <1>1 DEF Calls
<1>3. r.found # <<>> => Last(r.found) \in AllContexts
  BY <1>2, LastInside
<1>4. CASE ~r.changed
  BY <1>1, <1>4 DEF Restored, Kept
<1>5. CASE r.changed /\ r.found = <<>>
  <2>1. PICK c \in AllContexts : r.stack = <<c>>
    BY <1>1, <1>5 DEF Kept, WithCurrent
  <2>2. Restored(t) = Front(r.stack) /\ Front(<<c>>) = <<>>
    BY <1>1, <1>5 DEF Restored, Top, Front
  <2> QED
    BY <1>5, <2>1, <2>2
<1>6. CASE r.changed /\ r.found # <<>>
  <2>1. PICK c \in AllContexts : r.stack = WithCurrent(r.found, c)
    BY <1>1, <1>6 DEF Kept
  <2>2. r.previous = Last(r.found) /\ r.previous # None
    BY <1>1, <1>3, <1>6, NoneIsNoContext DEF Top
  <2>3. Len(r.found) \in 1 .. Len(r.found) /\ Len(r.found) \in Nat
    BY <1>2, <1>6
  <2>4. r.stack = [r.found EXCEPT ![Len(r.found)] = c] /\ Len(r.stack) = Len(r.found) /\ r.stack # <<>>
    BY <1>2, <1>6, <2>1, <2>3 DEF WithCurrent
  <2>5. CASE Live(r.previous)
    <3>1. Restored(t) = [r.stack EXCEPT ![Len(r.found)] = Last(r.found)]
      BY <1>6, <2>2, <2>4, <2>5 DEF Restored, WithCurrent
    <3>2. [r.stack EXCEPT ![Len(r.found)] = Last(r.found)] = r.found
      BY <1>2, <2>3, <2>4 DEF Last
    <3> QED
      BY <3>1, <3>2
  <2>6. CASE ~Live(r.previous)
    <3>1. Restored(t) = r.stack
      BY <1>6, <2>2, <2>6 DEF Restored
    <3>2. Front(r.stack) = Front(r.found)
      BY <1>2, <2>3, <2>4 DEF Front
    <3> QED
      BY <1>6, <2>2, <2>4, <2>6, <3>1, <3>2
  <2> QED
    BY <2>5, <2>6
<1> QED
  BY <1>2, <1>4, <1>5, <1>6

-----------------------------------------------------------------------------
\* The calls that make and destroy contexts, and select devices.
LEMMA ContextsLeaveScopes ==
  ASSUME InteropInv, ScopesInv, NEW t \in Threads,
         \/ \E e \in Range(published) : BeginInit(t, e) \/ BeginDeinit(t, e) \/ SelectDevice(t, e)
         \/ CreateContext(t) \/ PublishContext(t) \/ DestroyContext(t)
  PROVE  ScopesInv'
<1>1. thread[t] \in Calls /\ Scoped(thread[t], stream, event)
  BY DEF InteropInv, Types, ScopesInv
<1>2. thread[t].slot = None /\ UNCHANGED <<stream, event>>
  BY <1>1 DEF Scoped, OnStream, At, BeginInit, BeginDeinit, SelectDevice, CreateContext, PublishContext,
     DestroyContext
<1>3. SUFFICES \E r : Step(t, r) /\ r.slot = None /\ r.at \in {"idle", "create", "publish", "destroy"}
  BY <1>2, ScopesApart
<1>4. ASSUME NEW e \in Range(published), BeginInit(t, e)
      PROVE  \E r : Step(t, r) /\ r.slot = None /\ r.at \in {"idle", "create", "publish", "destroy"}
  <2> DEFINE r == [thread[t] EXCEPT !.at = "create", !.device = ParseDeviceId(e)]
  <2>1. Step(t, r) /\ r.slot = None /\ r.at = "create"
    BY <1>1, <1>2, <1>4 DEF BeginInit, Calls
  <2> QED
    BY <2>1
<1>5. ASSUME NEW e \in Range(published), BeginDeinit(t, e)
      PROVE  \E r : Step(t, r) /\ r.slot = None /\ r.at \in {"idle", "create", "publish", "destroy"}
  <2> DEFINE r == [thread[t] EXCEPT !.at = "destroy", !.context = cig[ParseDeviceId(e)]]
  <2>1. Step(t, r) /\ r.slot = None /\ r.at = "destroy"
    BY <1>1, <1>2, <1>5 DEF BeginDeinit, Calls
  <2> QED
    BY <2>1
<1>6. ASSUME NEW e \in Range(published), SelectDevice(t, e)
      PROVE  \E r : Step(t, r) /\ r.slot = None /\ r.at \in {"idle", "create", "publish", "destroy"}
  <2> DEFINE r == [thread[t] EXCEPT !.stack = WithCurrent(@, Primary(e.cuda))]
  <2>1. Step(t, r) /\ r.slot = None /\ r.at = "idle"
    BY <1>1, <1>2, <1>6 DEF SelectDevice, Calls, At
  <2> QED
    BY <2>1
<1>7. ASSUME NEW stack, Leave(t, stack)
      PROVE  \E r : Step(t, r) /\ r.slot = None /\ r.at \in {"idle", "create", "publish", "destroy"}
  <2> DEFINE r == [Idle EXCEPT !.stack = stack]
  <2>1. Step(t, r) /\ r.slot = None /\ r.at = "idle"
    BY <1>7 DEF Leave, Idle
  <2> QED
    BY <2>1
<1>8. CASE CreateContext(t) /\ ~Return(t)
  <2> DEFINE g == Graphics(Len(contexts) + 1)
             r == [thread[t] EXCEPT !.at = "publish", !.context = g, !.stack = Append(@, g)]
  <2>1. Step(t, r) /\ r.slot = None /\ r.at = "publish"
    BY <1>1, <1>2, <1>8 DEF CreateContext, Calls
  <2> QED
    BY <2>1
<1>9. CASE PublishContext(t) /\ ~Return(t)
  <2> DEFINE r == [thread[t] EXCEPT !.at = "destroy"]
  <2>1. Step(t, r) /\ r.slot = None /\ r.at = "destroy"
    BY <1>1, <1>2, <1>9 DEF PublishContext, Calls
  <2> QED
    BY <2>1
<1>10. CASE Return(t)
  BY <1>7, <1>10 DEF Return
<1>11. CASE DestroyContext(t)
  BY <1>7, <1>11 DEF DestroyContext
<1> QED
  BY <1>4, <1>5, <1>6, <1>8, <1>9, <1>10, <1>11

LEMMA BeginsKeepScopes ==
  ASSUME InteropInv, ScopesInv, NEW t \in Threads,
         \/ \E e \in Range(published) : BeginStream(t, e) \/ BeginImport(t, e)
         \/ \E s \in Streams : BeginSemaphore(t, s)
  PROVE  ScopesInv'
<1>1. thread[t] \in Calls /\ thread[t].slot = None /\ UNCHANGED <<stream, event>>
  BY DEF InteropInv, Types, ScopesInv, Scoped, OnStream, At, BeginStream, BeginImport, BeginSemaphore, Idling
<1>2. MadeWhereRemembered'
  BY <1>1 DEF ScopesInv, MadeWhereRemembered
<1>3. ASSUME NEW e \in Range(published), BeginStream(t, e) PROVE ScopesInv'
  <2> DEFINE r == [thread[t] EXCEPT !.at = "stream", !.device = e.cuda, !.context = GetCigContext(e.cuda),
                                    !.found = thread[t].stack]
  <2>1. Step(t, r) /\ r.slot = None /\ r.at = "stream" /\ r.found = r.stack
    BY <1>1, <1>3 DEF BeginStream, Calls
  <2> HIDE DEF r
  <2>2. Scoped(r, stream', event')
    BY <2>1 DEF Scoped, Scopes, OnStream
  <2> QED
    BY <1>1, <1>2, <2>1, <2>2, ScopesStay
<1>4. ASSUME NEW s \in Streams \cup {None}, NEW base, NEW c \in AllContexts, PushContext(t, s, base, c),
             s = None \/ \A u \in Threads : thread[u].slot # s,
             \/ base = thread[t].stack
             \/ s = None /\ thread[t].stack = <<>> /\ \E b \in AllContexts : base = <<b>>
      PROVE  ScopesInv'
  <2> DEFINE r == [thread[t] EXCEPT !.at = "push", !.slot = s, !.stack = Append(base, c),
                                    !.found = thread[t].stack]
  <2>1. CASE Step(t, r)
    <3>1. r.slot = s /\ r.at = "push" /\ r.found = thread[t].stack /\ r.stack = Append(base, c)
      BY <1>1 DEF Calls
    <3> HIDE DEF r
    <3>2. Pushed(r)
      BY <1>4, <3>1 DEF Pushed
    <3>3. Scoped(r, stream', event')
      BY <3>1, <3>2 DEF Scoped, Scopes, OnStream
    <3> QED
      BY <1>1, <1>2, <1>4, <2>1, <3>1, <3>3, ScopesStay
  <2>2. CASE Leave(t, base)
    <3> DEFINE q == [Idle EXCEPT !.stack = base]
    <3>1. Step(t, q) /\ q.slot = None /\ q.at = "idle"
      BY <2>2 DEF Leave, Idle
    <3> HIDE DEF q
    <3> QED
      BY <1>1, <3>1, ScopesApart
  <2> QED
    BY <1>4, <2>1, <2>2 DEF PushContext
<1>5. ASSUME NEW e \in Range(published), BeginImport(t, e) PROVE ScopesInv'
  <2> DEFINE d == ParseDeviceId(e)
  <2>1. Primary(d) \in AllContexts
    <3>1. d \in CudaDevices
      BY <1>5, InfosAreReal DEF BeginImport, InteropInv
    <3> QED
      BY <3>1 DEF AllContexts, Primary
  <2>2. PushContext(t, None, BaseForImport(t, d), Last(BaseForImport(t, d)))
    BY <1>5 DEF BeginImport
  <2>3. CASE thread[t].stack # <<>>
    <3>1. Last(thread[t].stack) \in AllContexts /\ BaseForImport(t, d) = thread[t].stack
      BY <1>1, <2>3, LastInside DEF Calls, BaseForImport
    <3> QED
      BY <1>4, <2>2, <3>1
  <2>4. CASE thread[t].stack = <<>>
    <3>1. BaseForImport(t, d) = <<Primary(d)>> /\ Last(<<Primary(d)>>) = Primary(d)
      BY <2>4 DEF BaseForImport, Last
    <3> QED
      BY <1>4, <2>1, <2>2, <2>4, <3>1
  <2> QED
    BY <2>3, <2>4
<1>6. ASSUME NEW s \in Streams, BeginSemaphore(t, s) PROVE ScopesInv'
  <2>1. stream[s].lies \in AllContexts /\ \A u \in Threads : thread[u].slot # s
    BY <1>6, LiesIsContext DEF BeginSemaphore, Idling
  <2> QED
    BY <1>4, <1>6, <2>1 DEF BeginSemaphore
<1> QED
  BY <1>3, <1>5, <1>6

LEMMA EntersKeepScopes ==
  ASSUME InteropInv, ScopesInv, NEW t \in Threads,
         EnterGraphics(t) \/ \E s \in Streams : EnterStream(t, s)
  PROVE  ScopesInv'
<1>1. /\ thread[t].slot = None /\ UNCHANGED <<stream, event>>
      /\ thread[t].context \in AllContexts \cup {None}
  BY DEF InteropInv, Types, Calls, ScopesInv, Scoped, OnStream, At, EnterGraphics, EnterStream, Idling
<1>2. MadeWhereRemembered'
  BY <1>1 DEF ScopesInv, MadeWhereRemembered
<1>3. ASSUME NEW where \in Scopes, NEW s \in Streams \cup {None}, NEW c \in AllContexts,
             SetContext(t, where, s, c) \/ SetContextNoThrow(t, where, s, c),
             IF where = "newStream" THEN s = None /\ c = thread[t].context /\ SetContext(t, where, s, c)
             ELSE /\ s \in Streams /\ stream[s] # None /\ \A u \in Threads : thread[u].slot # s
                  /\ where = "newEvent" => c = stream[s].lies /\ SetContext(t, where, s, c)
                  /\ where = "freeStream" => event[s] = None
      PROVE  ScopesInv'
  <2>1. PICK r : Step(t, r)
    BY <1>3 DEF SetContext, SetContextNoThrow, Inside, Return, Leave
  <2>2. CASE r.at = "idle" /\ r.slot = None
    BY <1>1, <2>1, <2>2, ScopesApart
  <2>3. CASE /\ r.at = where /\ r.slot = s /\ r.found = thread[t].stack /\ r.context = thread[t].context
             /\ r.previous = Top(r.found) /\ Kept(r)
             /\ SetContext(t, where, s, c) => Top(r.stack) = c
    <3>1. Scoped(r, stream', event')
      BY <1>1, <1>3, <2>3, NoneIsNoContext DEF Scoped, Scopes, OnStream
    <3> QED
      BY <1>1, <1>2, <1>3, <2>1, <2>3, <3>1, ScopesStay
  <2> QED
    BY <1>3, <2>1, <2>2, <2>3, InsideKeeps
<1>4. CASE EnterGraphics(t)
  <2>1. thread[t].context \in AllContexts /\ SetContext(t, "newStream", None, thread[t].context)
    BY <1>1, <1>4 DEF EnterGraphics
  <2> QED
    BY <1>3, <2>1 DEF Scopes
<1>5. ASSUME NEW s \in Streams, EnterStream(t, s) PROVE ScopesInv'
  <2>1. /\ stream[s] # None /\ \A u \in Threads : thread[u].slot # s
        /\ stream[s].lies \in AllContexts /\ stream[s].context \in AllContexts
        /\ event[s] # None => event[s] \in AllContexts
    BY <1>5, LiesIsContext DEF EnterStream, Idling, InteropInv, Types
  <2>2. CASE SetContext(t, "newEvent", s, stream[s].lies)
    BY <1>3, <2>1, <2>2 DEF Scopes
  <2>3. CASE SetContext(t, "use", s, stream[s].context)
    BY <1>3, <2>1, <2>3 DEF Scopes
  <2>4. CASE event[s] # None /\ SetContextNoThrow(t, "freeEvent", s, event[s])
    BY <1>3, <2>1, <2>4 DEF Scopes
  <2>5. CASE event[s] = None /\ SetContextNoThrow(t, "freeStream", s, stream[s].context)
    BY <1>3, <2>1, <2>5 DEF Scopes
  <2> QED
    BY <1>5, <2>2, <2>3, <2>4, <2>5 DEF EnterStream
<1> QED
  BY <1>4, <1>5

LEMMA LeavesKeepScopes ==
  ASSUME InteropInv, ScopesInv, NEW t \in Threads,
         \/ \E s \in Streams : CreateGraphicsStream(t, s) \/ CreateStream(t, s)
         \/ CreateNotification(t) \/ UseStream(t) \/ ReleaseNotification(t) \/ ReleaseStream(t)
         \/ PopContext(t)
  PROVE  ScopesInv'
<1>1. /\ Scoped(thread[t], stream, event) /\ Current(t) = Top(thread[t].stack)
      /\ MadeWhereRemembered /\ stream \in [Streams -> Made \cup {None}]
      /\ event \in [Streams -> AllContexts \cup {None}]
  BY DEF ScopesInv, Current, Top, InteropInv, Types
<1>2. ASSUME NEW stack, Leave(t, stack), MadeWhereRemembered',
             \A x \in Streams : \/ stream'[x] = stream[x] /\ event'[x] = event[x]
                                \/ stream[x] = None \/ x = thread[t].slot
      PROVE  ScopesInv'
  <2> DEFINE r == [Idle EXCEPT !.stack = stack]
  <2>1. Step(t, r) /\ r.slot = None /\ r.at = "idle"
    BY <1>2 DEF Leave, Idle
  <2> HIDE DEF r
  <2>2. Scoped(r, stream', event')
    BY <2>1 DEF Scoped, Scopes, OnStream
  <2> QED
    BY <1>2, <2>1, <2>2, ScopesStay
<1>3. ASSUME NEW s \in Streams, NEW c \in AllContexts, MakeStream(s, c, c), UNCHANGED event,
             NEW stack, Leave(t, stack)
      PROVE  ScopesInv'
  <2>1. CASE UNCHANGED stream
    BY <1>1, <1>2, <1>3, <2>1 DEF MadeWhereRemembered
  <2>2. CASE stream[s] = None /\ stream' = [stream EXCEPT ![s] = [context |-> c, lies |-> c]]
    <3>1. \A x \in Streams : stream'[x] = IF x = s THEN [context |-> c, lies |-> c] ELSE stream[x]
      BY <1>1, <2>2
    <3>2. MadeWhereRemembered'
      BY <1>1, <1>3, <2>2, <3>1 DEF MadeWhereRemembered
    <3> QED
      BY <1>2, <1>3, <2>2, <3>1, <3>2
  <2> QED
    BY <1>3, <2>1, <2>2 DEF MakeStream
<1>4. ASSUME NEW s \in Streams, CreateGraphicsStream(t, s) PROVE ScopesInv'
  <2>1. thread[t].context \in AllContexts /\ CallContext(t) = thread[t].context
    <3>1. thread[t].context # None /\ Top(thread[t].stack) = thread[t].context
      BY <1>1, <1>4 DEF Scoped, CreateGraphicsStream, At
    <3> QED
      BY <1>1, <3>1 DEF CallContext, InteropInv, Types, Calls
  <2> QED
    BY <1>3, <1>4, <2>1 DEF CreateGraphicsStream
<1>5. ASSUME NEW s \in Streams, CreateStream(t, s) PROVE ScopesInv'
  <2>1. StackForStream(t) \in Seq(AllContexts) /\ StackForStream(t) # <<>>
    <3>1. thread[t] \in Calls /\ Primary(thread[t].device) \in AllContexts
      BY <1>5 DEF InteropInv, Types, CreateStream, Placed, AllContexts, Primary
    <3> QED
      BY <3>1, StacksStay DEF StackForStream, Calls
  <2>2. Last(StackForStream(t)) \in AllContexts
    BY <2>1, LastInside
  <2> QED
    BY <1>3, <1>5, <2>2 DEF CreateStream
<1>6. CASE CreateNotification(t)
  <2> DEFINE s == thread[t].slot
  <2>1. s \in Streams /\ stream[s] # None /\ Top(thread[t].stack) = stream[s].lies
    BY <1>1, <1>6 DEF CreateNotification, At, Scoped, OnStream
  <2>2. CallContext(t) = stream[s].lies
    BY <1>1, <2>1, LiesIsContext DEF CallContext
  <2>3. UNCHANGED stream /\ (UNCHANGED event \/ event' = [event EXCEPT ![s] = stream[s].lies])
    BY <1>6, <2>2 DEF CreateNotification
  <2>4. Leave(t, Restored(t))
    BY <1>6 DEF CreateNotification
  <2> HIDE DEF s
  <2>5. \A x \in Streams : event'[x] = event[x] \/ (x = s /\ event'[x] = stream[s].lies)
    BY <1>1, <2>3
  <2>6. MadeWhereRemembered'
    BY <1>1, <2>1, <2>3, <2>5 DEF MadeWhereRemembered
  <2> QED
    BY <1>2, <2>3, <2>4, <2>5, <2>6 DEF s
<1>7. CASE UseStream(t) \/ PopContext(t)
  <2>1. UNCHANGED <<stream, event>> /\ \E stack : Leave(t, stack)
    BY <1>7 DEF UseStream, PopContext
  <2> QED
    BY <1>1, <1>2, <2>1 DEF MadeWhereRemembered
<1>8. CASE ReleaseNotification(t)
  <2>1. UNCHANGED stream /\ event' = [event EXCEPT ![thread[t].slot] = None] /\ Leave(t, Restored(t))
    BY <1>8 DEF ReleaseNotification
  <2>2. \A x \in Streams : event'[x] = IF x = thread[t].slot THEN None ELSE event[x]
    BY <1>1, <2>1
  <2> QED
    BY <1>1, <1>2, <2>1, <2>2 DEF MadeWhereRemembered
<1>9. CASE ReleaseStream(t)
  <2>1. UNCHANGED event /\ stream' = [stream EXCEPT ![thread[t].slot] = None] /\ Leave(t, Restored(t))
    BY <1>9 DEF ReleaseStream
  <2>2. \A x \in Streams : stream'[x] = IF x = thread[t].slot THEN None ELSE stream[x]
    BY <1>1, <2>1
  <2>3. event[thread[t].slot] = None
    BY <1>1, <1>9 DEF ReleaseStream, At, Scoped
  <2> QED
    BY <1>1, <1>2, <2>1, <2>2, <2>3 DEF MadeWhereRemembered
<1> QED
  BY <1>4, <1>5, <1>6, <1>7, <1>8, <1>9

LEMMA ScopesStep == InteropInv /\ ScopesInv /\ [Next]_vars => ScopesInv'
<1> SUFFICES ASSUME InteropInv, ScopesInv, [Next]_vars PROVE ScopesInv'
  OBVIOUS
<1>1. CASE UNCHANGED interopVars
  BY <1>1 DEF interopVars, ScopesInv, OneSlot, MadeWhereRemembered
<1>2. ASSUME NEW t \in Threads,
             \/ \E e \in Range(published) : BeginInit(t, e) \/ BeginDeinit(t, e) \/ SelectDevice(t, e)
             \/ CreateContext(t) \/ PublishContext(t) \/ DestroyContext(t)
      PROVE  ScopesInv'
  BY ONLY InteropInv, ScopesInv, t \in Threads, <1>2, ContextsLeaveScopes
<1>3. ASSUME NEW t \in Threads,
             \/ \E e \in Range(published) : BeginStream(t, e) \/ BeginImport(t, e)
             \/ \E s \in Streams : BeginSemaphore(t, s)
      PROVE  ScopesInv'
  BY ONLY InteropInv, ScopesInv, t \in Threads, <1>3, BeginsKeepScopes
<1>4. ASSUME NEW t \in Threads, EnterGraphics(t) \/ \E s \in Streams : EnterStream(t, s)
      PROVE  ScopesInv'
  BY ONLY InteropInv, ScopesInv, t \in Threads, <1>4, EntersKeepScopes
<1>5. ASSUME NEW t \in Threads,
             \/ \E s \in Streams : CreateGraphicsStream(t, s) \/ CreateStream(t, s)
             \/ CreateNotification(t) \/ UseStream(t) \/ ReleaseNotification(t) \/ ReleaseStream(t)
             \/ PopContext(t)
      PROVE  ScopesInv'
  BY ONLY InteropInv, ScopesInv, t \in Threads, <1>5, LeavesKeepScopes
<1> QED
  BY <1>1, <1>2, <1>3, <1>4, <1>5 DEF Next, vars

LEMMA InteropStep == InteropInv /\ ScopesInv /\ [Next]_vars => InteropInv'
<1> SUFFICES ASSUME InteropInv, ScopesInv, [Next]_vars PROVE InteropInv'
  OBVIOUS
<1>1. CASE GetSupportedDevices /\ UNCHANGED interopVars
  <2>1. DevicesInv' /\ env' = env
    BY <1>1, DevicesStep DEF InteropInv, GetSupportedDevices
  <2>2. UNCHANGED <<cig, contexts, thread, stream, event>>
    BY <1>1 DEF interopVars
  <2> QED
    BY <2>1, <2>2 DEF InteropInv, Types, Placed, Mapped, OneHolder, SomeHolder, InHand, At
<1>2. ASSUME NEW t \in Threads, NEW e \in Range(published),
             \/ BeginInit(t, e) \/ BeginDeinit(t, e) \/ SelectDevice(t, e) \/ BeginStream(t, e)
             \/ BeginImport(t, e)
      PROVE  InteropInv'
  BY <1>2, BeginInitStep, BeginDeinitStep, SelectDeviceStep, BeginStreamStep, BeginImportStep
<1>3. ASSUME NEW t \in Threads, CreateContext(t) PROVE InteropInv'
  <2>1. CASE Return(t) /\ UNCHANGED contexts
    BY <1>3, <2>1, CreateContextFails DEF CreateContext
  <2>2. CASE ~(Return(t) /\ UNCHANGED contexts)
    BY <1>3, <2>2, CreateContextMakes DEF CreateContext
  <2> QED
    BY <2>1, <2>2
<1>4. ASSUME NEW t \in Threads, PublishContext(t) \/ DestroyContext(t) PROVE InteropInv'
  BY <1>4, PublishContextStep, DestroyContextStep
<1>5. ASSUME NEW t \in Threads, EnterGraphics(t) \/ PopContext(t) PROVE InteropInv'
  BY <1>5, EnterGraphicsStep, PopContextStep
<1>7. ASSUME NEW t \in Threads, NEW s \in Streams,
             CreateStream(t, s) \/ EnterStream(t, s) \/ BeginSemaphore(t, s)
      PROVE  InteropInv'
  BY <1>7, CreateStreamStep, EnterStreamStep
<1>8. ASSUME NEW t \in Threads,
             \/ \E s \in Streams : CreateGraphicsStream(t, s)
             \/ CreateNotification(t) \/ UseStream(t) \/ ReleaseNotification(t) \/ ReleaseStream(t)
      PROVE  InteropInv'
  <2>1. Scoped(thread[t], stream, event) /\ Current(t) = Top(thread[t].stack)
    BY DEF ScopesInv, Current, Top
  <2>2. At(t, "newStream") => thread[t].context # None /\ CallContext(t) = thread[t].context
    BY <2>1 DEF Scoped, At, CallContext
  <2>3. thread[t].context \in AllContexts \cup {None}
    BY DEF InteropInv, Types, Calls
  <2>4. At(t, "newEvent") => CallContext(t) \in AllContexts
    BY <2>1, LiesIsContext DEF Scoped, At, CallContext, OnStream
  <2> QED
    BY <1>8, <2>2, <2>3, <2>4, LeaveScopeStep
<1>6. CASE UNCHANGED vars
  <2>1. UNCHANGED deviceVars /\ UNCHANGED <<cig, contexts, thread, stream, event>>
    BY <1>6 DEF vars, interopVars
  <2>2. DevicesInv' /\ env' = env
    BY <2>1, DevicesStep DEF InteropInv, deviceVars
  <2> QED
    BY <2>1, <2>2 DEF InteropInv, Types, Placed, Mapped, OneHolder, SomeHolder, InHand, At
<1> QED
  BY <1>1, <1>2, <1>3, <1>4, <1>5, <1>6, <1>7, <1>8 DEF Next

(* The inductive invariant of the factory's devices, contexts and streams:   *)
(* a call under way holds the device it looked up and the context it made or *)
(* took out of the map, and no context has two holders.                      *)
THEOREM InteropInductive == Spec => [](InteropInv /\ ScopesInv)
<1>1. Init => InteropInv /\ ScopesInv
  BY InteropInit, ScopesInit
<1>2. (InteropInv /\ ScopesInv) /\ [Next]_vars => (InteropInv /\ ScopesInv)'
  BY InteropStep, ScopesStep
<1> QED
  BY <1>1, <1>2, PTL DEF Spec

(* Every variable has its type, for any number of threads and devices.       *)
THEOREM InteropTypes == Spec => []TypeOK
<1>1. InteropInv => TypeOK
  <2> SUFFICES ASSUME InteropInv PROVE TypeOK
    OBVIOUS
  <2>1. env \in Environments /\ infos \subseteq CudaDevices /\ env.lockdown \in BOOLEAN
    BY DevicesAssumption DEF InteropInv, DevicesInv
  <2>2. \A e \in Range(published) : e.cuda \in CudaDevices \cup {0}
    BY <2>1, PublishedIsReal DEF InteropInv
  <2>3. \A t \in Threads : thread[t] \in Calls
    BY DEF InteropInv, Types
  <2>4. \A s \in Streams : stream[s] \in Made \cup {None} /\ event[s] \in AllContexts \cup {None}
    BY DEF InteropInv, Types
  <2>5. Types
    BY DEF InteropInv
  <2> QED
    BY <2>1, <2>2, <2>3, <2>4, <2>5 DEF TypeOK, Types, Calls, Made
<1> QED
  BY <1>1, InteropInductive, PTL

(* Publishing a device, accepting it and diagnosing it never disagree: see   *)
(* JudgementsAgree, for any hardware and any limit ORT passes.               *)
THEOREM JudgementsCorrect == Spec => []JudgementsAgree
  BY InteropInductive, JudgementsFromDevices, PTL DEF InteropInv

\* A context that is alive has one holder, a destroyed one none.
LEMMA HoldersCounted ==
  ASSUME InteropInv, NEW n \in DOMAIN contexts
  PROVE  Cardinality(Holders(Graphics(n))) = IF contexts[n].live THEN 1 ELSE 0
<1> DEFINE Maps == {d \in DeviceIds : cig[d] = Graphics(n)}
           Hands == {t \in Threads : InHand(t, n)}
<1>1. Holders(Graphics(n)) = Maps \cup Hands
  BY DEF Holders, InHand
<1>2. Graphics(n) # None /\ \A m \in DOMAIN contexts : Graphics(m) = Graphics(n) => m = n
  BY GraphicsAreContexts DEF Graphics, InteropInv
<1>3. \A d \in Maps : contexts[n].live /\ contexts[n].device = d
  BY <1>2 DEF InteropInv, Mapped
<1>4. \A t \in Hands : contexts[n].live
  <2>1. TAKE t \in Hands
  <2>2. Placed(t)
    BY DEF InteropInv
  <2>3. PICK m \in DOMAIN contexts : InHand(t, m) /\ contexts[m].live
    BY <2>2 DEF Placed, InHand
  <2> QED
    BY <1>2, <2>3 DEF InHand
<1>5. \A t, u \in Hands : t = u
  BY DEF InteropInv, OneHolder
<1>6. Maps = {} \/ Hands = {}
  BY DEF InteropInv, OneHolder
<1>7. contexts[n].live \in BOOLEAN
  <2>1. contexts \in Seq([device : CudaDevices, live : BOOLEAN])
    BY DEF InteropInv, Types
  <2>2. contexts[n] \in [device : CudaDevices, live : BOOLEAN]
    <3> DEFINE Ctx == [device : CudaDevices, live : BOOLEAN]
    <3>1. contexts \in Seq(Ctx)
      BY <2>1
    <3> HIDE DEF Ctx
    <3>2. contexts[n] \in Ctx
      BY <3>1
    <3> QED
      BY <3>2 DEF Ctx
  <2> QED
    BY <2>2
<1>8. CASE contexts[n].live
  <2>1. Maps # {} \/ Hands # {}
    BY <1>8 DEF InteropInv, SomeHolder
  <2>2. \A d, e \in Maps : d = e
    BY <1>3
  <2>3. \E x : Maps \cup Hands = {x}
    <3> HIDE DEF Maps, Hands
    <3>1. CASE Maps # {}
      <4>1. PICK d : d \in Maps
        BY <3>1
      <4>2. Maps \cup Hands = {d}
        BY <1>6, <2>2, <3>1, <4>1
      <4> QED
        BY <4>2
    <3>2. CASE Hands # {}
      <4>1. PICK t : t \in Hands
        BY <3>2
      <4>2. Maps \cup Hands = {t}
        BY <1>5, <1>6, <3>2, <4>1
      <4> QED
        BY <4>2
    <3> QED
      BY <2>1, <3>1, <3>2
  <2> QED
    BY <1>1, <1>8, <2>3, FS_Singleton
<1>9. CASE ~contexts[n].live
  BY <1>1, <1>3, <1>4, <1>9, FS_EmptySet
<1> QED
  BY <1>8, <1>9

(* No graphics context is lost, leaked or destroyed twice: see NoContextLost, *)
(* whichever threads initialise and deinitialise a device, in any order.      *)
THEOREM ContextsKept == Spec => []NoContextLost
<1>1. InteropInv => NoContextLost
  <2> SUFFICES ASSUME InteropInv PROVE NoContextLost
    OBVIOUS
  <2>1. \A d \in DeviceIds : cig[d] # None => DeviceOf(cig[d]) = d
    BY DEF InteropInv, Mapped, DeviceOf, Graphics
  <2> QED
    BY <2>1, HoldersCounted DEF NoContextLost
<1> QED
  BY <1>1, InteropInductive, PTL

(* A stream lies in the context its later calls make current, and its event  *)
(* in the stream's: see MadeWhereRemembered, whatever threads have current    *)
(* and whatever fails.                                                        *)
THEOREM MadeInTheirContext == Spec => []MadeWhereRemembered
  BY InteropInductive, PTL DEF ScopesInv

\* A step of a thread leaves the stacks of the others, and what a call leaves is the
\* stack that it found, but for the exceptions that CallersContextKept names.
LEMMA LeavesAsFound ==
  ASSUME InteropInv, ScopesInv, Next, NEW t \in Threads,
         Borrows(t), At(t, "idle")', ~(\E e \in Range(published) : SelectDevice(t, e))
  PROVE  \/ thread[t].stack' = Found(t)
         \/ Found(t) = <<>> /\ SelectsDevice(t) /\ Len(thread[t].stack') = 1
         \/ /\ Found(t) # <<>> /\ ~Live(Last(Found(t)))
            /\ thread[t].stack' # <<>> /\ Front(thread[t].stack') = Front(Found(t))
<1> DEFINE Goal == \/ thread[t].stack' = Found(t)
                   \/ Found(t) = <<>> /\ SelectsDevice(t) /\ Len(thread[t].stack') = 1
                   \/ /\ Found(t) # <<>> /\ ~Live(Last(Found(t)))
                      /\ thread[t].stack' # <<>> /\ Front(thread[t].stack') = Front(Found(t))
<1>1. thread \in [Threads -> Calls] /\ thread[t] \in Calls /\ Scoped(thread[t], stream, event)
  BY DEF InteropInv, Types, ScopesInv
<1>2. \A u \in Threads : \A r : Step(u, r) => thread'[t] = IF u = t THEN r ELSE thread[t]
  BY <1>1 DEF Step
<1>0. ASSUME NEW r, Step(t, r), r.at # "idle" PROVE FALSE
  BY <1>0, <1>2 DEF At
<1>3. \A stack : Leave(t, stack) => thread[t].stack' = stack
  BY <1>2 DEF Leave, Idle
<1>4. CASE thread'[t] = thread[t]
  BY <1>4 DEF Found, At
<1>5. thread[t].at \in Scopes \cup {"push", "stream"} => Found(t) = thread[t].found
  BY DEF Found, At, Scopes
<1>6. ASSUME NEW e \in Range(published), BeginInit(t, e) \/ BeginDeinit(t, e) \/ BeginStream(t, e) PROVE FALSE
  <2> DEFINE q == [thread[t] EXCEPT !.at = "create", !.device = ParseDeviceId(e)]
             d == [thread[t] EXCEPT !.at = "destroy", !.context = cig[ParseDeviceId(e)]]
             r == [thread[t] EXCEPT !.at = "stream", !.device = e.cuda, !.context = GetCigContext(e.cuda),
                                    !.found = thread[t].stack]
  <2>1. q.at = "create" /\ d.at = "destroy" /\ r.at = "stream"
    BY <1>1 DEF Calls
  <2>2. Step(t, q) \/ Step(t, d) \/ Step(t, r)
    BY <1>6 DEF BeginInit, BeginDeinit, BeginStream
  <2> HIDE DEF q, d, r
  <2> QED
    BY <1>0, <2>1, <2>2
<1>7. ~CreateContext(t) /\ ~PublishContext(t) /\ ~DestroyContext(t)
  BY DEF Borrows, CreateContext, PublishContext, DestroyContext
<1>8. ASSUME Leave(t, Restored(t)), thread[t].at \in Scopes PROVE Goal
  BY <1>3, <1>5, <1>8, RestoredIsFound
<1>9. ASSUME NEW s \in Streams, CreateGraphicsStream(t, s) PROVE Goal
  BY <1>8, <1>9 DEF CreateGraphicsStream, At, Scopes
<1>10. ASSUME CreateNotification(t) \/ UseStream(t) \/ ReleaseNotification(t) \/ ReleaseStream(t) PROVE Goal
  BY <1>8, <1>10 DEF CreateNotification, UseStream, ReleaseNotification, ReleaseStream, At, Scopes
<1>11. ASSUME NEW s \in Streams, CreateStream(t, s) PROVE Goal
  <2>1. thread[t].stack' = StackForStream(t) /\ SelectsDevice(t) /\ Found(t) = thread[t].stack
    BY <1>1, <1>3, <1>5, <1>11 DEF CreateStream, SelectsDevice, At, Scoped
  <2> QED
    BY <2>1 DEF StackForStream
<1>22. ASSUME NEW where, NEW s, NEW stack, NEW changed, Inside(t, where, s, stack, changed)
       PROVE  where = "idle"
  <2> DEFINE r == [thread[t] EXCEPT !.at = where, !.device = 0, !.slot = s, !.stack = stack,
                                    !.previous = Current(t), !.changed = changed,
                                    !.found = thread[t].stack]
  <2>1. Step(t, r) /\ r.at = where
    BY <1>1, <1>22 DEF Inside, Calls
  <2> HIDE DEF r
  <2> QED
    BY <1>0, <2>1
<1>12. ASSUME NEW where, NEW s, NEW c, SetContext(t, where, s, c), where # "idle" PROVE thread[t].stack' = thread[t].stack
  <2>1. ASSUME NEW stack, NEW changed PROVE ~Inside(t, where, s, stack, changed)
    BY <1>12, <1>22
  <2>2. Return(t)
    BY <1>12, <2>1 DEF SetContext
  <2> QED
    BY <1>3, <2>2 DEF Return
<1>13. ASSUME NEW where, NEW s, NEW c, SetContextNoThrow(t, where, s, c) PROVE where = "idle"
  BY <1>13, <1>22 DEF SetContextNoThrow
<1>14. ASSUME EnterGraphics(t) PROVE Goal
  <2>1. Found(t) = thread[t].stack /\ SetContext(t, "newStream", None, thread[t].context)
    BY <1>1, <1>5, <1>14 DEF EnterGraphics, At, Scoped
  <2> QED
    BY <1>12, <2>1
<1>15. ASSUME NEW s \in Streams, EnterStream(t, s) PROVE Goal
  <2>1. Found(t) = thread[t].stack
    BY <1>15 DEF EnterStream, Idling, Found
  <2>2. SetContext(t, "newEvent", s, stream[s].lies) \/ SetContext(t, "use", s, stream[s].context)
    BY <1>13, <1>15 DEF EnterStream
  <2> QED
    BY <1>12, <2>1, <2>2
<1>16. ASSUME NEW s, NEW base, NEW c, PushContext(t, s, base, c) PROVE thread[t].stack' = base
  <2> DEFINE r == [thread[t] EXCEPT !.at = "push", !.slot = s, !.stack = Append(base, c),
                                    !.found = thread[t].stack]
  <2>1. r.at = "push"
    BY <1>1 DEF Calls
  <2>2. Step(t, r) \/ Leave(t, base)
    BY <1>16 DEF PushContext
  <2> HIDE DEF r
  <2> QED
    BY <1>0, <1>3, <2>1, <2>2
<1>17. ASSUME NEW e \in Range(published), BeginImport(t, e) PROVE Goal
  <2>1. Found(t) = thread[t].stack /\ SelectsDevice(t)
    BY <1>17 DEF BeginImport, Found, SelectsDevice
  <2>2. thread[t].stack' = BaseForImport(t, ParseDeviceId(e))
    BY <1>16, <1>17 DEF BeginImport
  <2> QED
    BY <2>1, <2>2 DEF BaseForImport
<1>18. ASSUME NEW s \in Streams, BeginSemaphore(t, s) PROVE Goal
  <2>1. Found(t) = thread[t].stack /\ thread[t].stack' = thread[t].stack
    BY <1>16, <1>18 DEF BeginSemaphore, Idling, Found
  <2> QED
    BY <2>1
<1>19. ASSUME PopContext(t) PROVE Goal
  <2>1. /\ thread[t].stack' = Front(thread[t].stack) /\ Found(t) = thread[t].found
        /\ Pushed(thread[t]) /\ At(t, "push") /\ thread[t].found \in Seq(AllContexts)
    BY <1>1, <1>3, <1>5, <1>19 DEF PopContext, At, Scoped, Calls
  <2>2. \A stack \in Seq(AllContexts) : \A c \in AllContexts : Front(Append(stack, c)) = stack
    BY DEF Front
  <2>3. PICK c \in AllContexts :
          \/ thread[t].stack = Append(thread[t].found, c)
          \/ /\ thread[t].slot = None /\ thread[t].found = <<>>
             /\ \E b \in AllContexts : thread[t].stack = Append(<<b>>, c)
    BY <2>1 DEF Pushed
  <2>4. CASE thread[t].stack = Append(thread[t].found, c)
    BY <2>1, <2>2, <2>4
  <2>5. ASSUME thread[t].slot = None, thread[t].found = <<>>, NEW b \in AllContexts,
               thread[t].stack = Append(<<b>>, c)
        PROVE  Goal
    <3>1. <<b>> \in Seq(AllContexts) /\ Len(<<b>>) = 1
      OBVIOUS
    <3>2. SelectsDevice(t)
      BY <2>1, <2>5 DEF SelectsDevice
    <3> QED
      BY <2>1, <2>2, <2>5, <3>1, <3>2
  <2> QED
    BY <2>3, <2>4, <2>5
<1>20. CASE GetSupportedDevices /\ UNCHANGED interopVars
  BY <1>4, <1>20 DEF interopVars
<1>21. ASSUME NEW u \in Threads, u # t,
              \/ \E e \in Range(published) :
                   \/ BeginInit(u, e) \/ BeginDeinit(u, e) \/ SelectDevice(u, e) \/ BeginStream(u, e)
                   \/ BeginImport(u, e)
              \/ CreateContext(u) \/ PublishContext(u) \/ DestroyContext(u)
              \/ EnterGraphics(u) \/ CreateNotification(u) \/ UseStream(u)
              \/ ReleaseNotification(u) \/ ReleaseStream(u) \/ PopContext(u)
              \/ \E s \in Streams : CreateGraphicsStream(u, s) \/ CreateStream(u, s)
                                    \/ EnterStream(u, s) \/ BeginSemaphore(u, s)
       PROVE  thread'[t] = thread[t]
  <2>1. \E r : Step(u, r)
    BY <1>21 DEF BeginInit, BeginDeinit, SelectDevice, BeginStream, BeginImport, CreateContext,
       PublishContext, DestroyContext, EnterGraphics, CreateNotification, UseStream, ReleaseNotification,
       ReleaseStream, PopContext, CreateGraphicsStream, CreateStream, EnterStream, BeginSemaphore,
       SetContext, SetContextNoThrow, PushContext, Inside, Return, Leave
  <2> QED
    BY <1>2, <1>21, <2>1
<1> HIDE DEF Goal
<1>23. Goal
  BY <1>4, <1>6, <1>7, <1>9, <1>10, <1>11, <1>14, <1>15, <1>17, <1>18, <1>19, <1>20, <1>21
     DEF Next, Goal
<1> QED
  BY <1>23 DEF Goal

(* A caller has its own context current again, and its stack below it: see    *)
(* CallersContextKept, for any threads, streams and contexts, whatever fails. *)
THEOREM CallersContextsKept == Spec => CallersContextKept
<1> DEFINE AsFound == \A t \in Threads :
       (Borrows(t) /\ At(t, "idle")' /\ ~(\E e \in Range(published) : SelectDevice(t, e))) =>
         \/ thread[t].stack' = Found(t)
         \/ Found(t) = <<>> /\ SelectsDevice(t) /\ Len(thread[t].stack') = 1
         \/ /\ Found(t) # <<>> /\ ~Live(Last(Found(t)))
            /\ thread[t].stack' # <<>> /\ Front(thread[t].stack') = Front(Found(t))
<1>1. InteropInv /\ ScopesInv /\ Next => AsFound
  BY LeavesAsFound
<1> HIDE DEF AsFound
<1>2. Spec => [][AsFound]_vars
  BY <1>1, InteropInductive, PTL DEF Spec
<1> QED
  BY <1>2 DEF CallersContextKept, AsFound
=============================================================================
