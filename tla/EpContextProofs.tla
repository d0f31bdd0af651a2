-------------------------- MODULE EpContextProofs --------------------------
(***************************************************************************)
(* Theorems about the sessions that compile, export and load engines, for  *)
(* any sessions, nodes, options and older models.  The steps of a session  *)
(* come first, one lemma per action, each with what the step may do to     *)
(* files, store and models; then the invariant, and the theorems.          *)
(***************************************************************************)
EXTENDS EpContextProperties, FoldLemmas, SequenceTheorems, TLAPS

-----------------------------------------------------------------------------
(* Sequences and records *)

\* A sequence over whatever it holds.
IsSeq(q) == q \in Seq(ToSet(q))

\* Appending to a sequence.
LEMMA Appended ==
  ASSUME NEW q, IsSeq(q), NEW x
  PROVE  /\ IsSeq(Append(q, x)) /\ ToSet(Append(q, x)) = ToSet(q) \cup {x}
         /\ Len(q) \in Nat /\ Len(Append(q, x)) = Len(q) + 1
         /\ \A i \in 1 .. Len(q) : Append(q, x)[i] = q[i]
         /\ Append(q, x)[Len(q) + 1] = x
<1> DEFINE V == ToSet(q) \cup {x}
           a == Append(q, x)
<1>1. q \in Seq(V) /\ x \in V
  <2>1. ToSet(q) \subseteq V
    OBVIOUS
  <2> HIDE DEF V
  <2>2. q \in Seq(V)
    BY <2>1, SeqMonotonic DEF IsSeq
  <2> QED
    BY <2>2 DEF V
<1>2. /\ a \in Seq(V) /\ Len(q) \in Nat /\ Len(a) = Len(q) + 1
      /\ \A i \in 1 .. Len(q) : a[i] = q[i]
      /\ a[Len(q) + 1] = x
      /\ DOMAIN q = 1 .. Len(q) /\ DOMAIN a = 1 .. Len(a)
  <2> HIDE DEF V
  <2> QED
    BY <1>1, AppendProperties, LenProperties
<1> HIDE DEF a
<1>3. ToSet(a) = ToSet(q) \cup {x}
  <2>1. ASSUME NEW i \in DOMAIN a PROVE a[i] \in ToSet(q) \cup {x}
    <3>1. i \in 1 .. Len(q) \/ i = Len(q) + 1
      BY <1>2
    <3> QED
      BY <1>2, <3>1 DEF ToSet
  <2>2. ASSUME NEW y \in ToSet(q) PROVE y \in ToSet(a)
    <3>1. PICK i \in 1 .. Len(q) : y = q[i]
      BY <1>2 DEF ToSet
    <3>2. i \in DOMAIN a /\ a[i] = y
      BY <1>2, <3>1
    <3> QED
      BY <3>2 DEF ToSet
  <2>3. x \in ToSet(a)
    <3>1. Len(q) + 1 \in DOMAIN a
      BY <1>2
    <3> QED
      BY <1>2, <3>1 DEF ToSet
  <2> QED
    BY <2>1, <2>2, <2>3 DEF ToSet
<1>4. a \in Seq(ToSet(a))
  BY <1>2, <1>3
<1> QED
  BY <1>2, <1>3, <1>4 DEF a, IsSeq

\* The empty sequence.
LEMMA NoneYet == IsSeq(<<>>) /\ ToSet(<<>>) = {} /\ Len(<<>>) = 0
<1>1. <<>> \in Seq({}) /\ Len(<<>>) = 0
  BY EmptySeq
<1>2. DOMAIN <<>> = {}
  BY <1>1, LenProperties
<1>3. ToSet(<<>>) = {}
  BY <1>2 DEF ToSet
<1> QED
  BY <1>1, <1>3 DEF IsSeq

-----------------------------------------------------------------------------
(* Paths *)

Cached(s, n) == <<CacheRoot[s], n, "engine">>
Scratch(s, n) == <<"temp", s, n>>

\* The paths of engine files are told apart by session and node.
LEMMA PathsApart ==
  ASSUME OwnDirectories
  PROVE  /\ \A s, t \in Sessions : \A n, k :
              /\ Cached(s, n) = Cached(t, k) => s = t /\ n = k
              /\ Scratch(s, n) = Scratch(t, k) => s = t /\ n = k
              /\ Cached(s, n) # Scratch(t, k)
         /\ \A s \in Sessions : \A n :
              /\ Cached(s, n) \notin {Nowhere, InMemory}
              /\ Scratch(s, n) \notin {Nowhere, InMemory}
              /\ Cached(s, n)[1] = CacheRoot[s] /\ Scratch(s, n)[1] = "temp"
         /\ Nowhere # InMemory
<1>1. ASSUME NEW s \in Sessions, NEW n
      PROVE  /\ Cached(s, n) \notin {Nowhere, InMemory}
             /\ Scratch(s, n) \notin {Nowhere, InMemory}
             /\ Cached(s, n)[1] = CacheRoot[s] /\ Scratch(s, n)[1] = "temp"
  BY DEF Cached, Scratch, Nowhere, InMemory
<1>2. Nowhere # InMemory
  BY DEF Nowhere, InMemory
<1>3. ASSUME NEW s \in Sessions, NEW t \in Sessions, NEW n, NEW k
      PROVE  /\ Cached(s, n) = Cached(t, k) => s = t /\ n = k
             /\ Scratch(s, n) = Scratch(t, k) => s = t /\ n = k
             /\ Cached(s, n) # Scratch(t, k)
  BY DEF Cached, Scratch, OwnDirectories
<1> QED
  BY <1>1, <1>2, <1>3

-----------------------------------------------------------------------------
(* A compiling session's record, and what its helper's output holds *)

CompileFields == {"pc", "opt", "at", "out", "open", "preserved", "bytes", "captured", "engine",
                  "memory", "exported", "built", "maps"}
LoadFields == {"pc", "opt", "model", "from", "refit", "complete", "bytes", "engine", "memory",
               "reader", "wanted", "why"}
Has(r, F) == r = [f \in F |-> r[f]]

Of(r) == Nodes[r.at]
Built(r) == EngineBytes(Of(r), r.opt.stripped, TRUE)
Held(r, fs) == IF r.bytes # NoFile THEN r.bytes ELSE IF r.out \in DOMAIN fs THEN fs[r.out] ELSE NoFile
Found(m, fs, st) ==
  IF m.embed THEN m.bytes
  ELSE IF m.stored THEN IF m.path \in DOMAIN st THEN st[m.path] ELSE NoFile
  ELSE IF m.path \in DOMAIN fs THEN fs[m.path] ELSE NoFile

CompilePcs == {"prepare", "open", "build", "finalize", "deserialize", "export", "context", "end",
               "publish", "compiled", "unwind", "failed", "crashed"}
LoadPcs == {"locate", "read", "refit", "context", "upload", "ready", "failed", "crashed"}

\* The helper of the node in progress: where its output goes, what is there, and
\* whether the destructor keeps it.
CompileTypes(r) ==
  /\ Has(r, CompileFields) /\ r.opt \in CompileOptions /\ r.at \in DOMAIN Nodes /\ r.pc \in CompilePcs
  /\ r.preserved \in BOOLEAN /\ r.open \in BOOLEAN /\ IsSeq(r.exported)
OutputPlaced(s, r) ==
  /\ r.out \in {Nowhere, InMemory, Cached(s, Of(r)), Scratch(s, Of(r))}
  /\ r.pc \in {"prepare", "open", "publish", "compiled", "failed"} => r.out = Nowhere
  /\ r.pc \in {"build", "finalize", "deserialize", "export"} => r.out # Nowhere
  /\ r.out = Cached(s, Of(r)) => StreamsToCache(r.opt)
  /\ r.out \in {InMemory, Scratch(s, Of(r))} => ~StreamsToCache(r.opt)
OutputHeld(r, fs) ==
  /\ r.bytes \in {NoFile, Built(r)}
  /\ r.pc \in {"prepare", "open", "build"} => r.bytes = NoFile
  /\ r.pc \in {"finalize", "deserialize", "export"} =>
       Held(r, fs) = Built(r) /\ (r.out # InMemory => r.out \in DOMAIN fs /\ fs[r.out] = Built(r))
OutputKept(s, r, fs) ==
  /\ r.pc \in {"prepare", "open", "build", "finalize", "deserialize", "export"} => ~r.preserved
  /\ r.preserved /\ r.pc # "failed" =>
       r.out = Cached(s, Of(r)) /\ r.out \in DOMAIN fs /\ fs[r.out] = Built(r)
  /\ r.pc \in {"context", "end"} /\ StreamsToCache(r.opt) => r.preserved
CapturedFrom(r) ==
  r.pc \in {"open", "build", "finalize", "deserialize", "export"} =>
    r.captured \in IF r.opt.stripped THEN {NodeInfo[Of(r)].records, Corrupt} ELSE {<<>>}
HelperOK(s, r, fs) ==
  CompileTypes(r) /\ OutputPlaced(s, r) /\ OutputHeld(r, fs) /\ OutputKept(s, r, fs) /\ CapturedFrom(r)

\* The nodes a session has exported so far, and what it leaves of them.
Past(r) == {Nodes[k] : k \in 1 .. (r.at - 1)}
           \cup (IF r.pc \in {"context", "end", "publish", "compiled"} THEN {Of(r)} ELSE {})
TableOf(m) ==
  LET all  == NodeInfo[m.node].records
      recs == IF m.filtered THEN NeededRecords(m.node) ELSE all
      kept == SourceNames(recs) \cap NodeInfo[m.node].kept
  IN  /\ m.table # NoTable /\ m.table = SerializeWeightlessRefitTable(m.records)
      /\ m.records = WithoutMissing(recs, SourceNames(recs) \ kept)
      /\ m.inputs = kept
      /\ m.filtered => SourceNames(recs) \ kept = {}
ExportOK(s, r, m, fs, st) ==
  /\ m.node \in Past(r)
  /\ m.safe /\ m.embed = r.opt.embed /\ m.stored = (~r.opt.embed /\ r.opt.callbacks)
  /\ ~m.embed => m.path = Cached(s, m.node)
  /\ Found(m, fs, st) = EngineBytes(m.node, r.opt.stripped, TRUE)
  /\ IF r.opt.stripped THEN TableOf(m) ELSE m.table = NoTable
ExportsOK(s, r, fs, st) ==
  r.pc \notin {"unwind", "failed", "crashed"} => \A m \in ToSet(r.exported) : ExportOK(s, r, m, fs, st)

Compiles(s, r, fs, st) == HelperOK(s, r, fs) /\ ExportsOK(s, r, fs, st)
Loads(r) == Has(r, LoadFields) /\ r.pc \in LoadPcs
SessionOK(s, r, fs, st) == r = Idle \/ Compiles(s, r, fs, st) \/ Loads(r)

\* Outside what session s may write, files and store stay as they are.
KeptBy(s, fs, gs) ==
  \A path : (\A n : path \notin {Cached(s, n), Scratch(s, n)}) =>
    (path \in DOMAIN fs <=> path \in DOMAIN gs) /\ (path \in DOMAIN fs => fs[path] = gs[path])

\* What one session does to its files is nothing to the others.
LEMMA OthersKept ==
  ASSUME OwnDirectories, NEW s \in Sessions, NEW t \in Sessions, s # t, NEW r, NEW fs, NEW gs, NEW st, NEW su,
         KeptBy(s, fs, gs), KeptBy(s, st, su), Compiles(t, r, fs, st)
  PROVE  Compiles(t, r, gs, su)
<1> USE DEF Compiles, HelperOK
<1>1. \A n : /\ Cached(t, n) \in DOMAIN fs <=> Cached(t, n) \in DOMAIN gs
             /\ Cached(t, n) \in DOMAIN fs => fs[Cached(t, n)] = gs[Cached(t, n)]
             /\ Scratch(t, n) \in DOMAIN fs <=> Scratch(t, n) \in DOMAIN gs
             /\ Scratch(t, n) \in DOMAIN fs => fs[Scratch(t, n)] = gs[Scratch(t, n)]
             /\ Cached(t, n) \in DOMAIN st <=> Cached(t, n) \in DOMAIN su
             /\ Cached(t, n) \in DOMAIN st => st[Cached(t, n)] = su[Cached(t, n)]
  BY PathsApart DEF KeptBy
<1>2. OutputHeld(r, gs)
  <2>1. r.pc \in {"finalize", "deserialize", "export"} => Held(r, gs) = Held(r, fs)
    <3>0. OutputPlaced(t, r)
      OBVIOUS
    <3>1. CASE r.bytes # NoFile
      BY <3>1 DEF Held
    <3>2. CASE r.out \in {Cached(t, Of(r)), Scratch(t, Of(r))}
      BY <1>1, <3>2 DEF Held
    <3>3. CASE r.bytes = NoFile /\ r.out \in {Nowhere, InMemory}
      <4>1. r.out \in DOMAIN fs <=> r.out \in DOMAIN gs
        BY <3>3, PathsApart DEF KeptBy
      <4>2. r.out \in DOMAIN fs => fs[r.out] = gs[r.out]
        BY <3>3, PathsApart DEF KeptBy
      <4> QED
        BY <3>3, <4>1, <4>2 DEF Held
    <3> QED
      BY <3>1, <3>2, <3>3 DEF OutputPlaced
  <2>2. r.pc \in {"finalize", "deserialize", "export"} /\ r.out # InMemory =>
          r.out \in {Cached(t, Of(r)), Scratch(t, Of(r))}
    BY DEF OutputPlaced
  <2> QED
    BY <1>1, <2>1, <2>2 DEF OutputHeld
<1>3. OutputKept(t, r, gs)
  BY <1>1 DEF OutputKept
<1>4. ExportsOK(t, r, gs, su)
  <2> SUFFICES ASSUME r.pc \notin {"unwind", "failed", "crashed"}, NEW m \in ToSet(r.exported)
               PROVE  ExportOK(t, r, m, gs, su)
    BY DEF ExportsOK
  <2>1. ExportOK(t, r, m, fs, st)
    BY DEF ExportsOK
  <2>2. Found(m, gs, su) = Found(m, fs, st)
    BY <1>1, <2>1 DEF ExportOK, Found
  <2> QED
    BY <2>1, <2>2 DEF ExportOK
<1> QED
  BY <1>2, <1>3, <1>4

SameBut(path, fs, gs) ==
  \A p : p # path => (p \in DOMAIN fs <=> p \in DOMAIN gs) /\ (p \in DOMAIN fs => fs[p] = gs[p])

\* Writing and removing a file.
LEMMA FileWritten ==
  ASSUME NEW path, NEW fs, NEW b, NEW gs, gs = Written(fs, path, b)
  PROVE  /\ DOMAIN gs = DOMAIN fs \cup {path} /\ gs[path] = b
         /\ \A p \in DOMAIN fs : p # path => gs[p] = fs[p]
         /\ SameBut(path, fs, gs)
<1>1. /\ DOMAIN gs = DOMAIN fs \cup {path} /\ gs[path] = b
      /\ \A p \in DOMAIN fs : p # path => gs[p] = fs[p]
  BY DEF Written
<1> QED
  BY <1>1 DEF SameBut

\* The other way.
LEMMA FileRemoved ==
  ASSUME NEW path, NEW fs, NEW gs, gs = Removed(fs, path)
  PROVE  /\ DOMAIN gs = DOMAIN fs \ {path}
         /\ \A p \in DOMAIN fs : p # path => gs[p] = fs[p]
         /\ SameBut(path, fs, gs)
<1>1. /\ DOMAIN gs = DOMAIN fs \ {path}
      /\ \A p \in DOMAIN fs : p # path => gs[p] = fs[p]
  BY DEF Removed, Restrict
<1> QED
  BY <1>1 DEF SameBut

\* A session that writes one file of its own keeps what is not its own.
LEMMA OwnFile ==
  ASSUME NEW s, NEW n, NEW path, path \in {Cached(s, n), Scratch(s, n)}, NEW fs, NEW gs, SameBut(path, fs, gs)
  PROVE  KeptBy(s, fs, gs)
BY DEF SameBut, KeptBy

\* The bytes of an engine are never NoFile.
LEMMA BuiltIsSomething ==
  ASSUME EpContextAssumption, NEW r, CompileTypes(r)
  PROVE  /\ Built(r) # NoFile /\ Built(r).whole /\ Of(r) \in DOMAIN NodeInfo
         /\ r.opt.stripped \in BOOLEAN /\ r.opt.dump \in BOOLEAN /\ r.opt.embed \in BOOLEAN
         /\ r.opt.callbacks \in BOOLEAN /\ r.opt.compileOnly \in BOOLEAN
         /\ Built(r).node = Of(r) /\ Built(r).stripped = r.opt.stripped
         /\ Len(Nodes) \in Nat \ {0} /\ DOMAIN Nodes = 1 .. Len(Nodes) /\ r.at \in 1 .. Len(Nodes)
<1>1. Len(Nodes) \in Nat \ {0} /\ DOMAIN Nodes = 1 .. Len(Nodes)
  BY LenProperties, EmptySeq DEF EpContextAssumption
<1>2. Of(r) \in DOMAIN NodeInfo
  BY <1>1, ElementOfSeq DEF EpContextAssumption, CompileTypes, Of
<1>3. /\ r.opt.stripped \in BOOLEAN /\ r.opt.dump \in BOOLEAN /\ r.opt.embed \in BOOLEAN
      /\ r.opt.callbacks \in BOOLEAN /\ r.opt.compileOnly \in BOOLEAN
  BY DEF EpContextAssumption, CompileTypes
<1>4. Built(r) \in [node : DOMAIN NodeInfo, stripped : BOOLEAN, whole : BOOLEAN]
      /\ Built(r).whole /\ Built(r).node = Of(r) /\ Built(r).stripped = r.opt.stripped
  BY <1>2, <1>3 DEF Built, EngineBytes
<1> QED
  BY <1>1, <1>2, <1>3, <1>4 DEF EpContextAssumption, CompileTypes

\* A new compiling session.
LEMMA NewCompiles ==
  ASSUME EpContextAssumption, NEW s, NEW o \in CompileOptions, NEW fs, NEW st
  PROVE  Compiles(s, NewCompile(o), fs, st)
<1> DEFINE r == NewCompile(o)
<1>1. Has(r, CompileFields)
  BY DEF Has, CompileFields, NewCompile
<1>2. /\ r.pc = "prepare" /\ r.opt = o /\ r.at = 1 /\ r.out = Nowhere /\ r.open = FALSE /\ r.preserved = FALSE
      /\ r.bytes = NoFile /\ r.exported = <<>>
  BY DEF NewCompile
<1>3. 1 \in DOMAIN Nodes
  BY LenProperties, EmptySeq DEF EpContextAssumption
<1> HIDE DEF r
<1>4. CompileTypes(r)
  BY <1>1, <1>2, <1>3, NoneYet DEF CompileTypes, CompilePcs
<1>5. OutputPlaced(s, r)
  BY <1>2 DEF OutputPlaced, Nowhere, InMemory, Cached, Scratch
<1>6. OutputHeld(r, fs) /\ OutputKept(s, r, fs) /\ CapturedFrom(r)
  BY <1>2 DEF OutputHeld, OutputKept, CapturedFrom
<1>7. ExportsOK(s, r, fs, st)
  BY <1>2, NoneYet DEF ExportsOK
<1> QED
  BY <1>4, <1>5, <1>6, <1>7 DEF Compiles, HelperOK, r

\* A compile that fails.
LEMMA FailsCompiling ==
  ASSUME NEW s, NEW r, NEW fs, NEW st, NEW su, Compiles(s, r, fs, st), r.pc # "failed"
  PROVE  Compiles(s, [r EXCEPT !.pc = "unwind"], fs, su)
<1> PICK z : z = [r EXCEPT !.pc = "unwind"]
  OBVIOUS
<1> USE DEF Compiles, HelperOK
<1>1. /\ Has(z, CompileFields) /\ z.pc = "unwind" /\ z.opt = r.opt /\ z.at = r.at /\ z.out = r.out
      /\ z.open = r.open /\ z.preserved = r.preserved /\ z.bytes = r.bytes /\ z.exported = r.exported
  BY DEF CompileTypes, Has, CompileFields
<1>2. Of(z) = Of(r) /\ Built(z) = Built(r)
  BY <1>1 DEF Of, Built
<1>3. CompileTypes(z)
  BY <1>1 DEF CompileTypes, CompilePcs
<1>4. OutputPlaced(s, z)
  BY <1>1, <1>2 DEF OutputPlaced
<1>5. OutputHeld(z, fs) /\ OutputKept(s, z, fs) /\ CapturedFrom(z)
  BY <1>1, <1>2 DEF OutputHeld, OutputKept, CapturedFrom
<1>6. ExportsOK(s, z, fs, su)
  BY <1>1 DEF ExportsOK
<1> QED
  BY <1>3, <1>4, <1>5, <1>6

Early == {"prepare", "open", "build", "finalize", "deserialize", "export"}

\* The files of the nodes exported before are not those of the node in progress.
LEMMA PastKept ==
  ASSUME EpContextAssumption, OwnDirectories, NEW s \in Sessions, NEW r, NEW fs, NEW st, NEW gs, NEW su,
         Compiles(s, r, fs, st), r.pc \in Early, NEW path, path \in {Cached(s, Of(r)), Scratch(s, Of(r))},
         SameBut(path, fs, gs), SameBut(Cached(s, Of(r)), st, su)
  PROVE  \A m \in ToSet(r.exported) : m.node # Of(r) /\ Found(m, gs, su) = Found(m, fs, st)
<1> SUFFICES ASSUME NEW m \in ToSet(r.exported)
             PROVE  m.node # Of(r) /\ Found(m, gs, su) = Found(m, fs, st)
  OBVIOUS
<1>1. ExportOK(s, r, m, fs, st)
  BY DEF Compiles, ExportsOK, Early
<1>2. m.node # Of(r)
  <2>1. /\ DOMAIN Nodes = 1 .. Len(Nodes) /\ Len(Nodes) \in Nat /\ r.at \in 1 .. Len(Nodes)
        /\ \A i, j \in DOMAIN Nodes : Nodes[i] = Nodes[j] => i = j
    BY BuiltIsSomething DEF Compiles, HelperOK, EpContextAssumption
  <2>2. PICK k \in 1 .. (r.at - 1) : m.node = Nodes[k]
    BY <1>1 DEF ExportOK, Past, Early
  <2> QED
    BY <2>1, <2>2 DEF Of
<1>3. ~m.embed => m.path # path /\ m.path # Cached(s, Of(r))
  BY <1>1, <1>2, PathsApart DEF ExportOK
<1>4. Found(m, gs, su) = Found(m, fs, st)
  BY <1>3 DEF Found, SameBut
<1> QED
  BY <1>2, <1>4

\* What was exported stays so while the record moves on.
LEMMA ExportsStay ==
  ASSUME NEW s, NEW r, NEW z, NEW fs, NEW st, NEW gs, NEW su,
         ExportsOK(s, r, fs, st), r.pc \notin {"unwind", "failed", "crashed"},
         z.opt = r.opt, z.exported = r.exported, Past(r) \subseteq Past(z),
         \A m \in ToSet(r.exported) : Found(m, gs, su) = Found(m, fs, st)
  PROVE  ExportsOK(s, z, gs, su)
BY DEF ExportsOK, ExportOK

\* Fields that a step leaves as they are.
SameWork(r, z) ==
  z.opt = r.opt /\ z.at = r.at /\ z.preserved = r.preserved /\ z.exported = r.exported

\* The parse.
LEMMA Parses ==
  ASSUME EpContextAssumption, OwnDirectories, NEW s \in Sessions, NEW r, NEW fs, NEW st, Compiles(s, r, fs, st),
         r.pc = "prepare", NEW c, NEW m, NEW b,
         c \in IF r.opt.stripped THEN {NodeInfo[Of(r)].records, Corrupt} ELSE {<<>>}
  PROVE  Compiles(s, [r EXCEPT !.pc = "open", !.captured = c, !.maps = m, !.built = b], fs, st)
<1> PICK z : z = [r EXCEPT !.pc = "open", !.captured = c, !.maps = m, !.built = b]
  OBVIOUS
<1>1. /\ Has(z, CompileFields) /\ z.pc = "open" /\ SameWork(r, z) /\ z.out = r.out /\ z.open = r.open
      /\ z.bytes = r.bytes /\ z.captured = c
  BY DEF Compiles, HelperOK, CompileTypes, Has, CompileFields, SameWork
<1> USE DEF SameWork
<1>2. Of(z) = Of(r) /\ Built(z) = Built(r) /\ Past(z) = Past(r)
  BY <1>1 DEF Of, Built, Past
<1>3. CompileTypes(z)
  BY <1>1 DEF Compiles, HelperOK, CompileTypes, CompilePcs
<1>4. OutputPlaced(s, z) /\ OutputHeld(z, fs) /\ OutputKept(s, z, fs) /\ CapturedFrom(z)
  BY <1>1, <1>2 DEF Compiles, HelperOK, OutputPlaced, OutputHeld, OutputKept, CapturedFrom
<1>5. ExportsOK(s, z, fs, st)
  <2>1. /\ ExportsOK(s, r, fs, st) /\ r.pc \notin {"unwind", "failed", "crashed"}
        /\ z.opt = r.opt /\ z.exported = r.exported /\ Past(r) \subseteq Past(z)
    BY <1>1, <1>2 DEF Compiles
  <2> QED
    BY ONLY <2>1, ExportsStay
<1> QED
  BY <1>3, <1>4, <1>5 DEF Compiles, HelperOK

\* The output is opened, or will be in memory.
LEMMA OpensOutput ==
  ASSUME EpContextAssumption, OwnDirectories, NEW s \in Sessions, NEW r, NEW fs, NEW st, Compiles(s, r, fs, st),
         r.pc = "open", NEW path, NEW gs, NEW b, NEW o \in BOOLEAN,
         \/ path = Cached(s, Of(r)) /\ StreamsToCache(r.opt) /\ gs \in {fs, Written(fs, path, b)}
         \/ path = Scratch(s, Of(r)) /\ ~StreamsToCache(r.opt) /\ gs = Written(fs, path, b)
         \/ path = InMemory /\ ~StreamsToCache(r.opt) /\ gs = fs
  PROVE  Compiles(s, [r EXCEPT !.out = path, !.open = o, !.pc = "build"], gs, st)
<1> PICK z : z = [r EXCEPT !.out = path, !.open = o, !.pc = "build"]
  OBVIOUS
<1>1. /\ Has(z, CompileFields) /\ z.pc = "build" /\ SameWork(r, z) /\ z.out = path /\ z.open = o
      /\ z.bytes = r.bytes /\ z.captured = r.captured
  BY DEF Compiles, HelperOK, CompileTypes, Has, CompileFields, SameWork
<1> USE DEF SameWork
<1>2. Of(z) = Of(r) /\ Built(z) = Built(r) /\ Past(z) = Past(r)
  BY <1>1 DEF Of, Built, Past
<1>3. CompileTypes(z)
  BY <1>1 DEF Compiles, HelperOK, CompileTypes, CompilePcs
<1>4. OutputPlaced(s, z)
  BY <1>1, <1>2, PathsApart DEF OutputPlaced
<1>5. OutputHeld(z, gs) /\ OutputKept(s, z, gs) /\ CapturedFrom(z)
  BY <1>1, <1>2 DEF Compiles, HelperOK, OutputHeld, OutputKept, CapturedFrom
<1>6. \A m \in ToSet(r.exported) : Found(m, gs, st) = Found(m, fs, st)
  <2>1. CASE gs = fs
    BY <2>1
  <2>2. CASE gs = Written(fs, path, b) /\ path \in {Cached(s, Of(r)), Scratch(s, Of(r))}
    <3>1. SameBut(path, fs, gs)
      BY <2>2, FileWritten
    <3>2. SameBut(Cached(s, Of(r)), st, st) /\ r.pc \in Early
      BY DEF SameBut, Early
    <3> QED
      BY <2>2, <3>1, <3>2, PastKept
  <2> QED
    BY <2>1, <2>2
<1>7. ExportsOK(s, z, gs, st)
  <2>1. /\ ExportsOK(s, r, fs, st) /\ r.pc \notin {"unwind", "failed", "crashed"}
        /\ z.opt = r.opt /\ z.exported = r.exported /\ Past(r) \subseteq Past(z)
    BY <1>1, <1>2 DEF Compiles
  <2> QED
    BY ONLY <2>1, <1>6, ExportsStay
<1> QED
  BY <1>3, <1>4, <1>5, <1>7 DEF Compiles, HelperOK

\* The engine is built into memory or into the open file.
LEMMA Builds ==
  ASSUME EpContextAssumption, OwnDirectories, NEW s \in Sessions, NEW r, NEW fs, NEW st, Compiles(s, r, fs, st),
         r.pc = "build", NEW gs, NEW z,
         \/ r.out = InMemory /\ gs = fs /\ z = [r EXCEPT !.bytes = Built(r), !.pc = "finalize"]
         \/ r.out # InMemory /\ gs = Written(fs, r.out, Built(r)) /\ z = [r EXCEPT !.pc = "finalize"]
  PROVE  Compiles(s, z, gs, st)
<1> USE DEF SameWork
<1>1. /\ Has(z, CompileFields) /\ z.pc = "finalize" /\ SameWork(r, z) /\ z.out = r.out /\ z.open = r.open
      /\ z.bytes = (IF r.out = InMemory THEN Built(r) ELSE r.bytes) /\ z.captured = r.captured
  BY DEF Compiles, HelperOK, CompileTypes, Has, CompileFields
<1>2. Of(z) = Of(r) /\ Built(z) = Built(r) /\ Past(z) = Past(r)
  BY <1>1 DEF Of, Built, Past
<1>3. CompileTypes(z)
  BY <1>1 DEF Compiles, HelperOK, CompileTypes, CompilePcs
<1>4. OutputPlaced(s, z)
  BY <1>1, <1>2 DEF Compiles, HelperOK, OutputPlaced
<1>5. r.bytes = NoFile /\ Built(r) # NoFile
  BY BuiltIsSomething DEF Compiles, HelperOK, OutputHeld
<1>6. r.out # InMemory => r.out \in {Cached(s, Of(r)), Scratch(s, Of(r))}
  BY DEF Compiles, HelperOK, OutputPlaced
<1>7. Held(z, gs) = Built(z) /\ (z.out # InMemory => z.out \in DOMAIN gs /\ gs[z.out] = Built(z))
  <2>1. CASE r.out = InMemory
    BY <1>1, <1>2, <1>5, <2>1 DEF Held
  <2>2. CASE r.out # InMemory /\ gs = Written(fs, r.out, Built(r))
    <3>1. r.out \in DOMAIN gs /\ gs[r.out] = Built(r)
      BY <2>2 DEF Written
    <3> QED
      BY <1>1, <1>2, <1>5, <2>2, <3>1 DEF Held
  <2> QED
    BY <2>1, <2>2
<1>8. OutputHeld(z, gs) /\ OutputKept(s, z, gs) /\ CapturedFrom(z)
  BY <1>1, <1>2, <1>5, <1>7 DEF Compiles, HelperOK, OutputHeld, OutputKept, CapturedFrom
<1>9. \A m \in ToSet(r.exported) : Found(m, gs, st) = Found(m, fs, st)
  <2>1. CASE gs = fs
    BY <2>1
  <2>2. CASE r.out # InMemory /\ gs = Written(fs, r.out, Built(r))
    <3>1. SameBut(r.out, fs, gs)
      BY <2>2, FileWritten
    <3>2. SameBut(Cached(s, Of(r)), st, st) /\ r.pc \in Early
      BY DEF SameBut, Early
    <3> QED
      BY <1>6, <2>2, <3>1, <3>2, PastKept
  <2> QED
    BY <2>1, <2>2
<1>10. ExportsOK(s, z, gs, st)
  BY <1>1, <1>2, <1>9, ExportsStay DEF Compiles
<1> QED
  BY <1>3, <1>4, <1>8, <1>10 DEF Compiles, HelperOK

\* The output is checked, then deserialized or not.
LEMMA Finalizes ==
  ASSUME EpContextAssumption, NEW s, NEW r, NEW fs, NEW st, Compiles(s, r, fs, st),
         r.pc = "finalize", NEW pc \in {"export", "deserialize"}
  PROVE  Compiles(s, [r EXCEPT !.pc = pc], fs, st)
<1> PICK z : z = [r EXCEPT !.pc = pc]
  OBVIOUS
<1> USE DEF SameWork
<1>1. /\ Has(z, CompileFields) /\ z.pc = pc /\ SameWork(r, z) /\ z.out = r.out /\ z.open = r.open
      /\ z.bytes = r.bytes /\ z.captured = r.captured
  BY DEF Compiles, HelperOK, CompileTypes, Has, CompileFields
<1>2. Of(z) = Of(r) /\ Built(z) = Built(r) /\ Past(z) = Past(r)
  BY <1>1 DEF Of, Built, Past
<1>3. CompileTypes(z)
  BY <1>1 DEF Compiles, HelperOK, CompileTypes, CompilePcs
<1>4. OutputPlaced(s, z) /\ OutputHeld(z, fs) /\ OutputKept(s, z, fs) /\ CapturedFrom(z)
  BY <1>1, <1>2 DEF Compiles, HelperOK, OutputPlaced, OutputHeld, OutputKept, CapturedFrom, Held
<1>5. ExportsOK(s, z, fs, st)
  BY <1>1, <1>2, ExportsStay DEF Compiles
<1> QED
  BY <1>3, <1>4, <1>5 DEF Compiles, HelperOK

\* The session's own engine.
LEMMA DeserializesBuilt ==
  ASSUME EpContextAssumption, NEW s, NEW r, NEW fs, NEW st, Compiles(s, r, fs, st),
         r.pc = "deserialize", NEW e, NEW w
  PROVE  Compiles(s, [r EXCEPT !.bytes = Held(r, fs), !.engine = e, !.memory = w, !.pc = "export"], fs, st)
<1> PICK z : z = [r EXCEPT !.bytes = Held(r, fs), !.engine = e, !.memory = w, !.pc = "export"]
  OBVIOUS
<1> USE DEF SameWork
<1>1. /\ Has(z, CompileFields) /\ z.pc = "export" /\ SameWork(r, z) /\ z.out = r.out /\ z.open = r.open
      /\ z.bytes = Held(r, fs) /\ z.captured = r.captured
  BY DEF Compiles, HelperOK, CompileTypes, Has, CompileFields
<1>2. Of(z) = Of(r) /\ Built(z) = Built(r) /\ Past(z) = Past(r)
  BY <1>1 DEF Of, Built, Past
<1>3. CompileTypes(z)
  BY <1>1 DEF Compiles, HelperOK, CompileTypes, CompilePcs
<1>4. Held(r, fs) = Built(r) /\ Built(r) # NoFile
  BY BuiltIsSomething DEF Compiles, HelperOK, OutputHeld
<1>5. Held(z, fs) = Built(z)
  BY <1>1, <1>2, <1>4 DEF Held
<1>6. OutputPlaced(s, z) /\ OutputHeld(z, fs) /\ OutputKept(s, z, fs) /\ CapturedFrom(z)
  BY <1>1, <1>2, <1>4, <1>5 DEF Compiles, HelperOK, OutputPlaced, OutputHeld, OutputKept, CapturedFrom
<1>7. ExportsOK(s, z, fs, st)
  <2>1. /\ ExportsOK(s, r, fs, st) /\ r.pc \notin {"unwind", "failed", "crashed"}
        /\ z.opt = r.opt /\ z.exported = r.exported /\ Past(r) \subseteq Past(z)
    BY <1>1, <1>2 DEF Compiles
  <2> QED
    BY ONLY <2>1, ExportsStay
<1> QED
  BY <1>3, <1>6, <1>7 DEF Compiles, HelperOK

\* The context of a running session is made.
LEMMA EndsContext ==
  ASSUME EpContextAssumption, NEW s, NEW r, NEW fs, NEW st, Compiles(s, r, fs, st), r.pc = "context"
  PROVE  Compiles(s, [r EXCEPT !.pc = "end"], fs, st)
<1> PICK z : z = [r EXCEPT !.pc = "end"]
  OBVIOUS
<1> USE DEF SameWork
<1>1. /\ Has(z, CompileFields) /\ z.pc = "end" /\ SameWork(r, z) /\ z.out = r.out /\ z.open = r.open
      /\ z.bytes = r.bytes /\ z.captured = r.captured
  BY DEF Compiles, HelperOK, CompileTypes, Has, CompileFields
<1>2. Of(z) = Of(r) /\ Built(z) = Built(r) /\ Past(z) = Past(r)
  BY <1>1 DEF Of, Built, Past
<1>3. CompileTypes(z)
  BY <1>1 DEF Compiles, HelperOK, CompileTypes, CompilePcs
<1>4. OutputPlaced(s, z) /\ OutputHeld(z, fs) /\ OutputKept(s, z, fs) /\ CapturedFrom(z)
  BY <1>1, <1>2 DEF Compiles, HelperOK, OutputPlaced, OutputHeld, OutputKept, CapturedFrom, Held
<1>5. ExportsOK(s, z, fs, st)
  BY <1>1, <1>2, ExportsStay DEF Compiles
<1> QED
  BY <1>3, <1>4, <1>5 DEF Compiles, HelperOK

\* A session that does not dump exports nothing.
LEMMA SkipsExport ==
  ASSUME EpContextAssumption, NEW s, NEW r, NEW fs, NEW st, Compiles(s, r, fs, st),
         r.pc = "export", ~r.opt.dump, NEW pc \in {"end", "context"}
  PROVE  Compiles(s, [r EXCEPT !.pc = pc], fs, st)
<1> PICK z : z = [r EXCEPT !.pc = pc]
  OBVIOUS
<1> USE DEF SameWork
<1>1. /\ Has(z, CompileFields) /\ z.pc = pc /\ SameWork(r, z) /\ z.out = r.out /\ z.open = r.open
      /\ z.bytes = r.bytes /\ z.captured = r.captured
  BY DEF Compiles, HelperOK, CompileTypes, Has, CompileFields
<1>2. Of(z) = Of(r) /\ Built(z) = Built(r) /\ Past(r) \subseteq Past(z) /\ ~StreamsToCache(r.opt)
  BY <1>1 DEF Of, Built, Past, StreamsToCache
<1>3. CompileTypes(z)
  BY <1>1 DEF Compiles, HelperOK, CompileTypes, CompilePcs
<1>4. OutputPlaced(s, z) /\ OutputHeld(z, fs) /\ OutputKept(s, z, fs) /\ CapturedFrom(z)
  BY <1>1, <1>2 DEF Compiles, HelperOK, OutputPlaced, OutputHeld, OutputKept, CapturedFrom, Held
<1>5. ExportsOK(s, z, fs, st)
  BY <1>1, <1>2, ExportsStay DEF Compiles
<1> QED
  BY <1>3, <1>4, <1>5 DEF Compiles, HelperOK

\* The next node, or the end of the call.
LEMMA EndsNode ==
  ASSUME EpContextAssumption, OwnDirectories, NEW s \in Sessions, NEW r, NEW fs, NEW st, Compiles(s, r, fs, st),
         r.pc = "end", NEW gs, NEW z,
         gs = IF r.out \notin {Nowhere, InMemory} /\ ~r.preserved THEN Removed(fs, r.out) ELSE fs,
         z = [r EXCEPT !.pc = IF r.at = Len(Nodes) THEN "publish" ELSE "prepare",
                       !.at = IF @ = Len(Nodes) THEN @ ELSE @ + 1,
                       !.out = Nowhere, !.open = FALSE, !.preserved = FALSE,
                       !.bytes = NoFile, !.engine = NoEngine, !.memory = <<>>]
  PROVE  Compiles(s, z, gs, st) /\ KeptBy(s, fs, gs)
<1> DEFINE last == r.at = Len(Nodes)
<1>1. /\ Has(z, CompileFields) /\ z.pc = (IF last THEN "publish" ELSE "prepare") /\ z.opt = r.opt
      /\ z.at = (IF last THEN r.at ELSE r.at + 1) /\ z.out = Nowhere /\ z.open = FALSE /\ z.preserved = FALSE
      /\ z.exported = r.exported /\ z.bytes = NoFile
  BY DEF Compiles, HelperOK, CompileTypes, Has, CompileFields
<1>2. DOMAIN Nodes = 1 .. Len(Nodes) /\ r.at \in 1 .. Len(Nodes) /\ Len(Nodes) \in Nat
  BY BuiltIsSomething DEF Compiles, HelperOK
<1>3. CompileTypes(z)
  BY <1>1, <1>2 DEF Compiles, HelperOK, CompileTypes, CompilePcs
<1>4. OutputPlaced(s, z) /\ OutputHeld(z, gs) /\ OutputKept(s, z, gs) /\ CapturedFrom(z)
  BY <1>1, PathsApart DEF OutputPlaced, OutputHeld, OutputKept, CapturedFrom
<1>5. Past(r) \subseteq Past(z)
  <2>1. CASE last
    BY <1>1, <2>1 DEF Past, Of
  <2>2. CASE ~last
    <3>1. 1 .. (z.at - 1) = 1 .. r.at /\ r.at \in 1 .. r.at /\ 1 .. (r.at - 1) \subseteq 1 .. r.at
      BY <1>1, <1>2, <2>2
    <3> QED
      BY <3>1 DEF Past, Of
  <2> QED
    BY <2>1, <2>2
<1> HIDE DEF last
<1>8. /\ ExportsOK(s, r, fs, st) /\ r.pc \notin {"unwind", "failed", "crashed"}
      /\ z.opt = r.opt /\ z.exported = r.exported
  BY <1>1 DEF Compiles
<1>6. CASE gs = fs
  <2>1. ExportsOK(s, z, gs, st)
    BY ONLY <1>5, <1>6, <1>8, ExportsStay
  <2>2. KeptBy(s, fs, gs)
    BY <1>6 DEF KeptBy
  <2> QED
    BY <1>3, <1>4, <2>1, <2>2 DEF Compiles, HelperOK
<1>7. CASE r.out \notin {Nowhere, InMemory} /\ ~r.preserved /\ gs = Removed(fs, r.out)
  <2>1. r.out = Scratch(s, Of(r))
    BY <1>7 DEF Compiles, HelperOK, OutputPlaced, OutputKept
  <2>2. SameBut(r.out, fs, gs)
    BY <1>7, FileRemoved
  <2>3. KeptBy(s, fs, gs)
    BY <2>1, <2>2, OwnFile
  <2>4. ASSUME NEW m \in ToSet(r.exported) PROVE Found(m, gs, st) = Found(m, fs, st)
    <3>1. ~m.embed => m.path = Cached(s, m.node)
      BY <1>1 DEF Compiles, ExportsOK, ExportOK
    <3>2. ~m.embed => m.path # r.out
      BY <2>1, <3>1, PathsApart
    <3> QED
      BY <2>2, <3>2 DEF SameBut, Found
  <2>5. ExportsOK(s, z, gs, st)
    BY ONLY <1>5, <1>8, <2>4, ExportsStay
  <2> QED
    BY <1>3, <1>4, <2>3, <2>5 DEF Compiles, HelperOK
<1> QED
  BY <1>6, <1>7

\* The helper of a node that failed is destroyed.
LEMMA Unwinding ==
  ASSUME EpContextAssumption, OwnDirectories, NEW s \in Sessions, NEW r, NEW fs, NEW st, Compiles(s, r, fs, st),
         r.pc = "unwind", NEW gs, NEW z,
         gs = IF r.out \notin {Nowhere, InMemory} /\ ~r.preserved THEN Removed(fs, r.out) ELSE fs,
         z = [r EXCEPT !.pc = "failed", !.out = Nowhere, !.exported = <<>>]
  PROVE  Compiles(s, z, gs, st) /\ KeptBy(s, fs, gs)
<1>1. /\ Has(z, CompileFields) /\ z.pc = "failed" /\ z.opt = r.opt /\ z.at = r.at
      /\ z.out = Nowhere /\ z.open = r.open /\ z.preserved = r.preserved
      /\ z.exported = <<>> /\ z.bytes = r.bytes
  BY DEF Compiles, HelperOK, CompileTypes, Has, CompileFields
<1>2. Of(z) = Of(r) /\ Built(z) = Built(r)
  BY <1>1 DEF Of, Built
<1>3. CompileTypes(z)
  BY <1>1, NoneYet DEF Compiles, HelperOK, CompileTypes, CompilePcs
<1>4. OutputPlaced(s, z)
  BY <1>1, PathsApart DEF OutputPlaced
<1>5. OutputHeld(z, gs) /\ OutputKept(s, z, gs) /\ CapturedFrom(z)
  BY <1>1, <1>2 DEF Compiles, HelperOK, OutputHeld, OutputKept, CapturedFrom
<1>6. ExportsOK(s, z, gs, st)
  BY <1>1 DEF ExportsOK
<1>7. KeptBy(s, fs, gs)
  <2>1. CASE gs = fs
    BY <2>1 DEF KeptBy
  <2>2. CASE r.out \notin {Nowhere, InMemory} /\ gs = Removed(fs, r.out)
    <3>1. SameBut(r.out, fs, gs)
      BY <2>2, FileRemoved
    <3>2. r.out \in {Cached(s, Of(r)), Scratch(s, Of(r))}
      BY <2>2 DEF Compiles, HelperOK, OutputPlaced
    <3> QED
      BY <3>1, <3>2, OwnFile
  <2> QED
    BY <2>1, <2>2
<1> QED
  BY <1>3, <1>4, <1>5, <1>6, <1>7 DEF Compiles, HelperOK

\* The context model is written.
LEMMA Publishes ==
  ASSUME EpContextAssumption, NEW s, NEW r, NEW fs, NEW st, Compiles(s, r, fs, st), r.pc = "publish"
  PROVE  Compiles(s, [r EXCEPT !.pc = "compiled"], fs, st)
<1> PICK z : z = [r EXCEPT !.pc = "compiled"]
  OBVIOUS
<1> USE DEF SameWork
<1>1. /\ Has(z, CompileFields) /\ z.pc = "compiled" /\ SameWork(r, z) /\ z.out = r.out /\ z.open = r.open
      /\ z.bytes = r.bytes /\ z.captured = r.captured
  BY DEF Compiles, HelperOK, CompileTypes, Has, CompileFields
<1>2. Of(z) = Of(r) /\ Built(z) = Built(r) /\ Past(z) = Past(r)
  BY <1>1 DEF Of, Built, Past
<1>3. CompileTypes(z)
  BY <1>1 DEF Compiles, HelperOK, CompileTypes, CompilePcs
<1>4. OutputPlaced(s, z) /\ OutputHeld(z, fs) /\ OutputKept(s, z, fs) /\ CapturedFrom(z)
  BY <1>1, <1>2 DEF Compiles, HelperOK, OutputPlaced, OutputHeld, OutputKept, CapturedFrom, Held
<1>5. ExportsOK(s, z, fs, st)
  BY <1>1, <1>2, ExportsStay DEF Compiles
<1> QED
  BY <1>3, <1>4, <1>5 DEF Compiles, HelperOK

-----------------------------------------------------------------------------
(* Loops over 0 .. N, and what Picked returns *)

\* A recursive function over 0 .. N exists.
LEMMA LoopRecursion ==
  ASSUME NEW N \in Nat, NEW V, NEW b \in V, NEW G, Transforms(G, 1 .. N, V)
  PROVE  \E f \in [0 .. N -> V] : Proceeds(f, N, b, G)
<1> DEFINE A == [n \in Nat |-> IF n + 1 \in 1 .. N THEN G[n + 1] ELSE [v \in V |-> v]]
<1>1. Transforms(A, Nat, V)
  <2> SUFFICES ASSUME NEW n \in Nat, NEW v \in V PROVE A[n][v] \in V
    BY DEF Transforms
  <2>1. CASE n + 1 \in 1 .. N
    BY <2>1 DEF Transforms
  <2>2. CASE n + 1 \notin 1 .. N
    BY <2>2
  <2> QED
    BY <2>1, <2>2
<1>2. PICK g \in [Nat -> V] : Iterates(g, b, A)
  <2> HIDE DEF A
  <2> QED
    BY <1>1, NumberRecursion
<1> DEFINE f == [n \in 0 .. N |-> g[n]]
<1>3. f \in [0 .. N -> V] /\ f[0] = b
  BY <1>2 DEF Iterates
<1>4. ASSUME NEW i \in 1 .. N PROVE f[i] = G[i][f[i - 1]]
  <2>1. i - 1 \in Nat /\ i - 1 \in 0 .. N /\ i \in 0 .. N /\ (i - 1) + 1 = i
    OBVIOUS
  <2>2. g[(i - 1) + 1] = A[i - 1][g[i - 1]]
    BY <1>2, <2>1 DEF Iterates
  <2>3. A[i - 1] = G[i]
    BY <2>1
  <2> QED
    BY <2>1, <2>2, <2>3
<1> QED
  BY <1>3, <1>4 DEF Proceeds

\* Counting up to N.
LEMMA UpTo ==
  ASSUME NEW N \in Nat, NEW T, 0 \in T, \A n \in 1 .. N : n - 1 \in T => n \in T
  PROVE  \A n \in 0 .. N : n \in T
<1> DEFINE S == {n \in Nat : n <= N => n \in T}
<1>1. 0 \in S
  OBVIOUS
<1>2. ASSUME NEW n \in S PROVE n + 1 \in S
  <2>1. CASE n + 1 <= N
    <3>1. n + 1 \in 1 .. N /\ (n + 1) - 1 = n /\ n \in T
      BY <2>1
    <3> QED
      BY <3>1
  <2> QED
    BY <2>1
<1>3. S = Nat
  <2>1. S \subseteq Nat
    OBVIOUS
  <2> HIDE DEF S
  <2> QED
    BY <1>1, <1>2, <2>1, NumberInduction
<1> QED
  BY <1>3

\* A sequence over E is one over what it holds.
LEMMA SeqHolds ==
  ASSUME NEW E, NEW q \in Seq(E)
  PROVE  IsSeq(q) /\ ToSet(q) \subseteq E /\ DOMAIN q = 1 .. Len(q) /\ Len(q) \in Nat
<1>1. Len(q) \in Nat /\ DOMAIN q = 1 .. Len(q) /\ q \in [1 .. Len(q) -> E]
  BY LenProperties
<1>2. ToSet(q) \subseteq E
  BY <1>1 DEF ToSet
<1>3. q \in [1 .. Len(q) -> ToSet(q)]
  BY <1>1 DEF ToSet
<1>4. q \in Seq(ToSet(q))
  BY <1>1, <1>3, SeqDef
<1> QED
  BY <1>1, <1>2, <1>4 DEF IsSeq

\* Picked goes through the records one by one.
LEMMA PickedStepwise ==
  ASSUME NEW E, NEW records \in Seq(E), NEW keep
  PROVE  \E it \in [0 .. Len(records) -> Seq(E)] :
            /\ it[0] = <<>> /\ it[Len(records)] = Picked(records, keep)
            /\ \A n \in 1 .. Len(records) :
                  it[n] = IF n \in keep THEN Append(it[n - 1], records[n]) ELSE it[n - 1]
<1> DEFINE N == Len(records)
           Turn(it) == [n \in 0 .. N |-> IF n = 0 THEN <<>>
                                         ELSE IF n \in keep THEN Append(it[n - 1], records[n])
                                         ELSE it[n - 1]]
           iter == CHOOSE it : it = Turn(it)
<1>1. Picked(records, keep) = iter[N]
  BY DEF Picked
<1>2. N \in Nat /\ \A n \in 1 .. N : records[n] \in E
  BY ElementOfSeq, LenProperties
<1>3. \E it : it = Turn(it)
  <2> DEFINE G == [n \in 1 .. N |-> [v \in Seq(E) |-> IF n \in keep THEN Append(v, records[n]) ELSE v]]
  <2>1. Transforms(G, 1 .. N, Seq(E))
    BY <1>2, AppendProperties DEF Transforms
  <2>2. <<>> \in Seq(E)
    BY EmptySeq
  <2>3. PICK it \in [0 .. N -> Seq(E)] : Proceeds(it, N, <<>>, G)
    <3> HIDE DEF G, N
    <3> QED
      BY <1>2, <2>1, <2>2, LoopRecursion
  <2>4. ASSUME NEW n \in 0 .. N PROVE it[n] = Turn(it)[n]
    <3>1. CASE n = 0
      BY <2>3, <3>1 DEF Proceeds
    <3>2. CASE n # 0
      <4>1. n \in 1 .. N /\ it[n - 1] \in Seq(E)
        BY <1>2, <3>2
      <4>2. it[n] = G[n][it[n - 1]]
        BY <2>3, <4>1 DEF Proceeds
      <4> QED
        BY <3>2, <4>1, <4>2
    <3> QED
      BY <3>1, <3>2
  <2> QED
    BY <2>4
<1>4. iter = Turn(iter)
  <2> HIDE DEF Turn
  <2> QED
    BY <1>3
<1> HIDE DEF iter
<1>5. iter[0] = <<>> /\ DOMAIN iter = 0 .. N /\ iter = [n \in 0 .. N |-> iter[n]]
  BY <1>2, <1>4
<1>6. ASSUME NEW n \in 1 .. N
      PROVE  iter[n] = IF n \in keep THEN Append(iter[n - 1], records[n]) ELSE iter[n - 1]
  <2>1. n \in 0 .. N /\ n # 0
    BY <1>2
  <2>2. iter[n] = Turn(iter)[n]
    BY <1>4
  <2> HIDE DEF N
  <2> QED
    BY <2>1, <2>2
<1> DEFINE T == {n \in 0 .. N : iter[n] \in Seq(E)}
<1>7. \A n \in 0 .. N : n \in T
  <2>1. 0 \in T
    BY <1>2, <1>5, EmptySeq
  <2>2. ASSUME NEW n \in 1 .. N, n - 1 \in T PROVE n \in T
    <3>1. iter[n - 1] \in Seq(E) /\ records[n] \in E /\ n \in 0 .. N
      BY <1>2, <2>2
    <3>2. Append(iter[n - 1], records[n]) \in Seq(E)
      BY <3>1, AppendProperties
    <3> QED
      BY <1>6, <3>1, <3>2
  <2> HIDE DEF T, N
  <2> QED
    BY <1>2, <2>1, <2>2, UpTo
<1> HIDE DEF N
<1>8. iter \in [0 .. N -> Seq(E)]
  BY <1>5, <1>7
<1> QED
  BY <1>1, <1>5, <1>6, <1>8 DEF N

\* What it returns holds the records at the places to keep, and no others, in
\* a sequence; when all are to be kept it is what it was given.
LEMMA PickedIs ==
  ASSUME NEW E, NEW records \in Seq(E), NEW keep
  PROVE  /\ Picked(records, keep) \in Seq(E)
         /\ ToSet(Picked(records, keep)) = {records[i] : i \in (1 .. Len(records)) \cap keep}
         /\ 1 .. Len(records) \subseteq keep => Picked(records, keep) = records
<1> DEFINE N == Len(records)
<1>1. PICK it \in [0 .. N -> Seq(E)] :
            /\ it[0] = <<>> /\ it[N] = Picked(records, keep)
            /\ \A n \in 1 .. N : it[n] = IF n \in keep THEN Append(it[n - 1], records[n]) ELSE it[n - 1]
  BY PickedStepwise
<1>2. N \in Nat /\ \A n \in 1 .. N : records[n] \in E
  BY ElementOfSeq, LenProperties
<1> HIDE DEF N
<1> DEFINE Held2(n) == {records[i] : i \in (1 .. n) \cap keep}
           Whole2(n) == 1 .. n \subseteq keep => Len(it[n]) = n /\ \A i \in 1 .. n : it[n][i] = records[i]
           T == {n \in 0 .. N : ToSet(it[n]) = Held2(n) /\ Whole2(n)}
<1>3. 0 \in T
  <2>1. 1 .. 0 = {}
    OBVIOUS
  <2>2. Held2(0) = {}
    BY <2>1
  <2> QED
    BY <1>1, <1>2, <2>1, <2>2, NoneYet
<1>4. ASSUME NEW n \in 1 .. N, n - 1 \in T PROVE n \in T
  <2>0. n - 1 \in 0 .. N /\ n \in 0 .. N /\ 1 .. n = (1 .. (n - 1)) \cup {n} /\ n \in Int
    BY <1>2
  <2>1. /\ n - 1 \in 0 .. N /\ n \in 0 .. N /\ 1 .. n = (1 .. (n - 1)) \cup {n} /\ n \in Int
        /\ it[n - 1] \in Seq(E) /\ ToSet(it[n - 1]) = Held2(n - 1) /\ Whole2(n - 1)
        /\ it[n] = IF n \in keep THEN Append(it[n - 1], records[n]) ELSE it[n - 1]
    <3> HIDE DEF Held2, Whole2
    <3> QED
      BY <1>1, <1>4, <2>0
  <2>2. CASE n \notin keep
    <3>1. (1 .. n) \cap keep = (1 .. (n - 1)) \cap keep
      BY <2>1, <2>2
    <3>2. ~(1 .. n \subseteq keep)
      BY <2>1, <2>2
    <3> QED
      BY <2>1, <2>2, <3>1, <3>2
  <2>3. CASE n \in keep
    <3>1. IsSeq(it[n - 1])
      BY <2>1, SeqHolds
    <3>2. it[n] = Append(it[n - 1], records[n])
      BY <2>1, <2>3
    <3>3. (1 .. n) \cap keep = ((1 .. (n - 1)) \cap keep) \cup {n}
      BY <2>1, <2>3
    <3>4. ToSet(it[n]) = ToSet(it[n - 1]) \cup {records[n]}
      BY <3>1, <3>2, Appended
    <3>5. ToSet(it[n]) = Held2(n)
      BY <2>1, <3>3, <3>4
    <3>6. Whole2(n)
      <4> SUFFICES ASSUME 1 .. n \subseteq keep
                   PROVE  Len(it[n]) = n /\ \A i \in 1 .. n : it[n][i] = records[i]
        OBVIOUS
      <4>1. Len(it[n - 1]) = n - 1 /\ \A i \in 1 .. (n - 1) : it[n - 1][i] = records[i]
        BY <2>1
      <4>2. /\ Len(it[n]) = (n - 1) + 1 /\ it[n][(n - 1) + 1] = records[n]
            /\ \A i \in 1 .. (n - 1) : it[n][i] = it[n - 1][i]
        <5>1. /\ Len(it[n]) = Len(it[n - 1]) + 1 /\ it[n][Len(it[n - 1]) + 1] = records[n]
              /\ \A i \in 1 .. Len(it[n - 1]) : it[n][i] = it[n - 1][i]
          BY <3>1, <3>2, Appended
        <5> QED
          BY <4>1, <5>1
      <4>3. (n - 1) + 1 = n
        BY <2>1
      <4> QED
        BY <2>1, <4>1, <4>2, <4>3
    <3> QED
      BY <2>1, <3>5, <3>6
  <2> QED
    BY <2>2, <2>3
<1>5. N \in T
  <2>1. \A n \in 0 .. N : n \in T
    <3> HIDE DEF T
    <3> QED
      BY <1>2, <1>3, <1>4, UpTo
  <2>2. N \in 0 .. N
    BY <1>2
  <2> HIDE DEF T
  <2> QED
    BY <2>1, <2>2
<1>6. Picked(records, keep) \in Seq(E)
  BY <1>1, <1>2
<1>7. ToSet(Picked(records, keep)) = {records[i] : i \in (1 .. N) \cap keep}
  BY <1>1, <1>5
<1>8. ASSUME 1 .. N \subseteq keep PROVE Picked(records, keep) = records
  <2>1. Len(Picked(records, keep)) = Len(records) /\ \A i \in 1 .. N : Picked(records, keep)[i] = records[i]
    BY <1>1, <1>5, <1>8 DEF N
  <2> QED
    BY <1>6, <2>1, SeqEqual DEF N
<1> QED
  BY <1>6, <1>7, <1>8 DEF N

-----------------------------------------------------------------------------
(* Exporting *)

\* Nothing picked from nothing.
LEMMA NothingPicked ==
  ASSUME NEW missing
  PROVE  WithoutMissing(<<>>, missing) = <<>>
<1>1. <<>> \in Seq({}) /\ Len(<<>>) = 0 /\ 1 .. Len(<<>>) \subseteq {i \in DOMAIN <<>> :
                        ToSet(<<>>[i].source_onnx_names) \cap missing = {}}
  BY EmptySeq
<1> QED
  BY <1>1, PickedIs DEF WithoutMissing

\* The node that is exported, unless it is refused.
LEMMA ExportedNodeIs ==
  ASSUME EpContextAssumption, NEW s \in Sessions, NEW r, r = sess[s], Compiles(s, r, files, store),
         r.pc = "export", NEW filtered \in MayFilter(s), NEW m, m = ExportedNode(s, filtered),
         ~ExportRefused(s, filtered)
  PROVE  /\ m.node = Of(r) /\ m.safe /\ m.embed = r.opt.embed /\ m.stored = (~r.opt.embed /\ r.opt.callbacks)
         /\ ~m.embed => m.path = Cached(s, Of(r))
         /\ m.embed => m.bytes = Held(r, files)
         /\ IF r.opt.stripped THEN TableOf(m) ELSE m.table = NoTable
<1> DEFINE o == r.opt
           n == Of(r)
           all == NodeInfo[n].records
           recs == IF filtered THEN NeededRecords(n) ELSE all
<1>1. /\ NodeOf(s) = n /\ m.node = n /\ m.safe = TRUE /\ m.embed = o.embed
      /\ m.stored = (~o.embed /\ o.callbacks) /\ m.filtered = filtered
      /\ m.path = (IF o.embed THEN <<>> ELSE Cached(s, n))
      /\ m.bytes = (IF o.embed THEN Held(r, files) ELSE NoFile)
      /\ m.records = ExportedRecords(s, filtered)
      /\ m.inputs = KeptInputs(o, n, RefitRecords(s, filtered))
      /\ m.table = (IF o.stripped \/ m.records # <<>> THEN SerializeWeightlessRefitTable(m.records) ELSE NoTable)
  BY DEF ExportedNode, NodeOf, Of, CachePath, Cached, OutputBytes, Held, Exists
<1>2. r.captured # Corrupt /\ r.captured \in IF o.stripped THEN {all, Corrupt} ELSE {<<>>}
  BY DEF ExportRefused, Compiles, HelperOK, CapturedFrom
<1>3. CASE ~o.stripped
  <2>1. filtered = FALSE /\ r.captured = <<>>
    BY <1>2, <1>3 DEF MayFilter
  <2>2. m.records = <<>>
    BY <1>1, <2>1, NothingPicked DEF ExportedRecords, RefitRecords
  <2> QED
    BY <1>1, <1>3, <2>2
<1>4. CASE o.stripped
  <2>1. r.captured = all /\ filtered \in BOOLEAN
    BY <1>2, <1>4 DEF MayFilter
  <2>2. RefitRecords(s, filtered) = recs
    BY <1>1, <2>1 DEF RefitRecords, NeededRecords
  <2>3. \A q : /\ KeptInputs(o, n, q) = SourceNames(q) \cap NodeInfo[n].kept
               /\ MissingSources(o, n, q) = SourceNames(q) \ (SourceNames(q) \cap NodeInfo[n].kept)
    BY <1>4 DEF KeptInputs, MissingSources, SurvivingInputs
  <2>4. m.records = WithoutMissing(recs, SourceNames(recs) \ (SourceNames(recs) \cap NodeInfo[n].kept))
    <3>1. ExportedRecords(s, filtered) = WithoutMissing(recs, MissingSources(o, n, recs))
      <4> HIDE DEF recs
      <4> QED
        BY <1>1, <2>2 DEF ExportedRecords
    <3> HIDE DEF recs
    <3> QED
      BY <1>1, <2>3, <3>1
  <2>5. m.table # NoTable
    BY <1>4 DEF ExportRefused
  <2>6. filtered => SourceNames(recs) \ (SourceNames(recs) \cap NodeInfo[n].kept) = {}
    <3> SUFFICES ASSUME filtered
                 PROVE  SourceNames(recs) \ (SourceNames(recs) \cap NodeInfo[n].kept) = {}
      OBVIOUS
    <3>1. MissingSources(o, n, RefitRecords(s, filtered)) = {}
      BY <1>1 DEF ExportRefused
    <3> HIDE DEF recs
    <3> QED
      BY <2>2, <2>3, <3>1
  <2>7. m.inputs = SourceNames(recs) \cap NodeInfo[n].kept
    <3> HIDE DEF recs
    <3> QED
      BY <1>1, <2>2, <2>3
  <2>8. TableOf(m)
    BY <1>1, <1>4, <2>4, <2>5, <2>6, <2>7 DEF TableOf
  <2> QED
    BY <1>1, <1>4, <2>8
<1> QED
  BY <1>1, <1>3, <1>4

\* The node is exported.
LEMMA Exports ==
  ASSUME EpContextAssumption, OwnDirectories, NEW s \in Sessions, NEW r, r = sess[s], Compiles(s, r, files, store),
         r.pc = "export", r.opt.dump, NEW filtered \in MayFilter(s), NEW m, m = ExportedNode(s, filtered),
         ~ExportRefused(s, filtered), NEW su,
         su = IF m.stored THEN Written(store, m.path, Held(r, files)) ELSE store,
         NEW z, z = [r EXCEPT !.pc = AfterExport(r.opt), !.exported = Append(@, m),
                              !.preserved = r.out = Cached(s, Of(r))]
  PROVE  Compiles(s, z, files, su)
<1>1. /\ m.node = Of(r) /\ m.safe /\ m.embed = r.opt.embed /\ m.stored = (~r.opt.embed /\ r.opt.callbacks)
      /\ ~m.embed => m.path = Cached(s, Of(r))
      /\ m.embed => m.bytes = Held(r, files)
      /\ IF r.opt.stripped THEN TableOf(m) ELSE m.table = NoTable
  BY ExportedNodeIs
<1>2. /\ Has(z, CompileFields) /\ z.pc \in {"end", "context"} /\ z.opt = r.opt /\ z.at = r.at /\ z.out = r.out
      /\ z.open = r.open /\ z.bytes = r.bytes /\ z.captured = r.captured
      /\ z.preserved = (r.out = Cached(s, Of(r))) /\ z.exported = Append(r.exported, m)
  BY DEF Compiles, HelperOK, CompileTypes, Has, CompileFields, AfterExport
<1>3. Of(z) = Of(r) /\ Built(z) = Built(r) /\ Past(r) \subseteq Past(z) /\ Of(r) \in Past(z)
  BY <1>2 DEF Of, Built, Past
<1>4. IsSeq(z.exported) /\ ToSet(z.exported) = ToSet(r.exported) \cup {m}
  BY <1>2, Appended DEF Compiles, HelperOK, CompileTypes
<1>5. CompileTypes(z)
  BY <1>2, <1>4 DEF Compiles, HelperOK, CompileTypes, CompilePcs
<1>6. OutputPlaced(s, z) /\ OutputHeld(z, files) /\ CapturedFrom(z)
  BY <1>2, <1>3 DEF Compiles, HelperOK, OutputPlaced, OutputHeld, CapturedFrom, Held
<1>7. Held(r, files) = Built(r) /\ Built(r) # NoFile
  BY BuiltIsSomething DEF Compiles, HelperOK, OutputHeld
<1>8. r.out = Cached(s, Of(r)) => r.out \in DOMAIN files /\ files[r.out] = Built(r)
  BY PathsApart DEF Compiles, HelperOK, OutputHeld
<1>9. StreamsToCache(r.opt) => r.out = Cached(s, Of(r))
  BY DEF Compiles, HelperOK, OutputPlaced
<1>10. OutputKept(s, z, files)
  BY <1>2, <1>3, <1>8, <1>9 DEF OutputKept
<1>11. m.stored => SameBut(Cached(s, Of(r)), store, su) /\ Cached(s, Of(r)) \in DOMAIN su
                   /\ su[Cached(s, Of(r))] = Built(r)
  <2> SUFFICES ASSUME m.stored
               PROVE  SameBut(Cached(s, Of(r)), store, su) /\ Cached(s, Of(r)) \in DOMAIN su
                      /\ su[Cached(s, Of(r))] = Built(r)
    OBVIOUS
  <2>1. su = Written(store, Cached(s, Of(r)), Built(r))
    BY <1>1, <1>7
  <2>2. SameBut(Cached(s, Of(r)), store, su)
    BY <2>1, FileWritten
  <2> QED
    BY <2>1, <2>2 DEF Written
<1>12. \A e \in ToSet(r.exported) : ExportOK(s, z, e, files, su)
  <2>1. SameBut(Cached(s, Of(r)), files, files) /\ SameBut(Cached(s, Of(r)), store, su) /\ r.pc \in Early
    BY <1>11 DEF SameBut, Early
  <2>2. \A e \in ToSet(r.exported) : Found(e, files, su) = Found(e, files, store)
    BY <2>1, PastKept
  <2>3. \A e \in ToSet(r.exported) : ExportOK(s, r, e, files, store)
    BY DEF Compiles, ExportsOK
  <2>4. z.opt = r.opt /\ Past(r) \subseteq Past(z)
    BY <1>2, <1>3
  <2> QED
    BY ONLY <2>2, <2>3, <2>4 DEF ExportOK
<1>13. Found(m, files, su) = Built(r)
  <2>1. CASE m.embed
    BY <1>1, <1>7, <2>1 DEF Found
  <2>2. CASE ~m.embed /\ m.stored
    BY <1>1, <1>11, <2>2 DEF Found
  <2>3. CASE ~m.embed /\ ~m.stored
    <3>1. StreamsToCache(r.opt) /\ m.path = Cached(s, Of(r))
      BY <1>1, <2>3 DEF StreamsToCache
    <3> QED
      BY <1>8, <1>9, <2>3, <3>1 DEF Found
  <2> QED
    BY <2>1, <2>2, <2>3
<1>14. ExportOK(s, z, m, files, su)
  BY <1>1, <1>2, <1>3, <1>13 DEF ExportOK, Built
<1>15. ExportsOK(s, z, files, su)
  BY <1>4, <1>12, <1>14 DEF ExportsOK
<1> QED
  BY <1>5, <1>6, <1>10, <1>15 DEF Compiles, HelperOK

-----------------------------------------------------------------------------
(* The steps of one session *)

Places == {Nowhere, InMemory}
Partial(fs, p) == p[1] = "temp" \/ ~fs[p].whole
Owns(r, p) == "at" \in DOMAIN r /\ r.out = p /\ r.pc # "failed" /\ p \notin Places

\* Of what a session held or changed, only its output is temporary or partial.
Tidy(r, z, fs, gs) ==
  \A p \in DOMAIN gs :
    Partial(gs, p) /\ (p \notin DOMAIN fs \/ gs[p] # fs[p] \/ Owns(r, p)) => Owns(z, p)
PublishedBy(r, z, M, N) ==
  /\ r.pc # "compiled"
  /\ N = M \/ (z.pc = "compiled" /\ "at" \in DOMAIN z /\ N = M \cup ToSet(z.exported))

StepOK(s) ==
  \E z : /\ sess' = [sess EXCEPT ![s] = z]
         /\ KeptBy(s, files, files') /\ KeptBy(s, store, store')
         /\ SessionOK(s, z, files', store')
         /\ Tidy(sess[s], z, files, files') /\ PublishedBy(sess[s], z, models, models')

SessionsOK ==
  /\ sess = [s \in Sessions |-> sess[s]]
  /\ \A s \in Sessions : SessionOK(s, sess[s], files, store)

\* Which kind of session it is shows in what it does.
LEMMA Kinds ==
  ASSUME SessionsOK, NEW s \in Sessions
  PROVE  /\ sess[s].pc \in CompilePcs \ {"context", "failed", "crashed"} => Compiles(s, sess[s], files, store)
         /\ sess[s].pc \in LoadPcs \ {"context", "failed", "crashed"} => Loads(sess[s])
         /\ IsCompile(s) => Compiles(s, sess[s], files, store)
         /\ IsLoad(s) => Loads(sess[s])
         /\ Compiles(s, sess[s], files, store) => IsCompile(s) /\ ~IsLoad(s)
         /\ Loads(sess[s]) => IsLoad(s) /\ ~IsCompile(s)
<1>1. sess[s] = Idle => sess[s].pc = "idle" /\ ~IsCompile(s) /\ ~IsLoad(s)
  BY DEF Idle, IsCompile, IsLoad
<1>2. Compiles(s, sess[s], files, store) => sess[s].pc \in CompilePcs /\ IsCompile(s) /\ ~IsLoad(s)
  BY DEF Compiles, HelperOK, CompileTypes, Has, CompileFields, IsCompile, IsLoad
<1>3. Loads(sess[s]) => sess[s].pc \in LoadPcs /\ IsLoad(s) /\ ~IsCompile(s)
  BY DEF Loads, Has, LoadFields, IsCompile, IsLoad
<1>4. sess[s] = Idle \/ Compiles(s, sess[s], files, store) \/ Loads(sess[s])
  BY DEF SessionsOK, SessionOK
<1>5. "idle" \notin CompilePcs \cup LoadPcs /\ CompilePcs \cap LoadPcs \subseteq {"context", "failed", "crashed"}
  BY DEF CompilePcs, LoadPcs
<1> QED
  BY <1>1, <1>2, <1>3, <1>4, <1>5

\* A step that leaves the files, and the output where it is, is tidy.
LEMMA StillTidy ==
  ASSUME NEW r, NEW z, NEW fs,
         "at" \in DOMAIN z, z.out = r.out, z.pc # "failed"
  PROVE  Tidy(r, z, fs, fs)
BY DEF Tidy, Owns

\* A compile that fails, as a step.
LEMMA FailStep ==
  ASSUME SessionsOK, NEW s \in Sessions, Compiles(s, sess[s], files, store),
         sess[s].pc \notin {"failed", "compiled"}, FailCompile(s), UNCHANGED <<files, models>>,
         KeptBy(s, store, store')
  PROVE  StepOK(s)
<1> PICK r : r = sess[s]
  OBVIOUS
<1> PICK z : z = [r EXCEPT !.pc = "unwind"]
  OBVIOUS
<1>1. sess' = [sess EXCEPT ![s] = z]
  BY DEF FailCompile
<1>2. Compiles(s, z, files', store')
  BY FailsCompiling
<1>3. "at" \in DOMAIN z /\ z.out = r.out /\ z.pc = "unwind"
  BY DEF Compiles, HelperOK, CompileTypes, Has, CompileFields
<1>4. Tidy(r, z, files, files')
  BY <1>3, StillTidy
<1>5. KeptBy(s, files, files')
  BY DEF KeptBy
<1>6. PublishedBy(r, z, models, models')
  BY DEF PublishedBy
<1> QED
  BY <1>1, <1>2, <1>4, <1>5, <1>6 DEF StepOK, SessionOK

\* A step that changes only the record of its session.
LEMMA RecordStep ==
  ASSUME SessionsOK, NEW s \in Sessions, Compiles(s, sess[s], files, store), sess[s].pc # "compiled",
         NEW z, sess' = [sess EXCEPT ![s] = z], UNCHANGED <<files, store, models>>,
         Compiles(s, z, files, store), z.out = sess[s].out, z.pc # "failed"
  PROVE  StepOK(s)
<1> PICK r : r = sess[s]
  OBVIOUS
<1>1. "at" \in DOMAIN z
  BY DEF Compiles, HelperOK, CompileTypes, Has, CompileFields
<1>2. Tidy(r, z, files, files')
  BY <1>1, StillTidy
<1>3. KeptBy(s, files, files') /\ KeptBy(s, store, store')
  BY DEF KeptBy
<1>4. PublishedBy(r, z, models, models')
  BY DEF PublishedBy
<1>5. SessionOK(s, z, files', store')
  BY DEF SessionOK
<1> QED
  BY <1>2, <1>3, <1>4, <1>5 DEF StepOK

\* The parse, as a step.
LEMMA ParseStep ==
  ASSUME EpContextAssumption, OwnDirectories, SessionsOK, NEW s \in Sessions, ParseNode(s)
  PROVE  StepOK(s)
<1> PICK r : r = sess[s]
  OBVIOUS
<1>1. Compiles(s, r, files, store) /\ r.pc = "prepare"
  BY Kinds DEF ParseNode, At, CompilePcs
<1>2. CASE FailCompile(s)
  <2>1. KeptBy(s, store, store') /\ UNCHANGED <<files, models>>
    BY DEF ParseNode, KeptBy
  <2> QED
    BY <1>1, <1>2, <2>1, FailStep
<1>3. ASSUME NEW c, NEW m, NEW b, c \in Captured(s),
             sess' = [sess EXCEPT ![s].pc = "open", ![s].captured = c, ![s].maps = m, ![s].built = b]
      PROVE  StepOK(s)
  <2> PICK z : z = [r EXCEPT !.pc = "open", !.captured = c, !.maps = m, !.built = b]
    OBVIOUS
  <2>1. sess' = [sess EXCEPT ![s] = z]
    BY <1>3
  <2>2. c \in IF r.opt.stripped THEN {NodeInfo[Of(r)].records, Corrupt} ELSE {<<>>}
    BY <1>3 DEF Captured, NodeOf, Of
  <2>3. Compiles(s, z, files, store)
    BY <1>1, <2>2, Parses
  <2>4. z.out = r.out /\ z.pc = "open"
    BY <1>1 DEF Compiles, HelperOK, CompileTypes, Has, CompileFields
  <2>5. UNCHANGED <<files, store, models>>
    BY DEF ParseNode
  <2> QED
    BY <1>1, <2>1, <2>3, <2>4, <2>5, RecordStep
<1> QED
  BY <1>2, <1>3 DEF ParseNode

\* Opening the output, as a step.
LEMMA OpenStep ==
  ASSUME EpContextAssumption, OwnDirectories, SessionsOK, NEW s \in Sessions, InitializeEngineOutput(s)
  PROVE  StepOK(s)
<1> PICK r : r = sess[s]
  OBVIOUS
<1>1. Compiles(s, r, files, store) /\ r.pc = "open" /\ r.out = Nowhere /\ Of(r) = NodeOf(s)
  BY Kinds DEF InitializeEngineOutput, At, CompilePcs, Compiles, HelperOK, OutputPlaced, Of, NodeOf
<1>2. UNCHANGED <<store, models>>
  BY DEF InitializeEngineOutput
<1>3. ASSUME NEW path, NEW b, NEW gs, NEW o \in BOOLEAN, files' = gs,
             sess' = [sess EXCEPT ![s] = [r EXCEPT !.out = path, !.open = o, !.pc = "build"]],
             \/ path = Cached(s, Of(r)) /\ StreamsToCache(r.opt) /\ gs \in {files, Written(files, path, b)}
             \/ path = Scratch(s, Of(r)) /\ ~StreamsToCache(r.opt) /\ gs = Written(files, path, b)
             \/ path = InMemory /\ ~StreamsToCache(r.opt) /\ gs = files
      PROVE  StepOK(s)
  <2> PICK z : z = [r EXCEPT !.out = path, !.open = o, !.pc = "build"]
    OBVIOUS
  <2>1. Compiles(s, z, gs, store)
    BY <1>1, <1>3, OpensOutput
  <2>2. "at" \in DOMAIN z /\ z.out = path /\ z.pc = "build"
    BY <1>1 DEF Compiles, HelperOK, CompileTypes, Has, CompileFields
  <2>3. gs = files \/ (SameBut(path, files, gs) /\ path \in {Cached(s, Of(r)), Scratch(s, Of(r))})
    BY <1>3, FileWritten
  <2>4. KeptBy(s, files, gs) /\ KeptBy(s, store, store)
    <3>1. KeptBy(s, files, files) /\ KeptBy(s, store, store)
      BY DEF KeptBy
    <3> QED
      BY <2>3, <3>1, OwnFile
  <2>5. Tidy(r, z, files, gs)
    <3>1. ~Owns(r, path) /\ \A p : ~Owns(r, p)
      BY <1>1 DEF Owns, Places
    <3>2. path \in {Cached(s, Of(r)), Scratch(s, Of(r))} => path \notin Places
      BY PathsApart DEF Places
    <3> QED
      BY <2>2, <2>3, <3>1, <3>2 DEF Tidy, Owns, SameBut
  <2>6. PublishedBy(r, z, models, models')
    BY <1>1, <1>2 DEF PublishedBy
  <2>7. SessionOK(s, z, files', store')
    BY <1>2, <1>3, <2>1 DEF SessionOK
  <2> QED
    BY <1>2, <1>3, <2>4, <2>5, <2>6, <2>7 DEF StepOK
<1> DEFINE b == EngineBytes(NodeOf(s), FALSE, FALSE)
<1>4. ASSUME NEW path, NEW o \in BOOLEAN, OpenOutput(s, path, o)
      PROVE  /\ files' = IF o THEN Written(files, path, b) ELSE files
             /\ sess' = [sess EXCEPT ![s] = [r EXCEPT !.out = path, !.open = o, !.pc = "build"]]
  BY <1>4 DEF OpenOutput
<1>5. CachePath(s) = Cached(s, Of(r)) /\ TempPath(s) = Scratch(s, Of(r))
  BY <1>1 DEF CachePath, TempPath, Cached, Scratch
<1> HIDE DEF b
<1>6. CASE StreamsToCache(r.opt)
  <2>1. PICK o \in BOOLEAN : OpenOutput(s, Cached(s, Of(r)), o)
    BY <1>5, <1>6 DEF InitializeEngineOutput
  <2>2. files' \in {files, Written(files, Cached(s, Of(r)), b)}
    BY <1>4, <2>1
  <2> QED
    BY <1>3, <1>4, <1>6, <2>1, <2>2
<1>7. CASE ~StreamsToCache(r.opt) /\ OpenOutput(s, TempPath(s), TRUE)
  <2>1. files' = Written(files, Scratch(s, Of(r)), b)
    BY <1>4, <1>5, <1>7
  <2> QED
    BY <1>3, <1>4, <1>5, <1>7, <2>1
<1>8. CASE ~StreamsToCache(r.opt) /\ sess' = [sess EXCEPT ![s].out = InMemory, ![s].pc = "build"] /\ files' = files
  <2>1. [r EXCEPT !.out = InMemory, !.open = r.open, !.pc = "build"] = [r EXCEPT !.out = InMemory, !.pc = "build"]
        /\ r.open \in BOOLEAN
    BY <1>1 DEF Compiles, HelperOK, CompileTypes, Has, CompileFields
  <2>2. sess' = [sess EXCEPT ![s] = [r EXCEPT !.out = InMemory, !.open = r.open, !.pc = "build"]]
    BY <1>8, <2>1
  <2> QED
    BY <1>3, <1>8, <2>1, <2>2
<1> QED
  BY <1>6, <1>7, <1>8 DEF InitializeEngineOutput

\* The build, as a step.
LEMMA BuildStep ==
  ASSUME EpContextAssumption, OwnDirectories, SessionsOK, NEW s \in Sessions, BuildEngine(s)
  PROVE  StepOK(s)
<1> PICK r : r = sess[s]
  OBVIOUS
<1>1. Compiles(s, r, files, store) /\ r.pc = "build" /\ Of(r) = NodeOf(s)
  BY Kinds DEF BuildEngine, At, CompilePcs, Of, NodeOf
<1>2. UNCHANGED <<store, models>> /\ EngineBytes(NodeOf(s), sess[s].opt.stripped, TRUE) = Built(r)
  BY <1>1 DEF BuildEngine, Built
<1>3. CASE FailCompile(s) /\ UNCHANGED files
  <2>1. KeptBy(s, store, store')
    BY <1>2 DEF KeptBy
  <2> QED
    BY <1>1, <1>2, <1>3, <2>1, FailStep
<1>4. CASE r.out = InMemory /\ sess' = [sess EXCEPT ![s].bytes = Built(r), ![s].pc = "finalize"] /\ UNCHANGED files
  <2> PICK z : z = [r EXCEPT !.bytes = Built(r), !.pc = "finalize"]
    OBVIOUS
  <2>1. sess' = [sess EXCEPT ![s] = z]
    BY <1>4
  <2>2. Compiles(s, z, files, store)
    BY <1>1, <1>4, Builds
  <2>3. z.out = r.out /\ z.pc = "finalize"
    BY <1>1 DEF Compiles, HelperOK, CompileTypes, Has, CompileFields
  <2> QED
    BY <1>1, <1>2, <1>4, <2>1, <2>2, <2>3, RecordStep
<1>5. CASE r.out # InMemory /\ files' = Written(files, r.out, Built(r)) /\ sess' = [sess EXCEPT ![s].pc = "finalize"]
  <2> PICK z : z = [r EXCEPT !.pc = "finalize"]
    OBVIOUS
  <2>1. sess' = [sess EXCEPT ![s] = z]
    BY <1>5
  <2>2. Compiles(s, z, files', store)
    BY <1>1, <1>5, Builds
  <2>3. "at" \in DOMAIN z /\ z.out = r.out /\ z.pc = "finalize"
    BY <1>1 DEF Compiles, HelperOK, CompileTypes, Has, CompileFields
  <2>4. r.out \in {Cached(s, Of(r)), Scratch(s, Of(r))}
    BY <1>1, <1>5 DEF Compiles, HelperOK, OutputPlaced
  <2>5. SameBut(r.out, files, files')
    BY <1>5, FileWritten
  <2>6. KeptBy(s, files, files') /\ KeptBy(s, store, store')
    <3>1. KeptBy(s, files, files')
      BY <2>4, <2>5, OwnFile
    <3> QED
      BY <1>2, <3>1 DEF KeptBy
  <2>7. Tidy(r, z, files, files')
    <3>1. r.out \notin Places
      BY <2>4, PathsApart DEF Places
    <3> QED
      BY <2>3, <2>5, <3>1 DEF Tidy, Owns, SameBut
  <2>8. PublishedBy(r, z, models, models')
    BY <1>1, <1>2 DEF PublishedBy
  <2>9. SessionOK(s, z, files', store')
    BY <1>2, <2>2 DEF SessionOK
  <2> QED
    BY <2>1, <2>6, <2>7, <2>8, <2>9 DEF StepOK
<1> QED
  BY <1>2, <1>3, <1>4, <1>5 DEF BuildEngine

\* The check of the output, as a step.
LEMMA FinalizeStep ==
  ASSUME EpContextAssumption, OwnDirectories, SessionsOK, NEW s \in Sessions, FinalizeEngineOutput(s)
  PROVE  StepOK(s)
<1> PICK r : r = sess[s]
  OBVIOUS
<1>1. Compiles(s, r, files, store) /\ r.pc = "finalize"
  BY Kinds DEF FinalizeEngineOutput, At, CompilePcs
<1>2. UNCHANGED <<files, store, models>>
  BY DEF FinalizeEngineOutput
<1>3. CASE FailCompile(s)
  <2>1. KeptBy(s, store, store')
    BY <1>2 DEF KeptBy
  <2> QED
    BY <1>1, <1>2, <1>3, <2>1, FailStep
<1>4. ASSUME NEW pc \in {"export", "deserialize"}, sess' = [sess EXCEPT ![s].pc = pc]
      PROVE  StepOK(s)
  <2> PICK z : z = [r EXCEPT !.pc = pc]
    OBVIOUS
  <2>1. sess' = [sess EXCEPT ![s] = z]
    BY <1>4
  <2>2. Compiles(s, z, files, store)
    BY <1>1, <1>4, Finalizes
  <2>3. z.out = r.out /\ z.pc # "failed"
    BY <1>1 DEF Compiles, HelperOK, CompileTypes, Has, CompileFields
  <2> QED
    BY <1>1, <1>2, <2>1, <2>2, <2>3, RecordStep
<1>5. (IF sess[s].opt.compileOnly THEN "export" ELSE "deserialize") \in {"export", "deserialize"}
  OBVIOUS
<1> QED
  BY <1>3, <1>4, <1>5 DEF FinalizeEngineOutput

\* The session's own engine, as a step.
LEMMA DeserializeStep ==
  ASSUME EpContextAssumption, OwnDirectories, SessionsOK, NEW s \in Sessions, DeserializeBuilt(s)
  PROVE  StepOK(s)
<1> PICK r : r = sess[s]
  OBVIOUS
<1>1. Compiles(s, r, files, store) /\ r.pc = "deserialize" /\ OutputBytes(s) = Held(r, files)
  BY Kinds DEF DeserializeBuilt, At, CompilePcs, OutputBytes, Held, Exists
<1>2. UNCHANGED <<files, store, models>>
  BY DEF DeserializeBuilt
<1>3. CASE FailCompile(s)
  <2>1. KeptBy(s, store, store')
    BY <1>2 DEF KeptBy
  <2> QED
    BY <1>1, <1>2, <1>3, <2>1, FailStep
<1>4. ASSUME NEW e, NEW w, sess' = [sess EXCEPT ![s].bytes = OutputBytes(s), ![s].engine = e, ![s].memory = w,
                                                ![s].pc = "export"]
      PROVE  StepOK(s)
  <2> PICK z : z = [r EXCEPT !.bytes = Held(r, files), !.engine = e, !.memory = w, !.pc = "export"]
    OBVIOUS
  <2>1. sess' = [sess EXCEPT ![s] = z]
    BY <1>1, <1>4
  <2>2. Compiles(s, z, files, store)
    BY <1>1, <1>4, DeserializesBuilt
  <2>3. z.out = r.out /\ z.pc # "failed"
    BY <1>1 DEF Compiles, HelperOK, CompileTypes, Has, CompileFields
  <2> QED
    BY <1>1, <1>2, <2>1, <2>2, <2>3, RecordStep
<1> QED
  BY <1>3, <1>4 DEF DeserializeBuilt

\* The export, as a step.
LEMMA ExportStep ==
  ASSUME EpContextAssumption, OwnDirectories, SessionsOK, NEW s \in Sessions, CreateEPContextNode(s)
  PROVE  StepOK(s)
<1> PICK r : r = sess[s]
  OBVIOUS
<1>1. Compiles(s, r, files, store) /\ r.pc = "export" /\ r.opt.dump
      /\ OutputBytes(s) = Held(r, files) /\ CachePath(s) = Cached(s, Of(r))
  BY Kinds DEF CreateEPContextNode, At, CompilePcs, OutputBytes, Held, Exists, CachePath, Cached, NodeOf, Of
<1>2. UNCHANGED <<files, models>>
  BY DEF CreateEPContextNode
<1>3. PICK filtered \in MayFilter(s), written \in BOOLEAN :
        LET node == ExportedNode(s, filtered) IN
        /\ written => ~ExportRefused(s, filtered) /\ (node.stored \/ node.embed => OutputWhole(s))
        /\ store' = IF written /\ node.stored
                    THEN Written(store, node.path, OutputBytes(s)) ELSE store
        /\ \/ /\ written
              /\ lock' = NoOne
              /\ sess' = [sess EXCEPT ![s].pc = AfterExport(sess[s].opt),
                                      ![s].exported = Append(@, node),
                                      ![s].preserved = sess[s].out = CachePath(s)]
           \/ FailCompile(s)
  BY DEF CreateEPContextNode
<1> PICK m : m = ExportedNode(s, filtered)
  OBVIOUS
<1>4. KeptBy(s, store, store')
  <2>1. CASE written /\ m.stored
    <3>0. ~ExportRefused(s, filtered)
      BY <1>3, <2>1
    <3>1. m.path = Cached(s, Of(r))
      <4>1. m.stored = (~r.opt.embed /\ r.opt.callbacks) /\ m.embed = r.opt.embed
            /\ (~m.embed => m.path = Cached(s, Of(r)))
        BY <1>1, <3>0, ExportedNodeIs
      <4> QED
        BY <2>1, <4>1
    <3>2. SameBut(m.path, store, store')
      BY <1>3, <2>1, FileWritten
    <3> QED
      BY <3>1, <3>2, OwnFile
  <2>2. CASE ~(written /\ m.stored)
    <3>1. store' = store
      BY <1>3, <2>2
    <3> QED
      BY <3>1 DEF KeptBy
  <2> QED
    BY <2>1, <2>2
<1>5. CASE FailCompile(s)
  BY <1>1, <1>2, <1>4, <1>5, FailStep
<1>6. CASE written /\ sess' = [sess EXCEPT ![s].pc = AfterExport(sess[s].opt), ![s].exported = Append(@, m),
                                           ![s].preserved = sess[s].out = CachePath(s)]
  <2> PICK z : z = [r EXCEPT !.pc = AfterExport(r.opt), !.exported = Append(@, m),
                             !.preserved = r.out = Cached(s, Of(r))]
    OBVIOUS
  <2>1. sess' = [sess EXCEPT ![s] = z]
    BY <1>1, <1>6
  <2>2. ~ExportRefused(s, filtered)
        /\ store' = IF m.stored THEN Written(store, m.path, Held(r, files)) ELSE store
    BY <1>1, <1>3, <1>6
  <2>3. Compiles(s, z, files, store')
    BY <1>1, <2>2, Exports
  <2>4. "at" \in DOMAIN z /\ z.out = r.out /\ z.pc # "failed"
    BY <1>1 DEF Compiles, HelperOK, CompileTypes, Has, CompileFields, AfterExport
  <2>5. Tidy(r, z, files, files') /\ KeptBy(s, files, files')
    BY <1>2, <2>4, StillTidy DEF KeptBy
  <2>6. PublishedBy(r, z, models, models')
    BY <1>1, <1>2 DEF PublishedBy
  <2>7. SessionOK(s, z, files', store')
    BY <1>2, <2>3 DEF SessionOK
  <2> QED
    BY <1>4, <2>1, <2>5, <2>6, <2>7 DEF StepOK
<1> QED
  BY <1>3, <1>5, <1>6

\* No export, and the context: as steps.
LEMMA SkipStep ==
  ASSUME EpContextAssumption, OwnDirectories, SessionsOK, NEW s \in Sessions, SkipExport(s)
  PROVE  StepOK(s)
<1> PICK r : r = sess[s]
  OBVIOUS
<1>1. Compiles(s, r, files, store) /\ r.pc = "export" /\ ~r.opt.dump /\ UNCHANGED <<files, store, models>>
  BY Kinds DEF SkipExport, At, CompilePcs
<1> PICK pc : pc = AfterExport(r.opt)
  OBVIOUS
<1>2. pc \in {"end", "context"}
  BY DEF AfterExport
<1> PICK z : z = [r EXCEPT !.pc = pc]
  OBVIOUS
<1>3. sess' = [sess EXCEPT ![s] = z]
  BY DEF SkipExport
<1>4. Compiles(s, z, files, store)
  BY <1>1, <1>2, SkipsExport
<1>5. z.out = r.out /\ z.pc # "failed"
  BY <1>1, <1>2 DEF Compiles, HelperOK, CompileTypes, Has, CompileFields
<1> QED
  BY <1>1, <1>3, <1>4, <1>5, RecordStep

\* The context of a running session, as a step.
LEMMA ContextStep ==
  ASSUME EpContextAssumption, OwnDirectories, SessionsOK, NEW s \in Sessions, IsCompile(s), CreateBuiltContext(s)
  PROVE  StepOK(s)
<1> PICK r : r = sess[s]
  OBVIOUS
<1>1. Compiles(s, r, files, store) /\ r.pc = "context" /\ UNCHANGED <<files, store, models>>
  BY Kinds DEF CreateBuiltContext, At
<1>2. CASE FailCompile(s)
  <2>1. KeptBy(s, store, store')
    BY <1>1 DEF KeptBy
  <2> QED
    BY <1>1, <1>2, <2>1, FailStep
<1>3. CASE sess' = [sess EXCEPT ![s].pc = "end"]
  <2> PICK z : z = [r EXCEPT !.pc = "end"]
    OBVIOUS
  <2>1. sess' = [sess EXCEPT ![s] = z]
    BY <1>3
  <2>2. Compiles(s, z, files, store)
    BY <1>1, EndsContext
  <2>3. z.out = r.out /\ z.pc # "failed"
    BY <1>1 DEF Compiles, HelperOK, CompileTypes, Has, CompileFields
  <2> QED
    BY <1>1, <2>1, <2>2, <2>3, RecordStep
<1> QED
  BY <1>2, <1>3 DEF CreateBuiltContext

\* What the destructor of the helper leaves is whole and not temporary.
LEMMA HelperTidy ==
  ASSUME EpContextAssumption, OwnDirectories, NEW s \in Sessions, NEW r, NEW fs, NEW st, Compiles(s, r, fs, st), r.pc # "failed",
         NEW gs, gs = IF r.out \notin {Nowhere, InMemory} /\ ~r.preserved THEN Removed(fs, r.out) ELSE fs,
         NEW z
  PROVE  Tidy(r, z, fs, gs)
<1> SUFFICES ASSUME NEW p \in DOMAIN gs, Partial(gs, p), p \notin DOMAIN fs \/ gs[p] # fs[p] \/ Owns(r, p)
             PROVE  FALSE
  BY DEF Tidy
<1>1. CASE ~r.preserved
  <2>1. CASE r.out \in Places
    <3>1. gs = fs
      BY <1>1, <2>1 DEF Places
    <3> QED
      BY <2>1, <3>1 DEF Owns
  <2>2. CASE r.out \notin Places
    <3>1. gs = Removed(fs, r.out)
      BY <1>1, <2>2 DEF Places
    <3>2. DOMAIN gs = DOMAIN fs \ {r.out} /\ \A q \in DOMAIN fs : q # r.out => gs[q] = fs[q]
      BY <3>1 DEF Removed, Restrict
    <3> QED
      BY <3>2 DEF Owns
  <2> QED
    BY <2>1, <2>2
<1>2. CASE r.preserved
  <2>1. gs = fs
    BY <1>2
  <2>2. r.out = Cached(s, Of(r)) /\ fs[r.out] = Built(r)
    BY <1>2 DEF Compiles, HelperOK, OutputKept
  <2>3. p = r.out
    BY <2>1 DEF Owns
  <2>4. p[1] = CacheRoot[s] /\ CacheRoot[s] # "temp" /\ Built(r).whole
    BY <2>2, <2>3, PathsApart, BuiltIsSomething DEF OwnDirectories, Compiles, HelperOK
  <2> QED
    BY <2>1, <2>2, <2>3, <2>4 DEF Partial
<1>3. r.preserved \in BOOLEAN
  BY DEF Compiles, HelperOK, CompileTypes
<1> QED
  BY <1>1, <1>2, <1>3

\* The end of a node, as a step.
LEMMA EndStep ==
  ASSUME EpContextAssumption, OwnDirectories, SessionsOK, NEW s \in Sessions, EndNode(s)
  PROVE  StepOK(s)
<1> PICK r : r = sess[s]
  OBVIOUS
<1>1. Compiles(s, r, files, store) /\ r.pc = "end" /\ UNCHANGED <<store, models>>
  BY Kinds DEF EndNode, At, CompilePcs
<1> PICK z : z = [r EXCEPT !.pc = IF r.at = Len(Nodes) THEN "publish" ELSE "prepare",
                           !.at = IF @ = Len(Nodes) THEN @ ELSE @ + 1,
                           !.out = Nowhere, !.open = FALSE, !.preserved = FALSE,
                           !.bytes = NoFile, !.engine = NoEngine, !.memory = <<>>]
  OBVIOUS
<1>2. sess' = [sess EXCEPT ![s] = z]
  BY DEF EndNode
<1>3. files' = IF r.out \notin {Nowhere, InMemory} /\ ~r.preserved THEN Removed(files, r.out) ELSE files
  BY DEF EndNode, FilesAfterHelper, Discards
<1>4. Compiles(s, z, files', store) /\ KeptBy(s, files, files')
  BY <1>1, <1>3, EndsNode
<1>5. Tidy(r, z, files, files')
  BY <1>1, <1>3, HelperTidy
<1>6. PublishedBy(r, z, models, models') /\ KeptBy(s, store, store')
  BY <1>1 DEF PublishedBy, KeptBy
<1>7. SessionOK(s, z, files', store')
  BY <1>1, <1>4 DEF SessionOK
<1> QED
  BY <1>2, <1>4, <1>5, <1>6, <1>7 DEF StepOK

\* The end of a compile that failed, as a step.
LEMMA UnwindStep ==
  ASSUME EpContextAssumption, OwnDirectories, SessionsOK, NEW s \in Sessions, Unwind(s)
  PROVE  StepOK(s)
<1> PICK r : r = sess[s]
  OBVIOUS
<1>1. Compiles(s, r, files, store) /\ r.pc = "unwind" /\ UNCHANGED <<store, models>>
  BY Kinds DEF Unwind, At, CompilePcs
<1> PICK z : z = [r EXCEPT !.pc = "failed", !.out = Nowhere, !.exported = <<>>]
  OBVIOUS
<1>2. sess' = [sess EXCEPT ![s] = z]
  BY DEF Unwind
<1>3. files' = IF r.out \notin {Nowhere, InMemory} /\ ~r.preserved THEN Removed(files, r.out) ELSE files
  BY DEF Unwind, FilesAfterHelper, Discards
<1>4. Compiles(s, z, files', store) /\ KeptBy(s, files, files')
  <2>1. /\ Compiles(s, r, files, store) /\ r.pc = "unwind"
        /\ files' = IF r.out \notin {Nowhere, InMemory} /\ ~r.preserved THEN Removed(files, r.out) ELSE files
        /\ z = [r EXCEPT !.pc = "failed", !.out = Nowhere, !.exported = <<>>]
    BY <1>1, <1>3
  <2> QED
    BY ONLY EpContextAssumption, OwnDirectories, s \in Sessions, <2>1, Unwinding
<1>5. Tidy(r, z, files, files')
  BY <1>1, <1>3, HelperTidy
<1>6. PublishedBy(r, z, models, models') /\ KeptBy(s, store, store')
  BY <1>1 DEF PublishedBy, KeptBy
<1>7. SessionOK(s, z, files', store')
  BY <1>1, <1>4 DEF SessionOK
<1> QED
  BY <1>2, <1>4, <1>5, <1>6, <1>7 DEF StepOK

\* The context model is written, as a step.
LEMMA PublishStep ==
  ASSUME EpContextAssumption, OwnDirectories, SessionsOK, NEW s \in Sessions, Publish(s)
  PROVE  StepOK(s)
<1> PICK r : r = sess[s]
  OBVIOUS
<1>1. Compiles(s, r, files, store) /\ r.pc = "publish" /\ UNCHANGED <<files, store>>
  BY Kinds DEF Publish, At, CompilePcs
<1> PICK z : z = [r EXCEPT !.pc = "compiled"]
  OBVIOUS
<1>2. sess' = [sess EXCEPT ![s] = z] /\ models' = models \cup ToSet(r.exported)
  BY DEF Publish
<1>3. Compiles(s, z, files, store)
  BY <1>1, Publishes
<1>4. "at" \in DOMAIN z /\ z.out = r.out /\ z.pc = "compiled" /\ z.exported = r.exported
  BY <1>1 DEF Compiles, HelperOK, CompileTypes, Has, CompileFields
<1>5. Tidy(r, z, files, files') /\ KeptBy(s, files, files') /\ KeptBy(s, store, store')
  BY <1>1, <1>4, StillTidy DEF KeptBy
<1>6. PublishedBy(r, z, models, models')
  BY <1>1, <1>2, <1>4 DEF PublishedBy
<1>7. SessionOK(s, z, files', store')
  BY <1>1, <1>3 DEF SessionOK
<1> QED
  BY <1>2, <1>5, <1>6, <1>7 DEF StepOK

\* The start of a session, as a step.
LEMMA StartStep ==
  ASSUME EpContextAssumption, OwnDirectories, SessionsOK, NEW s \in Sessions, StartCompile(s) \/ StartLoad(s)
  PROVE  StepOK(s)
<1> PICK r : r = sess[s]
  OBVIOUS
<1>1. r.pc = "idle" /\ UNCHANGED <<files, store, models>>
  BY DEF StartCompile, StartLoad, At
<1>2. r = Idle
  BY <1>1, Kinds DEF SessionsOK, SessionOK, Compiles, HelperOK, CompileTypes, Loads, CompilePcs, LoadPcs
<1>3. PICK z : sess' = [sess EXCEPT ![s] = z] /\ (Compiles(s, z, files, store) \/ Loads(z))
  <2>1. CASE StartCompile(s)
    <3>1. PICK o \in CompileOptions : sess' = [sess EXCEPT ![s] = NewCompile(o)]
      BY <2>1 DEF StartCompile
    <3> QED
      BY <3>1, NewCompiles
  <2>2. CASE StartLoad(s)
    <3>1. PICK o, m : sess' = [sess EXCEPT ![s] = NewLoad(o, m)]
      BY <2>2 DEF StartLoad
    <3>2. Loads(NewLoad(o, m))
      BY DEF Loads, NewLoad, Has, LoadFields, LoadPcs
    <3> QED
      BY <3>1, <3>2
  <2> QED
    BY <2>1, <2>2
<1>4. Tidy(r, z, files, files')
  <2>1. ~("at" \in DOMAIN r)
    BY <1>2 DEF Idle
  <2> QED
    BY <1>1, <2>1 DEF Tidy, Owns
<1>5. PublishedBy(r, z, models, models') /\ KeptBy(s, files, files') /\ KeptBy(s, store, store')
  BY <1>1 DEF PublishedBy, KeptBy
<1>6. SessionOK(s, z, files', store')
  BY <1>1, <1>3 DEF SessionOK
<1> QED
  BY <1>3, <1>4, <1>5, <1>6 DEF StepOK

\* Only fields in F change.
Same(r, z, F) == \A f \in LoadFields \ F : z[f] = r[f]

\* A refusal that is due to the table or to its sources.
Refusals == {"uncovered", "unusable record"}
TableRecords(r) == DeserializeWeightlessRefitTable(r.model.table)
Supplied(r) ==
  [x \in (IF r.opt.stripped THEN r.model.inputs ELSE {}) |-> NodeInfo[r.model.node].data[x]]
Replay(r) == WeightlessRefitEngineImpl(TableRecords(r), Supplied(r), NodeInfo[r.model.node].refittable)
Refused(r) == r.model.table # NoTable /\ TableRecords(r) # Corrupt /\ Replay(r).status # "ok"

\* What the record of a load becomes.
Fails(r, z) ==
  z.pc = "failed" /\ Same(r, z, {"pc", "why"}) /\ (z.why \in Refusals => Refused(r))
Locates(s, z) ==
  LET r == sess[s]
      m == r.model
      used == UsesRefittedCache(s)
  IN  /\ r.pc = "locate" /\ z.pc = "read"
      /\ \/ /\ m.embed /\ z.bytes = m.bytes /\ Same(r, z, {"pc", "bytes"})
         \/ /\ ~m.embed
            /\ z.from = (IF used THEN RefittedPath(m.path) ELSE m.path)
            /\ z.refit = (NeedsRefit(s) /\ ~used) /\ z.complete = used
            /\ IF r.opt.callbacks THEN m.path \in DOMAIN store /\ z.bytes = store[m.path]
               ELSE z.bytes = r.bytes /\ Exists(z.from)
            /\ Same(r, z, {"pc", "bytes", "from", "refit", "complete"})
OnDisk(r) == IF r.bytes # NoFile THEN r.bytes ELSE IF Exists(r.from) THEN files[r.from] ELSE NoFile
Reads(s, z) ==
  LET r == sess[s]
      b == OnDisk(r)
  IN  /\ r.pc = "read" /\ z.pc = "refit"
      /\ b # NoFile /\ b.whole /\ z.bytes = b /\ z.engine = Deserialized(b)
      /\ z.reader = NewReader(IF DefersWeights(s, b) THEN Len(Plan(b)) ELSE 0)
      /\ z.memory = IF DefersWeights(s, b) THEN [i \in DOMAIN WeightBytes(b) |-> NoByte]
                    ELSE IF Streams(s, b)
                    THEN Tail(HostBytes(NewReader(Len(Plan(b))), Plan(b), Len(Plan(b))))
                    ELSE WeightBytes(b)
      /\ Same(r, z, {"pc", "engine", "bytes", "reader", "memory"})
Refits(r, z) ==
  /\ r.pc = "refit" /\ z.pc = "context" /\ Same(r, z, {"pc", "engine"})
  /\ \/ z.engine = r.engine /\ (r.complete \/ (r.model.table = NoTable /\ ~r.refit))
     \/ /\ r.model.table # NoTable /\ TableRecords(r) # Corrupt /\ Replay(r).status = "ok"
        /\ z.engine = [r.engine EXCEPT !.weights = Replay(r).weights]
Continues(r, z) == r.pc = "context" /\ z.pc = "upload" /\ Same(r, z, {"pc"})
Seeks(r, z) ==
  /\ r.pc = "upload" /\ Same(r, z, {"reader"})
  /\ r.reader.size > 0 /\ r.reader.position = 0
  /\ \E move \in {<<1, "set">>, <<1, "cur">>, <<1 - r.reader.size, "end">>} :
       z.reader = [r.reader EXCEPT !.position = Seek(r.reader, move[1], move[2])]
Requests(r, z) ==
  /\ r.pc = "upload" /\ Same(r, z, {"wanted"})
  /\ r.reader.position > 0 /\ r.wanted = 0 /\ z.wanted \in 1 .. Available(r.reader)
OpenedFile(r) == IF Exists(r.from) THEN files[r.from] ELSE r.bytes
ReadResults(q, file, wanted) ==
  {FailedRead(q)} \cup IF CanUseSlot(q) THEN ChunkReads(q, file, wanted, q.position - 1) ELSE {}
ReadsMore(r, z) ==
  /\ r.pc = "upload" /\ Same(r, z, {"reader", "wanted"})
  /\ r.wanted > 0 /\ ~r.reader.error /\ z.wanted = r.wanted - Payload(r.wanted)
  /\ z.reader \in ReadResults(r.reader, Plan(OpenedFile(r)), r.wanted)
RunsCopy(r, z) ==
  /\ r.pc = "upload" /\ Same(r, z, {"reader", "memory"})
  /\ r.reader.queue # <<>> /\ z.memory = UploadHead(r.reader, r.memory)
  /\ z.reader = [r.reader EXCEPT !.queue = Tail(@)]
Ends(r, z) ==
  /\ r.pc = "upload" /\ z.pc = "ready" /\ Same(r, z, {"pc", "reader"})
  /\ r.reader.position = r.reader.size /\ r.reader.queue = <<>>
LoadBecomes(s, z) ==
  LET r == sess[s] IN
  \/ Fails(r, z) \/ Locates(s, z) \/ Reads(s, z) \/ Refits(r, z) \/ Continues(r, z)
  \/ Seeks(r, z) \/ Requests(r, z) \/ ReadsMore(r, z) \/ RunsCopy(r, z) \/ Ends(r, z)

\* Every step of a load touches its own record only, in one of these ways.
LEMMA LoadsBecome ==
  ASSUME SessionsOK, NEW s \in Sessions, LoadStep(s)
  PROVE  /\ UNCHANGED <<files, store, models, lock>> /\ Loads(sess[s])
         /\ \E z : sess' = [sess EXCEPT ![s] = z] /\ Loads(z) /\ LoadBecomes(s, z)
<1> PICK r : r = sess[s]
  OBVIOUS
<1> DEFINE Moves == \E z : sess' = [sess EXCEPT ![s] = z] /\ Loads(z) /\ LoadBecomes(s, z)
<1>1. Loads(r) /\ r.pc \in LoadPcs /\ UNCHANGED <<files, store, models, lock>>
  <2>1. r.pc \in {"locate", "read", "refit", "upload"} \/ IsLoad(s)
    BY DEF LoadStep, LocateEngine, ReadEngine, RefitEngine, CreateLoadedContext, SeekWeights, RequestWeights,
           ReadWeights, RunUpload, FailUpload, LoadDeferredWeights, At
  <2>2. Loads(r)
    BY <2>1, Kinds DEF LoadPcs
  <2>3. UNCHANGED <<files, store, models, lock>>
    BY DEF LoadStep, LocateEngine, ReadEngine, RefitEngine, CreateLoadedContext, SeekWeights, RequestWeights,
           ReadWeights, RunUpload, FailUpload, LoadDeferredWeights
  <2> QED
    BY <2>2, <2>3 DEF Loads
<1>2. Has(r, LoadFields)
  BY <1>1 DEF Loads
<1> SUFFICES Moves
  BY <1>1
<1>3. ASSUME NEW why, FailLoad(s, why), why \in Refusals => Refused(r) PROVE Moves
  <2> PICK z : z = [r EXCEPT !.pc = "failed", !.why = why]
    OBVIOUS
  <2>1. sess' = [sess EXCEPT ![s] = z]
    BY <1>3 DEF FailLoad
  <2>2. Loads(z)
    BY <1>2 DEF Loads, Has, LoadFields, LoadPcs
  <2>3. z.pc = "failed" /\ z.why = why /\ Same(r, z, {"pc", "why"})
    BY <1>2 DEF Has, LoadFields, Same
  <2>4. Fails(r, z)
    BY <1>3, <2>3 DEF Fails
  <2> QED
    BY <2>1, <2>2, <2>4 DEF LoadBecomes
<1>4. ASSUME NEW why, FailLoad(s, why), why \notin Refusals PROVE Moves
  <2> HIDE DEF Moves
  <2> QED
    BY <1>3, <1>4
<1>5. CASE LocateEngine(s)
  <2>0. r.pc = "locate"
    BY <1>5 DEF LocateEngine, At
  <2>1. CASE r.model.embed
    <3> PICK z : z = [r EXCEPT !.bytes = r.model.bytes, !.pc = "read"]
      OBVIOUS
    <3>1. sess' = [sess EXCEPT ![s] = z]
      BY <1>5, <2>1 DEF LocateEngine, LocateEmbedded
    <3>2. Loads(z)
      BY <1>2 DEF Loads, Has, LoadFields, LoadPcs
    <3>3. z.pc = "read" /\ z.bytes = r.model.bytes /\ Same(r, z, {"pc", "bytes"})
      BY <1>2 DEF Has, LoadFields, Same
    <3>4. Locates(s, z)
      BY <2>0, <2>1, <3>3 DEF Locates
    <3> QED
      BY <3>1, <3>2, <3>4 DEF LoadBecomes
  <2>2. CASE ~r.model.embed
    <3> DEFINE m == r.model
               used == UsesRefittedCache(s)
               from == IF used THEN RefittedPath(m.path) ELSE m.path
               refit == NeedsRefit(s) /\ ~used
               next == [r EXCEPT !.from = from, !.refit = refit, !.complete = used, !.pc = "read"]
    <3>1. \/ FailLoad(s, "path") \/ FailLoad(s, "callback") \/ FailLoad(s, "missing")
          \/ /\ r.opt.callbacks /\ m.path \in DOMAIN store
             /\ sess' = [sess EXCEPT ![s] = [next EXCEPT !.bytes = store[m.path]]]
          \/ ~r.opt.callbacks /\ Exists(from) /\ sess' = [sess EXCEPT ![s] = next]
      <4>1. LocateFile(s)
        BY <1>5, <2>2 DEF LocateEngine
      <4> QED
        BY <4>1 DEF LocateFile
    <3> HIDE DEF from, refit, used
    <3>2. Has(next, LoadFields) /\ next.pc = "read"
      BY <1>2 DEF Has, LoadFields
    <3>3. /\ next.from = from /\ next.refit = refit /\ next.complete = used /\ next.bytes = r.bytes
          /\ Same(r, next, {"pc", "from", "refit", "complete"})
      BY <1>2 DEF Has, LoadFields, Same
    <3> HIDE DEF next
    <3>4. CASE ~r.opt.callbacks /\ Exists(from) /\ sess' = [sess EXCEPT ![s] = next]
      <4>1. Loads(next)
        BY <3>2 DEF Loads, LoadPcs
      <4>2. Same(r, next, {"pc", "bytes", "from", "refit", "complete"})
        BY <3>3 DEF Same
      <4>3. Locates(s, next)
        BY <2>0, <2>2, <3>2, <3>3, <3>4, <4>2 DEF Locates, from, used, refit
      <4> QED
        BY <3>4, <4>1, <4>3 DEF LoadBecomes
    <3>5. CASE /\ r.opt.callbacks /\ m.path \in DOMAIN store
               /\ sess' = [sess EXCEPT ![s] = [next EXCEPT !.bytes = store[m.path]]]
      <4> PICK b : b = store[m.path]
        OBVIOUS
      <4> PICK z : z = [next EXCEPT !.bytes = b]
        OBVIOUS
      <4>1. /\ Has(z, LoadFields) /\ z.pc = "read" /\ z.bytes = b /\ z.from = next.from
            /\ z.refit = next.refit /\ z.complete = next.complete /\ Same(next, z, {"bytes"})
        BY <3>2 DEF Has, LoadFields, Same
      <4>2. Loads(z)
        BY <4>1 DEF Loads, LoadPcs
      <4>3. Same(r, z, {"pc", "bytes", "from", "refit", "complete"})
        BY <3>3, <4>1 DEF Same
      <4>4. Locates(s, z)
        BY <2>0, <2>2, <3>3, <3>5, <4>1, <4>3 DEF Locates, from, used, refit
      <4> QED
        BY <3>5, <4>2, <4>4 DEF LoadBecomes
    <3> HIDE DEF Moves
    <3>6. ASSUME NEW why \in {"path", "callback", "missing"}, FailLoad(s, why) PROVE Moves
      BY <1>4, <3>6 DEF Refusals
    <3> QED
      BY <3>1, <3>4, <3>5, <3>6
  <2> QED
    BY <2>1, <2>2
<1>6. CASE ReadEngine(s)
  <2> PICK b : b = OnDisk(r)
    OBVIOUS
  <2> DEFINE q == NewReader(IF DefersWeights(s, b) THEN Len(Plan(b)) ELSE 0)
             w == IF DefersWeights(s, b) THEN [i \in DOMAIN WeightBytes(b) |-> NoByte]
                  ELSE IF Streams(s, b) THEN Tail(HostBytes(NewReader(Len(Plan(b))), Plan(b), Len(Plan(b))))
                  ELSE WeightBytes(b)
  <2>1. /\ r.pc = "read"
        /\ \/ FailLoad(s, "missing") \/ FailLoad(s, "not an engine")
           \/ /\ b # NoFile /\ b.whole
              /\ sess' = [sess EXCEPT ![s].engine = Deserialized(b), ![s].bytes = b, ![s].reader = q,
                                      ![s].memory = w, ![s].pc = "refit"]
    BY <1>6 DEF ReadEngine, OnDisk, At
  <2> HIDE DEF q, w
  <2>2. CASE /\ b # NoFile /\ b.whole
             /\ sess' = [sess EXCEPT ![s].engine = Deserialized(b), ![s].bytes = b, ![s].reader = q,
                                     ![s].memory = w, ![s].pc = "refit"]
    <3> PICK e : e = Deserialized(b)
      OBVIOUS
    <3> PICK z : z = [r EXCEPT !.engine = e, !.bytes = b, !.reader = q, !.memory = w, !.pc = "refit"]
      OBVIOUS
    <3>1. sess' = [sess EXCEPT ![s] = z]
      BY <2>2
    <3>2. Loads(z)
      BY <1>2 DEF Loads, Has, LoadFields, LoadPcs
    <3>3. /\ z.pc = "refit" /\ z.engine = e /\ z.bytes = b /\ z.reader = q /\ z.memory = w
          /\ Same(r, z, {"pc", "engine", "bytes", "reader", "memory"})
      BY <1>2 DEF Has, LoadFields, Same
    <3>4. Reads(s, z)
      BY <2>1, <2>2, <3>3 DEF Reads, q, w
    <3> QED
      BY <3>1, <3>2, <3>4 DEF LoadBecomes
  <2>3. ASSUME NEW why \in {"missing", "not an engine"}, FailLoad(s, why) PROVE Moves
    <3> HIDE DEF Moves
    <3> QED
      BY <1>4, <2>3 DEF Refusals
  <2> HIDE DEF Moves
  <2> QED
    BY <2>1, <2>2, <2>3
<1>7. CASE RefitEngine(s)
  <2>0. r.pc = "refit"
    BY <1>7 DEF RefitEngine, At
  <2>1. ASSUME NEW why \in {"refitter", "no table", "corrupt table"}, FailLoad(s, why) PROVE Moves
    <3> HIDE DEF Moves
    <3> QED
      BY <1>4, <2>1 DEF Refusals
  <2>2. ASSUME r.complete \/ (r.model.table = NoTable /\ ~r.refit), sess' = [sess EXCEPT ![s].pc = "context"]
        PROVE  Moves
    <3> PICK z : z = [r EXCEPT !.pc = "context"]
      OBVIOUS
    <3>1. sess' = [sess EXCEPT ![s] = z] /\ Loads(z)
      BY <1>2, <2>2 DEF Loads, Has, LoadFields, LoadPcs
    <3>2. z.pc = "context" /\ z.engine = r.engine /\ Same(r, z, {"pc", "engine"})
      BY <1>2 DEF Has, LoadFields, Same
    <3>3. Refits(r, z)
      BY <2>0, <2>2, <3>2 DEF Refits
    <3> QED
      BY <3>1, <3>3 DEF LoadBecomes
  <2>3. ASSUME r.model.table # NoTable, TableRecords(r) # Corrupt, Replay(r).status = "ok",
               sess' = [sess EXCEPT ![s].engine.weights = Replay(r).weights, ![s].pc = "context"]
        PROVE  Moves
    <3> PICK w : w = Replay(r).weights
      OBVIOUS
    <3> PICK e : e = [r.engine EXCEPT !.weights = w]
      OBVIOUS
    <3> PICK z : z = [r EXCEPT !.engine = e, !.pc = "context"]
      OBVIOUS
    <3>1. sess' = [sess EXCEPT ![s] = z] /\ Loads(z)
      BY <1>2, <2>3 DEF Loads, Has, LoadFields, LoadPcs
    <3>2. z.pc = "context" /\ z.engine = e /\ Same(r, z, {"pc", "engine"})
      BY <1>2 DEF Has, LoadFields, Same
    <3>3. Refits(r, z)
      BY <2>0, <2>3, <3>2 DEF Refits
    <3> QED
      BY <3>1, <3>3 DEF LoadBecomes
  <2>4. \/ (r.complete \/ (r.model.table = NoTable /\ ~r.refit)) /\ sess' = [sess EXCEPT ![s].pc = "context"]
        \/ r.model.table # NoTable /\ RefitFromTable(s)
        \/ FailLoad(s, "refitter") \/ FailLoad(s, "no table")
    BY <1>7 DEF RefitEngine
  <2>5. ASSUME r.model.table # NoTable, RefitFromTable(s) PROVE Moves
    <3> PICK x : x = TableRecords(r)
      OBVIOUS
    <3> PICK u : u = Replay(r)
      OBVIOUS
    <3>0. SuppliedWeights(s) = Supplied(r)
      BY DEF SuppliedWeights, Supplied
    <3>1. \/ FailLoad(s, "corrupt table")
          \/ x # Corrupt /\ u.status # "ok" /\ FailLoad(s, u.status)
          \/ x # Corrupt /\ u.status = "ok" /\ sess' = [sess EXCEPT ![s].engine.weights = u.weights, ![s].pc = "context"]
      BY <2>5, <3>0 DEF RefitFromTable, TableRecords, Replay
    <3>2. CASE x # Corrupt /\ u.status # "ok" /\ FailLoad(s, u.status)
      <4>1. Refused(r)
        BY <2>5, <3>2 DEF Refused
      <4> HIDE DEF Moves
      <4> QED
        BY <1>3, <3>2, <4>1
    <3> HIDE DEF Moves
    <3> QED
      BY <2>1, <2>3, <2>5, <3>1, <3>2
  <2> HIDE DEF Moves
  <2> QED
    BY <2>1, <2>2, <2>4, <2>5
<1>8. CASE CreateLoadedContext(s)
  <2>1. CASE FailLoad(s, "context")
    <3> HIDE DEF Moves
    <3> QED
      BY <1>4, <2>1 DEF Refusals
  <2>2. CASE sess' = [sess EXCEPT ![s].pc = "upload"]
    <3> PICK z : z = [r EXCEPT !.pc = "upload"]
      OBVIOUS
    <3>1. sess' = [sess EXCEPT ![s] = z] /\ Loads(z)
      BY <1>2, <2>2 DEF Loads, Has, LoadFields, LoadPcs
    <3>2. z.pc = "upload" /\ Same(r, z, {"pc"})
      BY <1>2 DEF Has, LoadFields, Same
    <3>3. Continues(r, z)
      BY <1>8, <3>2 DEF Continues, CreateLoadedContext, At
    <3> QED
      BY <3>1, <3>3 DEF LoadBecomes
  <2> QED
    BY <1>8, <2>1, <2>2 DEF CreateLoadedContext
<1>9. CASE SeekWeights(s)
  <2>0. r.pc = "upload"
    BY <1>9 DEF SeekWeights, At
  <2>1. CASE FailLoad(s, "seek")
    <3> HIDE DEF Moves
    <3> QED
      BY <1>4, <2>1 DEF Refusals
  <2>2. ASSUME NEW move \in {<<1, "set">>, <<1, "cur">>, <<1 - r.reader.size, "end">>},
               r.reader.size > 0, r.reader.position = 0,
               sess' = [sess EXCEPT ![s].reader = [r.reader EXCEPT !.position = Seek(r.reader, move[1], move[2])]]
        PROVE  Moves
    <3> PICK q : q = [r.reader EXCEPT !.position = Seek(r.reader, move[1], move[2])]
      OBVIOUS
    <3> PICK z : z = [r EXCEPT !.reader = q]
      OBVIOUS
    <3>1. Loads(z) /\ sess' = [sess EXCEPT ![s] = z]
      BY <1>2, <2>0, <2>2 DEF Loads, Has, LoadFields, LoadPcs
    <3>2. z.reader = q /\ Same(r, z, {"reader"})
      BY <1>2 DEF Has, LoadFields, Same
    <3>3. Seeks(r, z)
      BY <2>0, <2>2, <3>2 DEF Seeks
    <3> QED
      BY <3>1, <3>3 DEF LoadBecomes
  <2> HIDE DEF Moves
  <2> QED
    BY <1>9, <2>1, <2>2 DEF SeekWeights, WithReader
<1>10. CASE RequestWeights(s)
  <2>1. PICK n \in 1 .. Available(r.reader) : sess' = [sess EXCEPT ![s].wanted = n]
    BY <1>10 DEF RequestWeights
  <2>2. r.pc = "upload" /\ r.reader.position > 0 /\ r.wanted = 0
    BY <1>10 DEF RequestWeights, At
  <2> PICK z : z = [r EXCEPT !.wanted = n]
    OBVIOUS
  <2>3. Loads(z) /\ sess' = [sess EXCEPT ![s] = z]
    BY <1>2, <2>1, <2>2 DEF Loads, Has, LoadFields, LoadPcs
  <2>4. z.wanted = n /\ Same(r, z, {"wanted"})
    BY <1>2 DEF Has, LoadFields, Same
  <2>5. Requests(r, z)
    BY <2>2, <2>4 DEF Requests
  <2> QED
    BY <2>3, <2>5 DEF LoadBecomes
<1>11. CASE ReadWeights(s)
  <2>1. PICK q \in ReadResults(r.reader, Plan(OpenedFile(r)), r.wanted) :
             sess' = [sess EXCEPT ![s].reader = q, ![s].wanted = @ - Payload(@)]
    BY <1>11 DEF ReadWeights, OpenFile, OpenedFile, ReadResults
  <2>2. r.pc = "upload" /\ r.wanted > 0 /\ ~r.reader.error
    BY <1>11 DEF ReadWeights, At
  <2> PICK n : n = r.wanted - Payload(r.wanted)
    OBVIOUS
  <2> PICK z : z = [r EXCEPT !.reader = q, !.wanted = n]
    OBVIOUS
  <2>3. Loads(z)
    BY <1>2, <2>2 DEF Loads, Has, LoadFields, LoadPcs
  <2>4. sess' = [sess EXCEPT ![s] = z]
    BY <2>1
  <2>5. z.reader = q /\ z.wanted = n /\ Same(r, z, {"reader", "wanted"})
    BY <1>2 DEF Has, LoadFields, Same
  <2>6. ReadsMore(r, z)
    BY <2>1, <2>2, <2>5 DEF ReadsMore
  <2> QED
    BY <2>3, <2>4, <2>6 DEF LoadBecomes
<1>12. CASE RunUpload(s)
  <2>1. r.pc = "upload" /\ r.reader.queue # <<>>
    BY <1>12 DEF RunUpload, At
  <2> PICK w : w = UploadHead(r.reader, r.memory)
    OBVIOUS
  <2> PICK q : q = [r.reader EXCEPT !.queue = Tail(@)]
    OBVIOUS
  <2> PICK z : z = [r EXCEPT !.memory = w, !.reader = q]
    OBVIOUS
  <2>2. Loads(z)
    BY <1>2, <2>1 DEF Loads, Has, LoadFields, LoadPcs
  <2>3. sess' = [sess EXCEPT ![s] = z]
    BY <1>12 DEF RunUpload
  <2>4. z.reader = q /\ z.memory = w /\ Same(r, z, {"reader", "memory"})
    BY <1>2 DEF Has, LoadFields, Same
  <2>5. RunsCopy(r, z)
    BY <2>1, <2>4 DEF RunsCopy
  <2> QED
    BY <2>2, <2>3, <2>5 DEF LoadBecomes
<1>13. CASE FailUpload(s)
  <2>1. FailLoad(s, "upload")
    BY <1>13 DEF FailUpload
  <2> HIDE DEF Moves
  <2> QED
    BY <1>4, <2>1 DEF Refusals
<1>14. CASE LoadDeferredWeights(s)
  <2> PICK q : q = NewReader(0)
    OBVIOUS
  <2> PICK z : z = [r EXCEPT !.pc = "ready", !.reader = q]
    OBVIOUS
  <2>1. sess' = [sess EXCEPT ![s] = z]
    BY <1>14 DEF LoadDeferredWeights
  <2>2. Loads(z)
    BY <1>2 DEF Loads, Has, LoadFields, LoadPcs
  <2>3. z.pc = "ready" /\ Same(r, z, {"pc", "reader"})
    BY <1>2 DEF Has, LoadFields, Same
  <2>4. Ends(r, z)
    BY <1>14, <2>3 DEF Ends, LoadDeferredWeights, At, Synchronized
  <2> QED
    BY <2>1, <2>2, <2>4 DEF LoadBecomes
<1> HIDE DEF Moves
<1> QED
  BY <1>5, <1>6, <1>7, <1>8, <1>9, <1>10, <1>11, <1>12, <1>13, <1>14 DEF LoadStep

\* A step of a load, as a step.
LEMMA LoadStepOK ==
  ASSUME EpContextAssumption, OwnDirectories, SessionsOK, NEW s \in Sessions, LoadStep(s)
  PROVE  StepOK(s)
<1>1. Loads(sess[s]) /\ sess[s].pc # "compiled"
  BY LoadsBecome DEF Loads, LoadPcs
<1>2. PICK z : sess' = [sess EXCEPT ![s] = z] /\ Loads(z)
  BY LoadsBecome
<1>3. UNCHANGED <<files, store, models>>
  BY LoadsBecome
<1>4. ~("at" \in DOMAIN sess[s])
  BY <1>1 DEF Loads, Has, LoadFields
<1>5. Tidy(sess[s], z, files, files')
  BY <1>3, <1>4 DEF Tidy, Owns
<1>6. PublishedBy(sess[s], z, models, models') /\ KeptBy(s, files, files') /\ KeptBy(s, store, store')
  BY <1>1, <1>3 DEF PublishedBy, KeptBy
<1>7. SessionOK(s, z, files', store')
  BY <1>2 DEF SessionOK
<1> QED
  BY <1>2, <1>5, <1>6, <1>7 DEF StepOK

\* Every step of a session.
LEMMA EveryStepOK ==
  ASSUME EpContextAssumption, OwnDirectories, SessionsOK, NEW s \in Sessions,
         StartCompile(s) \/ StartLoad(s) \/ Step(s)
  PROVE  StepOK(s)
<1>1. CASE StartCompile(s) \/ StartLoad(s)
  BY <1>1, StartStep
<1>2. CASE LoadStep(s)
  BY <1>2, LoadStepOK
<1>3. CASE CompileStep(s)
  BY <1>3, ParseStep, OpenStep, BuildStep, FinalizeStep, DeserializeStep, ExportStep, SkipStep, ContextStep,
     EndStep, UnwindStep, PublishStep DEF CompileStep
<1> QED
  BY <1>1, <1>2, <1>3 DEF Step

-----------------------------------------------------------------------------
(* The invariant *)

\* What is published came from a compile that is done, and what is temporary or
\* partial is the output of a compile.
Attributed ==
  \A m \in Exported : \E s \in Sessions :
    IsCompile(s) /\ sess[s].pc = "compiled" /\ m \in ToSet(sess[s].exported)
LeftOwned ==
  \A p \in DOMAIN files \ DOMAIN InitialFiles :
    Partial(files, p) => \E s \in Sessions : Owns(sess[s], p)
EnginesInv == SessionsOK /\ Attributed /\ LeftOwned

\* It holds at the start.
LEMMA EnginesInit ==
  ASSUME Init
  PROVE  EnginesInv
BY DEF Init, EnginesInv, SessionsOK, SessionOK, Attributed, Exported, LeftOwned

\* A session's step keeps it.
LEMMA EnginesStep ==
  ASSUME EpContextAssumption, OwnDirectories, EnginesInv, NEW s \in Sessions, StepOK(s)
  PROVE  EnginesInv'
<1>1. PICK z : /\ sess' = [sess EXCEPT ![s] = z]
               /\ KeptBy(s, files, files') /\ KeptBy(s, store, store')
               /\ SessionOK(s, z, files', store')
               /\ Tidy(sess[s], z, files, files') /\ PublishedBy(sess[s], z, models, models')
  BY DEF StepOK
<1>2. /\ sess' = [t \in Sessions |-> sess'[t]] /\ sess'[s] = z
      /\ \A t \in Sessions : t # s => sess'[t] = sess[t]
  BY <1>1 DEF EnginesInv, SessionsOK
<1>3. SessionsOK'
  <2>1. ASSUME NEW t \in Sessions PROVE SessionOK(t, sess'[t], files', store')
    <3>1. CASE t = s
      BY <1>1, <1>2, <3>1
    <3>2. CASE t # s
      <4>1. SessionOK(t, sess[t], files, store) /\ sess'[t] = sess[t]
        BY <1>2, <3>2 DEF EnginesInv, SessionsOK
      <4>2. Compiles(t, sess[t], files, store) => Compiles(t, sess[t], files', store')
        BY <1>1, <3>2, OthersKept
      <4> QED
        BY <4>1, <4>2 DEF SessionOK
    <3> QED
      BY <3>1, <3>2
  <2> QED
    BY <1>2, <2>1 DEF SessionsOK
<1>4. Attributed'
  <2> SUFFICES ASSUME NEW m \in models' \ InitialModels
               PROVE  \E t \in Sessions : /\ "at" \in DOMAIN sess'[t] /\ sess'[t].pc = "compiled"
                                          /\ m \in ToSet(sess'[t].exported)
    BY DEF Attributed, Exported, IsCompile
  <2>1. CASE m \in models
    <3>1. PICK t \in Sessions : IsCompile(t) /\ sess[t].pc = "compiled" /\ m \in ToSet(sess[t].exported)
      BY <2>1 DEF EnginesInv, Attributed, Exported
    <3>2. t # s
      BY <1>1, <3>1 DEF PublishedBy
    <3> QED
      BY <1>2, <3>1, <3>2 DEF IsCompile
  <2>2. CASE m \notin models
    <3>1. z.pc = "compiled" /\ "at" \in DOMAIN z /\ m \in ToSet(z.exported)
      BY <1>1, <2>2 DEF PublishedBy
    <3> QED
      BY <1>2, <3>1
  <2> QED
    BY <2>1, <2>2
<1>5. LeftOwned'
  <2> SUFFICES ASSUME NEW p \in DOMAIN files' \ DOMAIN InitialFiles, Partial(files', p)
               PROVE  \E t \in Sessions : Owns(sess'[t], p)
    BY DEF LeftOwned
  <2>1. CASE p \notin DOMAIN files \/ files'[p] # files[p] \/ Owns(sess[s], p)
    <3>1. Owns(z, p)
      BY <1>1, <2>1 DEF Tidy
    <3> QED
      BY <1>2, <3>1
  <2>2. CASE p \in DOMAIN files /\ files'[p] = files[p] /\ ~Owns(sess[s], p)
    <3>1. Partial(files, p)
      BY <2>2 DEF Partial
    <3>2. PICK t \in Sessions : Owns(sess[t], p)
      BY <2>2, <3>1 DEF EnginesInv, LeftOwned
    <3> QED
      BY <1>2, <2>2, <3>2
  <2> QED
    BY <2>1, <2>2
<1> QED
  BY <1>3, <1>4, <1>5 DEF EnginesInv

\* A compile that dies with the process leaves what it had written.
LEMMA CrashesCompiling ==
  ASSUME NEW s, NEW r, NEW fs, NEW st, Compiles(s, r, fs, st), r.pc # "failed"
  PROVE  Compiles(s, [r EXCEPT !.pc = "crashed"], fs, st)
<1> PICK z : z = [r EXCEPT !.pc = "crashed"]
  OBVIOUS
<1> USE DEF Compiles, HelperOK
<1>1. /\ Has(z, CompileFields) /\ z.pc = "crashed" /\ z.opt = r.opt /\ z.at = r.at /\ z.out = r.out
      /\ z.open = r.open /\ z.preserved = r.preserved /\ z.bytes = r.bytes /\ z.exported = r.exported
  BY DEF CompileTypes, Has, CompileFields
<1>2. Of(z) = Of(r) /\ Built(z) = Built(r)
  BY <1>1 DEF Of, Built
<1>3. CompileTypes(z)
  BY <1>1 DEF CompileTypes, CompilePcs
<1>4. OutputPlaced(s, z)
  BY <1>1, <1>2 DEF OutputPlaced
<1>5. OutputHeld(z, fs) /\ OutputKept(s, z, fs) /\ CapturedFrom(z)
  BY <1>1, <1>2 DEF OutputHeld, OutputKept, CapturedFrom
<1>6. ExportsOK(s, z, fs, st)
  BY <1>1 DEF ExportsOK
<1> QED
  BY <1>3, <1>4, <1>5, <1>6

\* A crash keeps it.
LEMMA EnginesCrash ==
  ASSUME EnginesInv, Crash
  PROVE  EnginesInv'
<1>1. UNCHANGED <<files, store, models>>
  BY DEF Crash
<1>2. sess' = [t \in Sessions |-> IF Running(t) THEN [sess[t] EXCEPT !.pc = "crashed"] ELSE sess[t]]
  BY DEF Crash
<1>3. ASSUME NEW t \in Sessions, Running(t)
      PROVE  /\ SessionOK(t, sess'[t], files, store)
             /\ \A p : Owns(sess[t], p) => Owns(sess'[t], p)
             /\ sess[t].pc # "compiled"
  <2> PICK r : r = sess[t]
    OBVIOUS
  <2> PICK z : z = [r EXCEPT !.pc = "crashed"]
    OBVIOUS
  <2>1. sess'[t] = z
    BY <1>2, <1>3
  <2>2. r.pc # "compiled" /\ r.pc # "failed" /\ r # Idle
    BY <1>3 DEF Running, Idle
  <2>3. SessionOK(t, r, files, store)
    BY DEF EnginesInv, SessionsOK
  <2>4. CASE Compiles(t, r, files, store)
    <3>1. Compiles(t, z, files, store)
      BY <2>2, <2>4, CrashesCompiling
    <3>2. z.out = r.out /\ z.pc = "crashed" /\ "at" \in DOMAIN z
      BY <2>4 DEF Compiles, HelperOK, CompileTypes, Has, CompileFields
    <3> QED
      BY <2>1, <2>2, <3>1, <3>2 DEF SessionOK, Owns
  <2>5. CASE Loads(r)
    <3>1. Loads(z)
      BY <2>5 DEF Loads, Has, LoadFields, LoadPcs
    <3>2. ~("at" \in DOMAIN r)
      BY <2>5 DEF Loads, Has, LoadFields
    <3> QED
      BY <2>1, <2>2, <3>1, <3>2 DEF SessionOK, Owns
  <2> QED
    BY <2>2, <2>3, <2>4, <2>5 DEF SessionOK
<1>4. ASSUME NEW t \in Sessions, ~Running(t) PROVE sess'[t] = sess[t]
  BY <1>2, <1>4
<1>5. SessionsOK'
  <2>1. sess' = [t \in Sessions |-> sess'[t]]
    BY <1>2
  <2>2. ASSUME NEW t \in Sessions PROVE SessionOK(t, sess'[t], files, store)
    BY <1>3, <1>4 DEF EnginesInv, SessionsOK
  <2> QED
    BY <1>1, <2>1, <2>2 DEF SessionsOK
<1>6. Attributed'
  <2> SUFFICES ASSUME NEW m \in models \ InitialModels
               PROVE  \E t \in Sessions : /\ "at" \in DOMAIN sess'[t] /\ sess'[t].pc = "compiled"
                                          /\ m \in ToSet(sess'[t].exported)
    BY <1>1 DEF Attributed, Exported, IsCompile
  <2>1. PICK t \in Sessions : IsCompile(t) /\ sess[t].pc = "compiled" /\ m \in ToSet(sess[t].exported)
    BY DEF EnginesInv, Attributed, Exported
  <2>2. sess'[t] = sess[t]
    BY <1>3, <1>4, <2>1
  <2> QED
    BY <2>1, <2>2 DEF IsCompile
<1>7. LeftOwned'
  <2> SUFFICES ASSUME NEW p \in DOMAIN files \ DOMAIN InitialFiles, Partial(files, p)
               PROVE  \E t \in Sessions : Owns(sess'[t], p)
    BY <1>1 DEF LeftOwned, Partial
  <2>1. PICK t \in Sessions : Owns(sess[t], p)
    BY DEF EnginesInv, LeftOwned
  <2> QED
    BY <1>3, <1>4, <2>1
<1> QED
  BY <1>5, <1>6, <1>7 DEF EnginesInv

\* It is an invariant.
LEMMA EnginesInvariant ==
  ASSUME OwnDirectories
  PROVE  Spec => []EnginesInv
<1> USE EpContextAssumption
<1>1. Init => EnginesInv
  BY EnginesInit
<1>2. EnginesInv /\ [Next]_vars => EnginesInv'
  <2> SUFFICES ASSUME EnginesInv, [Next]_vars PROVE EnginesInv'
    OBVIOUS
  <2>1. CASE UNCHANGED vars
    BY <2>1 DEF vars, EnginesInv, SessionsOK, SessionOK, Attributed, LeftOwned, Exported, IsCompile, Partial
  <2>2. ASSUME NEW s \in Sessions, StartCompile(s) \/ StartLoad(s) \/ Step(s) PROVE EnginesInv'
    <3>1. StepOK(s)
      BY <2>2, EveryStepOK DEF EnginesInv
    <3> QED
      BY <3>1, EnginesStep
  <2>3. CASE Crash
    BY <2>3, EnginesCrash
  <2> QED
    BY <2>1, <2>2, <2>3 DEF Next
<1> QED
  BY <1>1, <1>2, PTL DEF Spec

(***************************************************************************)
(* PublishedEnginesComplete holds in every behaviour: whatever compiles of *)
(* whatever model fail, crash and overwrite, in whatever order, what the   *)
(* published EPContext nodes refer to is there, whole, and of the node.    *)
(***************************************************************************)
THEOREM EnginesPublishedComplete ==
  ASSUME OwnDirectories
  PROVE  Spec => []PublishedEnginesComplete
<1> USE EpContextAssumption
<1>1. EnginesInv => PublishedEnginesComplete
  <2> SUFFICES ASSUME EnginesInv, NEW m \in Exported
               PROVE  /\ EngineOf(m) # NoFile
                      /\ EngineOf(m).whole
                      /\ EngineOf(m).node = m.node
                      /\ EngineOf(m).stripped = (m.table # NoTable)
    BY DEF PublishedEnginesComplete
  <2>1. PICK s \in Sessions : IsCompile(s) /\ sess[s].pc = "compiled" /\ m \in ToSet(sess[s].exported)
    BY DEF EnginesInv, Attributed
  <2> PICK r : r = sess[s]
    OBVIOUS
  <2>2. Compiles(s, r, files, store)
    BY <2>1, Kinds DEF EnginesInv
  <2>3. ExportOK(s, r, m, files, store)
    BY <2>1, <2>2 DEF Compiles, ExportsOK
  <2>4. EngineOf(m) = EngineBytes(m.node, r.opt.stripped, TRUE)
    BY <2>3 DEF ExportOK, EngineOf, Found, Exists
  <2>5. m.node \in DOMAIN NodeInfo /\ r.opt.stripped \in BOOLEAN
    <3>1. CompileTypes(r)
      BY <2>2 DEF Compiles, HelperOK
    <3>2. /\ r.opt.stripped \in BOOLEAN /\ Of(r) \in DOMAIN NodeInfo /\ DOMAIN Nodes = 1 .. Len(Nodes)
          /\ r.at \in 1 .. Len(Nodes) /\ Len(Nodes) \in Nat
      BY <3>1, BuiltIsSomething
    <3>3. \A k \in 1 .. Len(Nodes) : Nodes[k] \in DOMAIN NodeInfo
      BY <3>2, ElementOfSeq DEF EpContextAssumption
    <3>4. m.node \in Past(r)
      BY <2>3 DEF ExportOK
    <3> QED
      BY <3>2, <3>3, <3>4 DEF Past
  <2>6. EngineBytes(m.node, r.opt.stripped, TRUE) # NoFile
    <3>1. EngineBytes(m.node, r.opt.stripped, TRUE) \in [node : DOMAIN NodeInfo, stripped : BOOLEAN, whole : BOOLEAN]
      BY <2>5 DEF EngineBytes
    <3> QED
      BY <3>1 DEF EpContextAssumption
  <2>7. r.opt.stripped = (m.table # NoTable)
    BY <2>3, <2>5 DEF ExportOK, TableOf
  <2> QED
    BY <2>4, <2>6, <2>7 DEF EngineBytes
<1> QED
  BY <1>1, EnginesInvariant, PTL

(***************************************************************************)
(* NothingLeftBehind holds in every behaviour: nothing temporary and       *)
(* nothing partly written is left by a compile that ended, however it did. *)
(***************************************************************************)
THEOREM NothingLeft ==
  ASSUME OwnDirectories
  PROVE  Spec => []NothingLeftBehind
<1>1. EnginesInv => NothingLeftBehind
  BY DEF EnginesInv, LeftOwned, NothingLeftBehind, Partial, Owns, IsCompile
<1> QED
  BY <1>1, EnginesInvariant, PTL

-----------------------------------------------------------------------------
(* The refit table *)

\* FlattenSeq goes through the sequences one by one.
LEMMA FlattenStepwise ==
  ASSUME NEW V, NEW q \in Seq(Seq(V))
  PROVE  \E it \in [0 .. Len(q) -> Seq(V)] :
            /\ it[0] = <<>> /\ it[Len(q)] = FlattenSeq(q)
            /\ \A n \in 1 .. Len(q) : it[n] = it[n - 1] \o q[n]
<1> DEFINE N == Len(q)
           Turn(f) == [i \in 1 .. N |-> IF i = 1 THEN q[i] ELSE f[i - 1] \o q[i]]
           flatten == CHOOSE f : f = Turn(f)
           G == [n \in 1 .. N |-> [v \in Seq(V) |-> v \o q[n]]]
<1>1. N \in Nat /\ \A n \in 1 .. N : q[n] \in Seq(V)
  BY ElementOfSeq, LenProperties
<1>2. FlattenSeq(q) = IF N = 0 THEN q ELSE flatten[N]
  BY DEF FlattenSeq
<1>3. PICK it \in [0 .. N -> Seq(V)] : Proceeds(it, N, <<>>, G)
  <2>1. Transforms(G, 1 .. N, Seq(V))
    BY <1>1, ConcatProperties DEF Transforms
  <2>2. <<>> \in Seq(V)
    BY EmptySeq
  <2> HIDE DEF G, N
  <2> QED
    BY <1>1, <2>1, <2>2, LoopRecursion
<1> HIDE DEF N
<1>4. it[0] = <<>> /\ \A n \in 1 .. N : n - 1 \in 0 .. N /\ n \in 0 .. N /\ it[n] = it[n - 1] \o q[n]
  <2>1. ASSUME NEW n \in 1 .. N PROVE n - 1 \in 0 .. N /\ n \in 0 .. N /\ it[n] = it[n - 1] \o q[n]
    <3>1. n - 1 \in 0 .. N /\ n \in 0 .. N /\ it[n - 1] \in Seq(V)
      BY <1>1, <1>3
    <3> QED
      BY <1>3, <3>1 DEF Proceeds
  <2> QED
    BY <1>3, <2>1 DEF Proceeds
<1>5. \E f : f = Turn(f)
  <2> DEFINE f == [i \in 1 .. N |-> it[i]]
  <2>1. ASSUME NEW i \in 1 .. N PROVE f[i] = Turn(f)[i]
    <3>1. CASE i = 1
      <4>0. 1 \in 1 .. N /\ 1 - 1 = 0
        BY <3>1
      <4>1. it[1] = <<>> \o q[1] /\ q[1] \in Seq(V)
        BY <1>1, <1>4, <4>0
      <4> QED
        BY <3>1, <4>1, ConcatEmptySeq
    <3>2. CASE i # 1
      <4>1. i - 1 \in 1 .. N
        BY <1>1, <3>2
      <4> QED
        BY <1>4, <3>2, <4>1
    <3> QED
      BY <3>1, <3>2
  <2>2. f = Turn(f)
    BY <2>1
  <2> QED
    BY <2>2
<1>6. flatten = Turn(flatten)
  <2> HIDE DEF Turn
  <2> QED
    BY <1>5
<1> HIDE DEF flatten
<1>7. \A n \in 0 .. N : n >= 1 => flatten[n] = it[n]
  <2> DEFINE T == {n \in 0 .. N : n >= 1 => flatten[n] = it[n]}
  <2>1. 0 \in T
    BY <1>1
  <2>2. ASSUME NEW n \in 1 .. N, n - 1 \in T PROVE n \in T
    <3>1. flatten[n] = IF n = 1 THEN q[n] ELSE flatten[n - 1] \o q[n]
      BY <1>6
    <3>2. CASE n = 1
      <4>0. 1 \in 1 .. N /\ 1 - 1 = 0
        BY <3>2
      <4>1. it[1] = <<>> \o q[1] /\ q[1] \in Seq(V)
        BY <1>1, <1>4, <4>0
      <4> QED
        BY <1>4, <3>1, <3>2, <4>1, ConcatEmptySeq
    <3>3. CASE n # 1
      <4>1. n \in 0 .. N /\ n - 1 >= 1
        BY <1>1, <3>3
      <4>2. flatten[n - 1] = it[n - 1]
        BY <2>2, <4>1
      <4> QED
        BY <1>4, <3>1, <3>3, <4>1, <4>2
    <3> QED
      BY <3>2, <3>3
  <2> HIDE DEF T
  <2>3. \A n \in 0 .. N : n \in T
    BY <1>1, <2>1, <2>2, UpTo
  <2> QED
    BY <2>3 DEF T
<1>8. it[N] = FlattenSeq(q)
  <2>1. CASE N = 0
    <3>1. q = <<>>
      BY <2>1, EmptySeq DEF N
    <3> QED
      BY <1>2, <1>4, <2>1, <3>1
  <2>2. CASE N # 0
    BY <1>1, <1>2, <1>7, <2>2
  <2> QED
    BY <2>1, <2>2
<1> QED
  BY <1>3, <1>4, <1>8 DEF N

\* What a field of a table may hold.
Field == Int \cup STRING \cup {Magic}

\* The fields of a record, and where they are.
LEMMA FieldsOf ==
  ASSUME NEW r \in WeightlessRefitRecord
  PROVE  LET ls == Len(r.source_onnx_names)
             ld == Len(r.fixed_data)
             f  == RecordFields(r)
         IN  /\ ls \in Nat /\ ld \in Nat
             /\ f \in Seq(Field) /\ Len(f) = 8 + ls + ld
             /\ f[1] = r.kind /\ f[2] = r.onnx_dtype /\ f[3] = r.trt_dtype
             /\ f[4] = r.count /\ f[5] = r.epsilon /\ f[6] = r.trt_name
             /\ f[7] = ls /\ \A i \in 1 .. ls : f[7 + i] = r.source_onnx_names[i]
             /\ f[8 + ls] = ld /\ \A i \in 1 .. ld : f[8 + ls + i] = r.fixed_data[i]
<1> DEFINE ls == Len(r.source_onnx_names)
           ld == Len(r.fixed_data)
           h  == <<r.kind, r.onnx_dtype, r.trt_dtype, r.count, r.epsilon, r.trt_name>>
           ss == <<ls>> \o r.source_onnx_names
           sd == <<ld>> \o r.fixed_data
           f  == (h \o ss) \o sd
<1>1. /\ r.kind \in Int /\ r.onnx_dtype \in Int /\ r.trt_dtype \in STRING /\ r.count \in Int
      /\ r.epsilon \in Int /\ r.trt_name \in STRING
      /\ r.source_onnx_names \in Seq(STRING) /\ r.fixed_data \in Seq(Nat)
  BY DEF WeightlessRefitRecord, Identity, ConstantOfShape
<1>2. /\ r.source_onnx_names \in Seq(Field) /\ r.fixed_data \in Seq(Field)
      /\ ls \in Nat /\ ld \in Nat
  <2>1. STRING \subseteq Field /\ Nat \subseteq Field
    <3>1. Nat \subseteq Int
      OBVIOUS
    <3> QED
      BY <3>1, Zenon DEF Field
  <2>2. r.source_onnx_names \in Seq(Field) /\ r.fixed_data \in Seq(Field)
    BY ONLY <1>1, <2>1, SeqMonotonic
  <2> QED
    BY <1>1, <2>2, LenProperties
<1>3. RecordFields(r) = f
  BY DEF RecordFields, Sized
<1>4. h \in Seq(Field) /\ Len(h) = 6
  <2>1. Int \subseteq Field /\ STRING \subseteq Field
    BY DEF Field
  <2>2. /\ r.kind \in Field /\ r.onnx_dtype \in Field /\ r.trt_dtype \in Field /\ r.count \in Field
        /\ r.epsilon \in Field /\ r.trt_name \in Field
    BY <1>1 DEF Field
  <2> HIDE DEF Field
  <2> QED
    BY <2>2
<1>5. /\ <<ls>> \in Seq(Field) /\ <<ld>> \in Seq(Field) /\ Len(<<ls>>) = 1 /\ Len(<<ld>>) = 1
      /\ <<ls>>[1] = ls /\ <<ld>>[1] = ld
  <2>1. ls \in Field /\ ld \in Field
    BY <1>2 DEF Field
  <2> HIDE DEF Field, ls, ld
  <2> QED
    BY <2>1
<1> HIDE DEF Field, ls, ld, h
<1>6. /\ ss \in Seq(Field) /\ Len(ss) = 1 + ls
      /\ \A i \in 1 .. 1 + ls : ss[i] = IF i <= 1 THEN <<ls>>[i] ELSE r.source_onnx_names[i - 1]
  BY <1>2, <1>5, ConcatProperties DEF ls
<1>7. /\ sd \in Seq(Field) /\ Len(sd) = 1 + ld
      /\ \A i \in 1 .. 1 + ld : sd[i] = IF i <= 1 THEN <<ld>>[i] ELSE r.fixed_data[i - 1]
  BY <1>2, <1>5, ConcatProperties DEF ld
<1> HIDE DEF ss, sd
<1>8. /\ h \o ss \in Seq(Field) /\ Len(h \o ss) = 7 + ls
      /\ \A i \in 1 .. 7 + ls : (h \o ss)[i] = IF i <= 6 THEN h[i] ELSE ss[i - 6]
  <2>1. /\ h \o ss \in Seq(Field) /\ Len(h \o ss) = Len(h) + Len(ss)
        /\ \A i \in 1 .. Len(h) + Len(ss) : (h \o ss)[i] = IF i <= Len(h) THEN h[i] ELSE ss[i - Len(h)]
    BY <1>4, <1>6, ConcatProperties
  <2>2. Len(h) + Len(ss) = 7 + ls
    BY <1>2, <1>4, <1>6
  <2> QED
    BY <1>4, <2>1, <2>2
<1>9. /\ f \in Seq(Field) /\ Len(f) = 8 + ls + ld
      /\ \A i \in 1 .. 8 + ls + ld : f[i] = IF i <= 7 + ls THEN (h \o ss)[i] ELSE sd[i - (7 + ls)]
  <2>1. /\ f \in Seq(Field) /\ Len(f) = Len(h \o ss) + Len(sd)
        /\ \A i \in 1 .. Len(h \o ss) + Len(sd) : f[i] = IF i <= Len(h \o ss) THEN (h \o ss)[i] ELSE sd[i - Len(h \o ss)]
    <3> DEFINE g == h \o ss
    <3>1. g \in Seq(Field) /\ sd \in Seq(Field)
      BY <1>7, <1>8
    <3> HIDE DEF g
    <3>2. /\ g \o sd \in Seq(Field) /\ Len(g \o sd) = Len(g) + Len(sd)
          /\ \A i \in 1 .. Len(g) + Len(sd) : (g \o sd)[i] = IF i <= Len(g) THEN g[i] ELSE sd[i - Len(g)]
      BY <3>1, ConcatProperties
    <3> QED
      BY <3>2 DEF g
  <2>2. Len(h \o ss) + Len(sd) = 8 + ls + ld
    BY <1>2, <1>7, <1>8
  <2> QED
    BY <1>8, <2>1, <2>2
<1> HIDE DEF f
<1>10. ASSUME NEW i \in 1 .. 6 PROVE f[i] = h[i]
  <2>1. i \in 1 .. 7 + ls /\ i \in 1 .. 8 + ls + ld /\ i <= 7 + ls /\ i <= 6
    BY <1>2
  <2>2. (h \o ss)[i] = h[i]
    BY ONLY <1>8, <2>1
  <2>3. f[i] = (h \o ss)[i]
    BY ONLY <1>9, <2>1
  <2> QED
    BY ONLY <2>2, <2>3
<1>11. f[7] = ls
  <2>1. f[7] = (h \o ss)[7] /\ (h \o ss)[7] = ss[1]
    BY <1>2, <1>8, <1>9
  <2> QED
    BY <1>2, <1>5, <1>6, <2>1
<1>12. ASSUME NEW i \in 1 .. ls PROVE f[7 + i] = r.source_onnx_names[i]
  <2>1. f[7 + i] = (h \o ss)[7 + i] /\ (h \o ss)[7 + i] = ss[1 + i]
    BY <1>2, <1>8, <1>9
  <2>2. 1 + i \in 1 .. 1 + ls /\ ~(1 + i <= 1) /\ (1 + i) - 1 = i
    BY <1>2
  <2> QED
    BY <1>6, <2>1, <2>2
<1>13. f[8 + ls] = ld
  <2>1. f[8 + ls] = sd[1]
    BY <1>2, <1>9
  <2> QED
    BY <1>2, <1>5, <1>7, <2>1
<1>14. ASSUME NEW i \in 1 .. ld PROVE f[8 + ls + i] = r.fixed_data[i]
  <2>1. f[8 + ls + i] = sd[1 + i]
    BY <1>2, <1>9
  <2>2. 1 + i \in 1 .. 1 + ld /\ ~(1 + i <= 1) /\ (1 + i) - 1 = i
    BY <1>2
  <2> QED
    BY <1>7, <2>1, <2>2
<1>15. /\ h[1] = r.kind /\ h[2] = r.onnx_dtype /\ h[3] = r.trt_dtype
       /\ h[4] = r.count /\ h[5] = r.epsilon /\ h[6] = r.trt_name
  BY DEF h
<1> QED
  <2>1. /\ ls \in Nat /\ ld \in Nat
        /\ f \in Seq(Field) /\ Len(f) = 8 + ls + ld
        /\ f[1] = r.kind /\ f[2] = r.onnx_dtype /\ f[3] = r.trt_dtype
        /\ f[4] = r.count /\ f[5] = r.epsilon /\ f[6] = r.trt_name
        /\ f[7] = ls /\ \A i \in 1 .. ls : f[7 + i] = r.source_onnx_names[i]
        /\ f[8 + ls] = ld /\ \A i \in 1 .. ld : f[8 + ls + i] = r.fixed_data[i]
    <3>1. 1 \in 1 .. 6 /\ 2 \in 1 .. 6 /\ 3 \in 1 .. 6 /\ 4 \in 1 .. 6 /\ 5 \in 1 .. 6 /\ 6 \in 1 .. 6
      OBVIOUS
    <3>2. f[1] = h[1] /\ f[2] = h[2] /\ f[3] = h[3] /\ f[4] = h[4] /\ f[5] = h[5] /\ f[6] = h[6]
      BY <1>10, <3>1
    <3> QED
      BY ONLY <1>2, <1>9, <1>11, <1>12, <1>13, <1>14, <1>15, <3>2
  <2> QED
    BY <1>3, <2>1 DEF ls, ld

\* How long a record is in the table.
Width(r) == 8 + Len(r.source_onnx_names) + Len(r.fixed_data)

\* It is a number.
LEMMA WidthIs ==
  ASSUME NEW r \in WeightlessRefitRecord
  PROVE  Width(r) \in Nat
<1> DEFINE ls == Len(r.source_onnx_names)
           ld == Len(r.fixed_data)
<1>1. ls \in Nat /\ ld \in Nat
  BY FieldsOf
<1>2. Width(r) = 8 + ls + ld
  BY DEF Width
<1> HIDE DEF ls, ld
<1> QED
  BY <1>1, <1>2

\* What is read from where one sequence of sequences was written.
LEMMA FlattenLayout ==
  ASSUME NEW V, NEW q \in Seq(Seq(V))
  PROVE  /\ FlattenSeq(q) \in Seq(V)
         /\ \E at \in [0 .. Len(q) -> Nat] :
              /\ at[0] = 0 /\ at[Len(q)] = Len(FlattenSeq(q))
              /\ \A n \in 1 .. Len(q) :
                   /\ at[n] = at[n - 1] + Len(q[n]) /\ at[n] <= Len(FlattenSeq(q))
                   /\ \A i \in 1 .. Len(q[n]) : FlattenSeq(q)[at[n - 1] + i] = q[n][i]
<1> DEFINE N == Len(q)
<1>1. PICK it \in [0 .. N -> Seq(V)] :
            /\ it[0] = <<>> /\ it[N] = FlattenSeq(q)
            /\ \A n \in 1 .. N : it[n] = it[n - 1] \o q[n]
  BY FlattenStepwise
<1>2. N \in Nat /\ \A n \in 1 .. N : q[n] \in Seq(V)
  BY ElementOfSeq, LenProperties
<1> HIDE DEF N
<1> DEFINE L(n) == Len(it[n])
<1>3. /\ N \in 0 .. N /\ 0 \in 0 .. N
      /\ \A n \in 0 .. N : it[n] \in Seq(V) /\ L(n) \in Nat
      /\ \A n \in 1 .. N : n \in 0 .. N /\ n - 1 \in 0 .. N
  <2>1. \A n \in 0 .. N : it[n] \in Seq(V) /\ L(n) \in Nat
    BY <1>1, LenProperties
  <2> QED
    BY <1>2, <2>1
<1>4. ASSUME NEW n \in 1 .. N
      PROVE  /\ Len(q[n]) \in Nat /\ L(n) = L(n - 1) + Len(q[n])
             /\ \A i \in 1 .. L(n) : it[n][i] = IF i <= L(n - 1) THEN it[n - 1][i] ELSE q[n][i - L(n - 1)]
  <2>1. it[n - 1] \in Seq(V) /\ q[n] \in Seq(V) /\ it[n] = it[n - 1] \o q[n]
    BY <1>1, <1>2, <1>3
  <2>2. /\ Len(it[n - 1] \o q[n]) = Len(it[n - 1]) + Len(q[n])
        /\ \A i \in 1 .. Len(it[n - 1]) + Len(q[n]) : (it[n - 1] \o q[n])[i] =
              IF i <= Len(it[n - 1]) THEN it[n - 1][i] ELSE q[n][i - Len(it[n - 1])]
    BY <2>1, ConcatProperties
  <2>3. Len(q[n]) \in Nat
    BY <2>1, LenProperties
  <2> QED
    BY <2>1, <2>2, <2>3
<1> DEFINE Below(n, m) == L(n) <= L(m) /\ \A i \in 1 .. L(n) : it[m][i] = it[n][i]
           T == {m \in 0 .. N : \A n \in 0 .. m : Below(n, m)}
<1>5. \A m \in 0 .. N : m \in T
  <2>1. ASSUME NEW n \in 0 .. N PROVE Below(n, n)
    BY <1>3
  <2>2. 0 \in T
    BY <1>3, <2>1
  <2>3. ASSUME NEW m \in 1 .. N, m - 1 \in T PROVE m \in T
    <3>1. ASSUME NEW n \in 0 .. m PROVE Below(n, m)
      <4>1. CASE n = m
        BY <1>3, <2>1, <4>1
      <4>2. CASE n # m
        <5>1. n \in 0 .. m - 1 /\ n \in 0 .. N /\ m - 1 \in 0 .. N
          BY <1>2, <4>2
        <5>2. Below(n, m - 1)
          BY <2>3, <5>1
        <5>3. /\ L(n) \in Nat /\ L(m) \in Nat /\ L(m - 1) \in Nat /\ Len(q[m]) \in Nat /\ L(m) = L(m - 1) + Len(q[m])
              /\ \A i \in 1 .. L(m) : it[m][i] = IF i <= L(m - 1) THEN it[m - 1][i] ELSE q[m][i - L(m - 1)]
          BY <1>3, <1>4, <5>1
        <5>4. L(n) <= L(m - 1) /\ \A i \in 1 .. L(n) : it[m - 1][i] = it[n][i]
          BY <5>2
        <5> HIDE DEF L
        <5>5. ASSUME NEW i \in 1 .. L(n) PROVE it[m][i] = it[n][i]
          <6>1. i \in 1 .. L(m) /\ i <= L(m - 1)
            BY <5>3, <5>4
          <6> QED
            BY <5>3, <5>4, <6>1
        <5> QED
          BY <5>3, <5>4, <5>5
      <4> QED
        BY <4>1, <4>2
    <3> HIDE DEF Below
    <3> QED
      BY <1>3, <3>1
  <2> HIDE DEF T
  <2> QED
    BY <1>2, <2>2, <2>3, UpTo
<1>6. ASSUME NEW n \in 0 .. N PROVE Below(n, N)
  <2>1. N \in T
    BY <1>3, <1>5
  <2> HIDE DEF Below
  <2> QED
    BY <2>1
<1> DEFINE at == [n \in 0 .. N |-> L(n)]
<1>7. at \in [0 .. N -> Nat] /\ at[0] = 0 /\ at[N] = Len(FlattenSeq(q))
  BY <1>1, <1>3, EmptySeq
<1>8. ASSUME NEW n \in 1 .. N
      PROVE  /\ at[n] = at[n - 1] + Len(q[n]) /\ at[n] <= Len(FlattenSeq(q))
             /\ \A i \in 1 .. Len(q[n]) : FlattenSeq(q)[at[n - 1] + i] = q[n][i]
  <2>1. at[n] = L(n) /\ at[n - 1] = L(n - 1) /\ n \in 0 .. N
    BY <1>3
  <2>2. L(n) <= L(N) /\ \A i \in 1 .. L(n) : it[N][i] = it[n][i]
    BY <1>3, <1>6
  <2>3. L(n) \in Nat /\ L(n - 1) \in Nat /\ L(N) = Len(FlattenSeq(q)) /\ it[N] = FlattenSeq(q)
    BY <1>1, <1>3
  <2>4. /\ Len(q[n]) \in Nat /\ L(n) = L(n - 1) + Len(q[n])
        /\ \A i \in 1 .. L(n) : it[n][i] = IF i <= L(n - 1) THEN it[n - 1][i] ELSE q[n][i - L(n - 1)]
    BY <1>4
  <2> HIDE DEF L, at
  <2>5. ASSUME NEW i \in 1 .. Len(q[n]) PROVE FlattenSeq(q)[L(n - 1) + i] = q[n][i]
    <3>1. L(n - 1) + i \in 1 .. L(n) /\ ~(L(n - 1) + i <= L(n - 1)) /\ (L(n - 1) + i) - L(n - 1) = i
      BY <2>3, <2>4
    <3> QED
      BY <2>2, <2>3, <2>4, <3>1
  <2> QED
    BY <2>1, <2>2, <2>3, <2>4, <2>5
<1>9. FlattenSeq(q) \in Seq(V)
  BY <1>1, <1>3
<1> QED
  BY <1>7, <1>8, <1>9 DEF N

\* How long an interval is.
LEMMA SameLength ==
  ASSUME NEW m \in Nat, NEW n \in Nat, 1 .. m = 1 .. n
  PROVE  m = n
<1>1. m < n => n \in 1 .. n /\ n \notin 1 .. m
  OBVIOUS
<1>2. n < m => m \in 1 .. m /\ m \notin 1 .. n
  OBVIOUS
<1> QED
  BY <1>1, <1>2

\* The bytes of a table before its length is checked.
Buffer(records) ==
  <<Magic, Version, Len(records)>> \o FlattenSeq([i \in DOMAIN records |-> RecordFields(records[i])])

\* Where the records are in it: record n begins after the at[n - 1] fields.
Laid(b, records, at) ==
  /\ at \in [0 .. Len(records) -> Nat] /\ at[0] = 3 /\ at[Len(records)] = Len(b)
  /\ \A n \in 1 .. Len(records) :
       /\ at[n] = at[n - 1] + Width(records[n]) /\ at[n] <= Len(b)
       /\ \A i \in 1 .. Width(records[n]) : b[at[n - 1] + i] = RecordFields(records[n])[i]

\* The table of a sequence of records.
LEMMA TableLayout ==
  ASSUME NEW records \in Seq(WeightlessRefitRecord)
  PROVE  LET b == Buffer(records) IN
         /\ b \in Seq(Field) /\ Len(b) >= 3 /\ b[1] = Magic /\ b[2] = Version /\ b[3] = Len(records)
         /\ \E at : Laid(b, records, at)
<1> DEFINE N == Len(records)
           h == <<Magic, Version, N>>
           q == [i \in DOMAIN records |-> RecordFields(records[i])]
           b == h \o FlattenSeq(q)
<1>1. N \in Nat /\ DOMAIN records = 1 .. N /\ \A n \in 1 .. N : records[n] \in WeightlessRefitRecord
  BY LenProperties, ElementOfSeq
<1> HIDE DEF N
<1>2. ASSUME NEW n \in 1 .. N
      PROVE  RecordFields(records[n]) \in Seq(Field) /\ Len(RecordFields(records[n])) = Width(records[n])
  BY <1>1, FieldsOf DEF Width
<1>3. q \in Seq(Seq(Field)) /\ Len(q) = N /\ \A n \in 1 .. N : q[n] = RecordFields(records[n])
  <2>1. q = [i \in 1 .. N |-> RecordFields(records[i])]
    BY <1>1
  <2>2. q \in [1 .. N -> Seq(Field)]
    BY <1>2, <2>1
  <2>3. q \in Seq(Seq(Field))
    BY <1>1, <2>2, SeqDef
  <2>4. DOMAIN q = 1 .. Len(q) /\ Len(q) \in Nat
    BY <2>3, LenProperties
  <2>5. DOMAIN q = 1 .. N
    BY <2>2
  <2> HIDE DEF q
  <2>6. Len(q) = N
    BY <1>1, <2>4, <2>5, SameLength
  <2> QED
    BY <2>1, <2>3, <2>6
<1> HIDE DEF q
<1>4. h \in Seq(Field) /\ Len(h) = 3 /\ h[1] = Magic /\ h[2] = Version /\ h[3] = N
  <2>1. Magic \in Field /\ Version \in Field /\ N \in Field
    <3>1. Version \in Int /\ N \in Int
      BY <1>1 DEF Version
    <3> QED
      BY <3>1 DEF Field
  <2> HIDE DEF Field
  <2> QED
    BY <2>1
<1> HIDE DEF h
<1>5. /\ FlattenSeq(q) \in Seq(Field)
      /\ \E at \in [0 .. Len(q) -> Nat] :
              /\ at[0] = 0 /\ at[Len(q)] = Len(FlattenSeq(q))
              /\ \A n \in 1 .. Len(q) :
                   /\ at[n] = at[n - 1] + Len(q[n]) /\ at[n] <= Len(FlattenSeq(q))
                   /\ \A i \in 1 .. Len(q[n]) : FlattenSeq(q)[at[n - 1] + i] = q[n][i]
  <2>1. q \in Seq(Seq(Field))
    BY <1>3
  <2> QED
    BY ONLY <2>1, FlattenLayout
<1>6. PICK at \in [0 .. N -> Nat] :
              /\ at[0] = 0 /\ at[N] = Len(FlattenSeq(q))
              /\ \A n \in 1 .. N :
                   /\ at[n] = at[n - 1] + Len(q[n]) /\ at[n] <= Len(FlattenSeq(q))
                   /\ \A i \in 1 .. Len(q[n]) : FlattenSeq(q)[at[n - 1] + i] = q[n][i]
  BY <1>3, <1>5
<1>7. /\ b \in Seq(Field) /\ Len(b) = 3 + Len(FlattenSeq(q)) /\ Len(FlattenSeq(q)) \in Nat
      /\ \A i \in 1 .. 3 + Len(FlattenSeq(q)) : b[i] = IF i <= 3 THEN h[i] ELSE FlattenSeq(q)[i - 3]
  <2> DEFINE g == FlattenSeq(q)
  <2>1. g \in Seq(Field)
    BY <1>5
  <2> HIDE DEF g
  <2>2. /\ h \o g \in Seq(Field) /\ Len(h \o g) = Len(h) + Len(g) /\ Len(g) \in Nat
        /\ \A i \in 1 .. Len(h) + Len(g) : (h \o g)[i] = IF i <= Len(h) THEN h[i] ELSE g[i - Len(h)]
    BY <1>4, <2>1, ConcatProperties, LenProperties
  <2> QED
    BY <1>4, <2>2 DEF g
<1> HIDE DEF b
<1> DEFINE st == [n \in 0 .. N |-> 3 + at[n]]
<1>8. st \in [0 .. N -> Nat] /\ st[0] = 3 /\ st[N] = Len(b)
  BY <1>1, <1>6, <1>7
<1>9. ASSUME NEW n \in 1 .. N
      PROVE  /\ st[n] = st[n - 1] + Width(records[n]) /\ st[n] <= Len(b)
             /\ \A i \in 1 .. Width(records[n]) : b[st[n - 1] + i] = RecordFields(records[n])[i]
  <2>1. /\ st[n] = 3 + at[n] /\ st[n - 1] = 3 + at[n - 1] /\ at[n - 1] \in Nat /\ at[n] \in Nat
        /\ Len(q[n]) = Width(records[n]) /\ q[n] = RecordFields(records[n])
    <3>1. N \in Nat /\ n \in 1 .. N /\ n \in 0 .. N /\ n - 1 \in 0 .. N
      BY <1>1
    <3>2. Len(q[n]) = Width(records[n]) /\ q[n] = RecordFields(records[n])
      BY <1>2, <1>3, <3>1
    <3>3. at[n - 1] \in Nat /\ at[n] \in Nat
      BY ONLY <1>6, <3>1
    <3> QED
      BY <3>1, <3>2, <3>3
  <2>2. /\ at[n] = at[n - 1] + Len(q[n]) /\ at[n] <= Len(FlattenSeq(q))
        /\ \A i \in 1 .. Len(q[n]) : FlattenSeq(q)[at[n - 1] + i] = q[n][i]
    BY <1>6
  <2>w. Width(records[n]) \in Nat
    BY <1>1, FieldsOf DEF Width
  <2> HIDE DEF st
  <2>3. ASSUME NEW i \in 1 .. Width(records[n]) PROVE b[st[n - 1] + i] = RecordFields(records[n])[i]
    <3> DEFINE L == Len(FlattenSeq(q))
               a == at[n - 1]
               w == Width(records[n])
               j == 3 + a + i
    <3>1. L \in Nat /\ a \in Nat /\ w \in Nat /\ a + w <= L /\ i \in 1 .. w
      BY <1>7, <2>1, <2>2, <2>w
    <3> HIDE DEF L, a, w
    <3>2. j \in 1 .. 3 + L /\ ~(j <= 3) /\ j - 3 = a + i /\ j = st[n - 1] + i
      <4>1. a = at[n - 1]
        BY DEF a
      <4>2. st[n - 1] = 3 + a
        BY ONLY <2>1, <4>1
      <4> QED
        BY <3>1, <4>2
    <3> HIDE DEF j
    <3>4. b[j] = FlattenSeq(q)[a + i]
      <4>1. \A k \in 1 .. 3 + L : b[k] = IF k <= 3 THEN h[k] ELSE FlattenSeq(q)[k - 3]
        BY <1>7 DEF L
      <4>2. b[j] = FlattenSeq(q)[j - 3]
        BY ONLY <3>2, <4>1
      <4> QED
        BY <3>2, <4>2
    <3>3. FlattenSeq(q)[at[n - 1] + i] = RecordFields(records[n])[i]
      BY <2>1, <2>2
    <3> QED
      BY <3>2, <3>3, <3>4 DEF a
  <2> QED
    BY <1>7, <2>1, <2>2, <2>3
<1>10. Laid(b, records, st)
  BY <1>8, <1>9 DEF Laid, N
<1>11. b = Buffer(records)
  BY DEF b, h, q, Buffer, N
<1>12. b[1] = Magic /\ b[2] = Version /\ b[3] = N /\ Len(b) >= 3
  BY <1>4, <1>7
<1> QED
  BY <1>7, <1>10, <1>11, <1>12 DEF N

\* A part of a sequence that holds what another does is that sequence.
LEMMA SameFields ==
  ASSUME NEW E, NEW F, E \subseteq F, NEW t \in Seq(E), NEW x \in Seq(F), NEW p \in Nat, p + Len(t) <= Len(x),
         \A i \in 1 .. Len(t) : x[p + i] = t[i]
  PROVE  SubSeq(x, p + 1, p + Len(t)) = t
<1> DEFINE L == Len(t)
           m == p + 1
           n == p + L
           u == SubSeq(x, m, n)
<1>1. L \in Nat /\ Len(x) \in Nat /\ t \in Seq(F)
  BY LenProperties, SeqMonotonic
<1>2. m \in Int /\ n \in Int /\ \A i \in m .. n : x[i] \in F
  <2>1. ASSUME NEW i \in p + 1 .. p + L PROVE x[i] \in F
    BY <1>1, <2>1, ElementOfSeq
  <2> QED
    BY <1>1, <2>1
<1>m. m = p + 1 /\ n = p + L
  OBVIOUS
<1> HIDE DEF L, m, n
<1>3. /\ u \in Seq(F)
      /\ Len(u) = IF m <= n THEN n - m + 1 ELSE 0
      /\ \A i \in 1 .. n - m + 1 : u[i] = x[m + i - 1]
  BY <1>2, SubSeqProperties
<1> HIDE DEF u
<1>4. Len(u) = L /\ n - m + 1 = L
  BY <1>1, <1>3, <1>m
<1>5. ASSUME NEW i \in 1 .. L PROVE u[i] = t[i]
  <2>1. m + i - 1 = p + i
    BY <1>1, <1>m
  <2> QED
    BY <1>3, <1>4, <2>1 DEF L
<1>6. u = t
  <2>1. Len(u) = Len(t) /\ \A i \in 1 .. Len(u) : u[i] = t[i]
    BY <1>4, <1>5 DEF L
  <2> QED
    BY <1>1, <1>3, <2>1, SeqEqual
<1> QED
  BY <1>6 DEF u, L, m, n

\* Reading a record where it was written, in a blob that may end early.
LEMMA ReadsRecord ==
  ASSUME NEW r \in WeightlessRefitRecord, NEW x \in Seq(Field), NEW p \in Nat,
         \A i \in 1 .. Width(r) : p + i <= Len(x) => x[p + i] = RecordFields(r)[i]
  PROVE  /\ HasRecord(x, p + 1) <=> p + Width(r) <= Len(x)
         /\ HasRecord(x, p + 1) => RecordAt(x, p + 1) = r /\ NextRecord(x, p + 1) = p + Width(r) + 1
<1> DEFINE ls == Len(r.source_onnx_names)
           ld == Len(r.fixed_data)
           f == RecordFields(r)
           L == Len(x)
<1>1. /\ ls \in Nat /\ ld \in Nat /\ Width(r) = 8 + ls + ld /\ L \in Nat
      /\ f[1] = r.kind /\ f[2] = r.onnx_dtype /\ f[3] = r.trt_dtype
      /\ f[4] = r.count /\ f[5] = r.epsilon /\ f[6] = r.trt_name
      /\ f[7] = ls /\ \A i \in 1 .. ls : f[7 + i] = r.source_onnx_names[i]
      /\ f[8 + ls] = ld /\ \A i \in 1 .. ld : f[8 + ls + i] = r.fixed_data[i]
  BY FieldsOf, LenProperties DEF Width
<1>0. \A i \in 1 .. 8 + ls + ld : p + i <= L => x[p + i] = f[i]
  BY <1>1
<1> HIDE DEF ls, ld, f, L
<1>2. Sources(p + 1) = p + 7
  BY DEF Sources
<1>3. p + 7 <= L => x[p + 7] = ls
  BY <1>0, <1>1
<1>4. p + 7 <= L => Data(x, p + 1) = p + 8 + ls
  <2> SUFFICES ASSUME p + 7 <= L PROVE Data(x, p + 1) = p + 8 + ls
    OBVIOUS
  <2>1. Data(x, p + 1) = p + 7 + 1 + ls
    BY <1>2, <1>3 DEF Data
  <2> QED
    BY <1>1, <2>1
<1>5. p + 8 + ls <= L => x[p + 8 + ls] = ld
  <2> PICK j : j = 8 + ls
    OBVIOUS
  <2>1. j \in 1 .. 8 + ls + ld /\ p + 8 + ls = p + j
    BY <1>1
  <2>2. p + j <= L => x[p + j] = f[j]
    BY <1>0, <2>1
  <2> QED
    BY <1>1, <2>1, <2>2
<1>6. HasSized(x, p + 7) <=> p + 7 + ls <= L
  BY ONLY <1>1, <1>3 DEF HasSized, L
<1>7. HasSized(x, p + 8 + ls) <=> p + 8 + ls + ld <= L
  BY ONLY <1>1, <1>5 DEF HasSized, L
<1>8. HasRecord(x, p + 1) <=> p + 8 + ls + ld <= L
  <2>1. CASE p + 7 + ls <= L
    <3>1. Data(x, p + 1) = p + 8 + ls
      BY <1>1, <1>4, <2>1
    <3> QED
      BY <1>2, <1>6, <1>7, <2>1, <3>1 DEF HasRecord
  <2>2. CASE ~(p + 7 + ls <= L)
    BY <1>1, <1>2, <1>6, <2>2 DEF HasRecord
  <2> QED
    BY <2>1, <2>2
<1>9. ASSUME p + 8 + ls + ld <= L
      PROVE  RecordAt(x, p + 1) = r /\ NextRecord(x, p + 1) = p + Width(r) + 1
  <2>1. Data(x, p + 1) = p + 8 + ls /\ x[p + 8 + ls] = ld /\ x[p + 7] = ls
    BY <1>1, <1>3, <1>4, <1>5, <1>9
  <2>2. NextRecord(x, p + 1) = p + Width(r) + 1
    BY ONLY <1>1, <2>1 DEF NextRecord
  <2>3. /\ r.source_onnx_names \in Seq(STRING) /\ r.fixed_data \in Seq(Nat)
        /\ STRING \subseteq Field /\ Nat \subseteq Field
    <3>1. r.source_onnx_names \in Seq(STRING) /\ r.fixed_data \in Seq(Nat)
      BY DEF WeightlessRefitRecord
    <3>2. Nat \subseteq Int
      OBVIOUS
    <3>3. STRING \subseteq Field /\ Int \subseteq Field
      BY Zenon DEF Field
    <3> QED
      BY <3>1, <3>2, <3>3
  <2>4. SizedAt(x, Sources(p + 1)) = r.source_onnx_names
    <3>1. ASSUME NEW i \in 1 .. ls PROVE x[p + 7 + i] = r.source_onnx_names[i]
      <4> PICK j : j = 7 + i
        OBVIOUS
      <4>1. j \in 1 .. 8 + ls + ld /\ p + 7 + i = p + j /\ p + j <= L
        BY <1>1, <1>9
      <4>2. x[p + j] = f[j] /\ f[j] = r.source_onnx_names[i]
        BY <1>0, <1>1, <4>1
      <4> QED
        BY <4>1, <4>2
    <3>2. p + 7 \in Nat /\ p + 7 + Len(r.source_onnx_names) <= Len(x)
      <4>1. p + 7 \in Nat /\ p + 7 + ls <= L
        BY <1>1, <1>9
      <4> QED
        BY <4>1 DEF ls, L
    <3>3. SubSeq(x, p + 7 + 1, p + 7 + Len(r.source_onnx_names)) = r.source_onnx_names
      BY ONLY <2>3, <3>1, <3>2, SameFields DEF ls
    <3> QED
      BY <1>2, <2>1, <3>3 DEF SizedAt, ls
  <2>5. SizedAt(x, Data(x, p + 1)) = r.fixed_data
    <3> PICK d : d = p + 8 + ls
      OBVIOUS
    <3>1. ASSUME NEW i \in 1 .. ld PROVE x[d + i] = r.fixed_data[i]
      <4> PICK j : j = 8 + ls + i
        OBVIOUS
      <4>1. j \in 1 .. 8 + ls + ld /\ d + i = p + j /\ p + j <= L
        BY <1>1, <1>9
      <4>2. x[p + j] = f[j] /\ f[j] = r.fixed_data[i]
        BY <1>0, <1>1, <4>1
      <4> QED
        BY <4>1, <4>2
    <3>2. d \in Nat /\ d + Len(r.fixed_data) <= Len(x)
      <4>1. d \in Nat /\ d + ld <= L
        BY <1>1, <1>9
      <4> QED
        BY <4>1 DEF ld, L
    <3>3. SubSeq(x, d + 1, d + Len(r.fixed_data)) = r.fixed_data
      <4>1. \A i \in 1 .. Len(r.fixed_data) : x[d + i] = r.fixed_data[i]
        BY <3>1 DEF ld
      <4> QED
        BY ONLY x \in Seq(Field), <2>3, <3>2, <4>1, SameFields
    <3> QED
      BY <2>1, <3>3 DEF SizedAt, ld
  <2>6. /\ x[p + 1] = r.kind /\ x[p + 2] = r.onnx_dtype /\ x[p + 3] = r.trt_dtype
        /\ x[p + 4] = r.count /\ x[p + 5] = r.epsilon /\ x[p + 6] = r.trt_name
    BY <1>0, <1>1, <1>9
  <2>7. /\ p + 1 + 1 = p + 2 /\ p + 1 + 2 = p + 3 /\ p + 1 + 3 = p + 4 /\ p + 1 + 4 = p + 5 /\ p + 1 + 5 = p + 6
    OBVIOUS
  <2>8. RecordAt(x, p + 1) =
          [kind |-> r.kind, onnx_dtype |-> r.onnx_dtype, trt_dtype |-> r.trt_dtype,
           count |-> r.count, epsilon |-> r.epsilon, trt_name |-> r.trt_name,
           source_onnx_names |-> r.source_onnx_names, fixed_data |-> r.fixed_data]
    BY ONLY <2>4, <2>5, <2>6, <2>7 DEF RecordAt
  <2>9. r = [kind |-> r.kind, onnx_dtype |-> r.onnx_dtype, trt_dtype |-> r.trt_dtype,
             count |-> r.count, epsilon |-> r.epsilon, trt_name |-> r.trt_name,
             source_onnx_names |-> r.source_onnx_names, fixed_data |-> r.fixed_data]
    BY DEF WeightlessRefitRecord
  <2> QED
    BY <2>2, <2>8, <2>9
<1> QED
  BY <1>1, <1>8, <1>9 DEF L

\* What the reading loop has at any time.
ReadStates(x) == [ok : BOOLEAN, pos : Nat, records : Seq({RecordAt(x, p) : p \in Nat})]

\* One turn of the reading loop.
LEMMA ReadTurn ==
  ASSUME NEW x, NEW v \in ReadStates(x)
  PROVE  ReadRecord(x, v) \in ReadStates(x)
<1> DEFINE R == {RecordAt(x, p) : p \in Nat}
<1>1. v.ok \in BOOLEAN /\ v.pos \in Nat /\ v.records \in Seq(R)
  BY DEF ReadStates
<1>2. CASE v.ok /\ HasRecord(x, v.pos)
  <2>1. RecordAt(x, v.pos) \in R
    BY <1>1
  <2> HIDE DEF R
  <2>2. Append(v.records, RecordAt(x, v.pos)) \in Seq(R)
    BY <1>1, <2>1, AppendProperties
  <2>3. NextRecord(x, v.pos) \in Nat
    <3>1. x[Sources(v.pos)] \in Nat /\ x[Data(x, v.pos)] \in Nat
      BY <1>2 DEF HasRecord, HasSized
    <3>2. Sources(v.pos) \in Nat
      BY <1>1 DEF Sources
    <3>3. Data(x, v.pos) \in Nat
      BY <3>1, <3>2 DEF Data
    <3> QED
      BY <3>1, <3>3 DEF NextRecord
  <2> QED
    BY <1>2, <2>2, <2>3 DEF ReadRecord, ReadStates, R
<1>3. CASE ~(v.ok /\ HasRecord(x, v.pos))
  BY <1>3 DEF ReadRecord, ReadStates
<1> QED
  BY <1>2, <1>3

\* The reading loop goes through the records one by one.
LEMMA ReadStepwise ==
  ASSUME NEW x, NEW N \in Nat
  PROVE  \E it \in [0 .. N -> ReadStates(x)] :
            /\ it[0] = FirstRecord /\ it[N] = ReadRecords(x, N)
            /\ \A n \in 1 .. N : it[n] = ReadRecord(x, it[n - 1])
<1> DEFINE V == ReadStates(x)
           Turn(f) == [n \in 0 .. N |-> IF n = 0 THEN FirstRecord ELSE ReadRecord(x, f[n - 1])]
           read == CHOOSE f : f = Turn(f)
           G == [n \in 1 .. N |-> [v \in V |-> ReadRecord(x, v)]]
<1>1. ReadRecords(x, N) = read[N]
  BY DEF ReadRecords
<1>2. PICK it \in [0 .. N -> V] : Proceeds(it, N, FirstRecord, G)
  <2>1. Transforms(G, 1 .. N, V)
    BY ReadTurn DEF Transforms
  <2>2. FirstRecord \in V
    <3>1. <<>> \in Seq({RecordAt(x, p) : p \in Nat})
      BY EmptySeq
    <3> QED
      BY <3>1 DEF FirstRecord, ReadStates
  <2> HIDE DEF G, V
  <2> QED
    BY <2>1, <2>2, LoopRecursion
<1>3. ASSUME NEW n \in 1 .. N PROVE it[n] = ReadRecord(x, it[n - 1])
  <2>1. n \in 1 .. N /\ it[n - 1] \in V
    <3>1. n - 1 \in 0 .. N
      OBVIOUS
    <3> QED
      BY <3>1
  <2>2. it[n] = G[n][it[n - 1]]
    BY <1>2 DEF Proceeds
  <2> HIDE DEF V
  <2> QED
    BY <2>1, <2>2
<1>4. it[0] = FirstRecord
  BY <1>2 DEF Proceeds
<1>5. \E f : f = Turn(f)
  <2>1. ASSUME NEW n \in 0 .. N PROVE it[n] = Turn(it)[n]
    <3>1. CASE n = 0
      BY <1>4, <3>1
    <3>2. CASE n # 0
      <4>1. n \in 1 .. N
        BY <3>2
      <4> QED
        BY <1>3, <3>2, <4>1
    <3> QED
      BY <3>1, <3>2
  <2>2. it = Turn(it)
    BY <2>1
  <2> QED
    BY <2>2
<1>6. read = Turn(read)
  <2> HIDE DEF Turn
  <2> QED
    BY <1>5
<1> HIDE DEF read
<1>7. \A n \in 0 .. N : read[n] = it[n]
  <2> DEFINE T == {n \in 0 .. N : read[n] = it[n]}
  <2>1. 0 \in T
    <3>1. 0 \in 0 .. N
      OBVIOUS
    <3> QED
      BY <1>4, <1>6, <3>1
  <2>2. ASSUME NEW n \in 1 .. N, n - 1 \in T PROVE n \in T
    <3>1. n \in 0 .. N /\ n # 0
      OBVIOUS
    <3>2. read[n] = ReadRecord(x, read[n - 1])
      BY <1>6, <3>1
    <3> QED
      BY <1>3, <2>2, <3>1, <3>2
  <2> HIDE DEF T
  <2>3. \A n \in 0 .. N : n \in T
    BY <2>1, <2>2, UpTo
  <2> QED
    BY <2>3 DEF T
<1>8. it[N] = ReadRecords(x, N)
  <2>1. N \in 0 .. N
    OBVIOUS
  <2> QED
    BY <1>1, <1>7, <2>1
<1> QED
  BY <1>3, <1>4, <1>8

\* What a blob reads as that agrees with a table as far as both go.
LEMMA TableReads ==
  ASSUME NEW records \in Seq(WeightlessRefitRecord), NEW x \in Seq(Field),
         \A i \in 1 .. Len(Buffer(records)) : i <= Len(x) => x[i] = Buffer(records)[i]
  PROVE  DeserializeWeightlessRefitTable(x) = IF Len(x) = Len(Buffer(records)) THEN records ELSE Corrupt
<1> DEFINE b == Buffer(records)
           N == Len(records)
           L == Len(x)
<1>1. /\ b \in Seq(Field) /\ Len(b) >= 3 /\ b[1] = Magic /\ b[2] = Version /\ b[3] = N
      /\ \E at : Laid(b, records, at)
  BY TableLayout
<1>2. PICK at : Laid(b, records, at)
  BY <1>1
<1>3. /\ N \in Nat /\ L \in Nat /\ Len(b) \in Nat
      /\ \A n \in 1 .. N : records[n] \in WeightlessRefitRecord /\ Width(records[n]) \in Nat
  <2>1. \A n \in 1 .. N : records[n] \in WeightlessRefitRecord
    BY ElementOfSeq
  <2>2. ASSUME NEW n \in 1 .. N PROVE Width(records[n]) \in Nat
    <3>1. records[n] \in WeightlessRefitRecord
      BY <2>1
    <3> QED
      BY <3>1, WidthIs
  <2> QED
    BY <1>1, <2>1, <2>2, LenProperties
<1>4. \A i \in 1 .. Len(b) : i <= L => x[i] = b[i]
  OBVIOUS
<1> HIDE DEF b, N, L
<1>5. CASE L < 3
  BY <1>1, <1>5 DEF DeserializeWeightlessRefitTable, L, b
<1>6. CASE L >= 3
  <2>1. x[1] = Magic /\ x[2] = Version /\ x[3] = N /\ ~(L < 3)
    <3>1. 1 \in 1 .. Len(b) /\ 2 \in 1 .. Len(b) /\ 3 \in 1 .. Len(b) /\ 1 <= L /\ 2 <= L /\ 3 <= L /\ ~(L < 3)
      BY <1>1, <1>3, <1>6
    <3> QED
      BY <1>1, <1>4, <3>1
  <2>2. DeserializeWeightlessRefitTable(x) =
          LET last == ReadRecords(x, N) IN IF last.ok /\ AtEnd(x, last) THEN last.records ELSE Corrupt
    BY <2>1 DEF DeserializeWeightlessRefitTable, L
  <2>3. PICK it \in [0 .. N -> ReadStates(x)] :
            /\ it[0] = FirstRecord /\ it[N] = ReadRecords(x, N)
            /\ \A n \in 1 .. N : it[n] = ReadRecord(x, it[n - 1])
    BY ONLY <1>3, ReadStepwise
  <2>4. /\ at \in [0 .. N -> Nat] /\ at[0] = 3 /\ at[N] = Len(b)
        /\ \A n \in 1 .. N :
             /\ n - 1 \in 0 .. N /\ n \in 0 .. N
             /\ at[n] = at[n - 1] + Width(records[n]) /\ at[n] <= Len(b)
             /\ \A i \in 1 .. Width(records[n]) : b[at[n - 1] + i] = RecordFields(records[n])[i]
    <3>1. at \in [0 .. N -> Nat] /\ at[0] = 3 /\ at[N] = Len(b)
      BY ONLY <1>2 DEF Laid, N
    <3>2. ASSUME NEW n \in 1 .. N PROVE n - 1 \in 0 .. N /\ n \in 0 .. N
      BY ONLY <1>3, <3>2
    <3>3. \A n \in 1 .. N :
             /\ at[n] = at[n - 1] + Width(records[n]) /\ at[n] <= Len(b)
             /\ \A i \in 1 .. Width(records[n]) : b[at[n - 1] + i] = RecordFields(records[n])[i]
      BY ONLY <1>2 DEF Laid, N
    <3> QED
      BY ONLY <3>1, <3>2, <3>3
  <2> DEFINE Right(n) == /\ it[n].ok = (at[n] <= L)
                         /\ it[n].ok => /\ it[n].pos = at[n] + 1 /\ Len(it[n].records) = n
                                        /\ \A i \in 1 .. n : it[n].records[i] = records[i]
             T == {n \in 0 .. N : Right(n)}
  <2>5. 0 \in T
    <3>1. 0 \in 0 .. N /\ at[0] <= L /\ at[0] = 3
      BY <1>3, <1>6, <2>4
    <3>2. it[0].ok = TRUE /\ it[0].pos = 4 /\ it[0].records = <<>>
      BY <2>3 DEF FirstRecord
    <3>3. Len(<<>>) = 0 /\ 1 .. 0 = {}
      BY EmptySeq
    <3> QED
      <4>1. Right(0)
        <5>1. it[0].ok = (at[0] <= L)
          <6>1. (at[0] <= L) = TRUE
            BY <3>1
          <6> QED
            BY <3>2, <6>1
        <5>2. it[0].pos = at[0] + 1 /\ Len(it[0].records) = 0
          BY <3>1, <3>2, <3>3
        <5> QED
          BY <3>3, <5>1, <5>2
      <4> HIDE DEF Right
      <4> QED
        BY <3>1, <4>1
  <2>6. ASSUME NEW n \in 1 .. N, n - 1 \in T PROVE n \in T
    <3> DEFINE v == it[n - 1]
               r == records[n]
               p == at[n - 1]
    <3>1. /\ n - 1 \in 0 .. N /\ n \in 0 .. N /\ n \in Nat /\ n - 1 \in Nat /\ v \in ReadStates(x)
          /\ r \in WeightlessRefitRecord /\ p \in Nat /\ it[n] = ReadRecord(x, v) /\ Right(n - 1)
          /\ Width(r) \in Nat /\ at[n] = p + Width(r) /\ at[n] <= Len(b)
          /\ \A i \in 1 .. Width(r) : b[p + i] = RecordFields(r)[i]
      <4>1. Right(n - 1)
        <5> HIDE DEF Right
        <5> QED
          BY <2>6
      <4>2. n \in Nat /\ n - 1 \in Nat /\ n - 1 \in 0 .. N /\ n \in 0 .. N
        BY <1>3, <2>4
      <4>3. v \in ReadStates(x) /\ p \in Nat /\ it[n] = ReadRecord(x, v)
        BY <2>3, <2>4, <4>2
      <4>4. /\ r \in WeightlessRefitRecord /\ Width(r) \in Nat /\ at[n] = p + Width(r) /\ at[n] <= Len(b)
            /\ \A i \in 1 .. Width(r) : b[p + i] = RecordFields(r)[i]
        BY <1>3, <2>4
      <4> HIDE DEF Right, v, r, p
      <4> QED
        BY <4>1, <4>2, <4>3, <4>4
    <3>2. /\ v.ok = (p <= L) /\ v.ok \in BOOLEAN
          /\ v.ok => v.pos = p + 1 /\ Len(v.records) = n - 1 /\ \A i \in 1 .. n - 1 : v.records[i] = records[i]
      BY <3>1 DEF ReadStates
    <3>3. v.records \in Seq({RecordAt(x, k) : k \in Nat})
      BY <3>1 DEF ReadStates
    <3> HIDE DEF v, r, p
    <3>4. \A i \in 1 .. Width(r) : p + i <= L => x[p + i] = RecordFields(r)[i]
      <4> SUFFICES ASSUME NEW i \in 1 .. Width(r), p + i <= L PROVE x[p + i] = RecordFields(r)[i]
        OBVIOUS
      <4> PICK j : j = p + i
        OBVIOUS
      <4>1. j \in 1 .. Len(b) /\ j <= L
        BY <1>3, <3>1
      <4>2. x[j] = b[j]
        BY <1>4, <4>1
      <4>3. b[j] = RecordFields(r)[i]
        BY <3>1
      <4> QED
        BY <4>2, <4>3
    <3>5. /\ HasRecord(x, p + 1) <=> p + Width(r) <= L
          /\ HasRecord(x, p + 1) => RecordAt(x, p + 1) = r /\ NextRecord(x, p + 1) = p + Width(r) + 1
      BY <3>1, <3>4, ReadsRecord DEF L
    <3>6. CASE p <= L /\ at[n] <= L
      <4>1. v.ok /\ HasRecord(x, v.pos) /\ v.pos = p + 1
        BY <3>1, <3>2, <3>5, <3>6
      <4>2. it[n] = [ok |-> TRUE, pos |-> at[n] + 1, records |-> Append(v.records, r)]
        BY <3>1, <3>5, <4>1 DEF ReadRecord
      <4>3. /\ Len(Append(v.records, r)) = n
            /\ \A i \in 1 .. n : Append(v.records, r)[i] = records[i]
        <5> DEFINE R == {RecordAt(x, k) : k \in Nat}
        <5>1. r \in R
          <6>1. r = RecordAt(x, p + 1) /\ p + 1 \in Nat
            BY <3>1, <3>5, <4>1
          <6> QED
            BY <6>1
        <5>2. v.records \in Seq(R)
          BY <3>3
        <5> HIDE DEF R
        <5>3. IsSeq(v.records)
          BY <5>2, SeqHolds
        <5>4. /\ Len(Append(v.records, r)) = Len(v.records) + 1
              /\ \A i \in 1 .. Len(v.records) : Append(v.records, r)[i] = v.records[i]
              /\ Append(v.records, r)[Len(v.records) + 1] = r
          BY <5>3, Appended
        <5>5. Len(v.records) = n - 1 /\ \A i \in 1 .. n - 1 : v.records[i] = records[i]
          BY <3>2, <4>1
        <5>6. ASSUME NEW i \in 1 .. n PROVE Append(v.records, r)[i] = records[i]
          <6>1. CASE i = n
            <7>1. Append(v.records, r)[(n - 1) + 1] = r /\ (n - 1) + 1 = n
              BY <3>1, <5>4, <5>5
            <7> QED
              BY <6>1, <7>1 DEF r
          <6>2. CASE i # n
            <7>1. i \in 1 .. n - 1
              BY <3>1, <6>2
            <7> QED
              BY <5>4, <5>5, <7>1
          <6> QED
            BY <6>1, <6>2
        <5> QED
          BY <3>1, <5>4, <5>5, <5>6
      <4>4. it[n].ok = TRUE /\ it[n].pos = at[n] + 1 /\ it[n].records = Append(v.records, r)
        BY <4>2
      <4>5. Right(n)
        BY <3>6, <4>3, <4>4
      <4> HIDE DEF Right
      <4> QED
        BY <3>1, <4>5
    <3>7. CASE ~(p <= L /\ at[n] <= L)
      <4>1. ~(at[n] <= L)
        BY <1>3, <3>1, <3>7
      <4>2. ~(v.ok /\ HasRecord(x, v.pos))
        BY <3>1, <3>2, <3>5, <4>1
      <4>3. it[n] = [v EXCEPT !.ok = FALSE]
        BY <3>1, <4>2 DEF ReadRecord
      <4>4. it[n].ok = FALSE
        BY <3>1, <4>3 DEF ReadStates
      <4>6. it[n].ok = (at[n] <= L)
        <5>1. (at[n] <= L) = FALSE
          BY <4>1
        <5> QED
          BY <4>4, <5>1
      <4>5. Right(n)
        BY <4>4, <4>6
      <4> HIDE DEF Right
      <4> QED
        BY <3>1, <4>5
    <3> QED
      BY <3>6, <3>7
  <2>7. Right(N)
    <3>1. \A n \in 0 .. N : n \in T
      <4> HIDE DEF T
      <4> QED
        BY <1>3, <2>5, <2>6, UpTo
    <3>2. N \in 0 .. N
      BY <1>3
    <3> HIDE DEF Right
    <3> QED
      BY <3>1, <3>2
  <2> DEFINE last == ReadRecords(x, N)
  <2>8. /\ last = it[N] /\ last \in ReadStates(x) /\ last.ok = (Len(b) <= L)
        /\ last.ok => last.pos = Len(b) + 1 /\ Len(last.records) = N /\ \A i \in 1 .. N : last.records[i] = records[i]
    <3>1. N \in 0 .. N
      BY <1>3
    <3> QED
      BY <2>3, <2>4, <2>7, <3>1
  <2> HIDE DEF last
  <2>9. last.ok /\ AtEnd(x, last) <=> L = Len(b)
    BY <1>3, <2>8 DEF AtEnd, L
  <2>10. ASSUME last.ok PROVE last.records = records
    <3> DEFINE R == {RecordAt(x, k) : k \in Nat}
    <3>1. last.records \in Seq(R) /\ records \in Seq(WeightlessRefitRecord)
      BY <2>8 DEF ReadStates
    <3> HIDE DEF R
    <3>2. last.records \in Seq(R \cup WeightlessRefitRecord) /\ records \in Seq(R \cup WeightlessRefitRecord)
      <4>1. R \subseteq R \cup WeightlessRefitRecord /\ WeightlessRefitRecord \subseteq R \cup WeightlessRefitRecord
        OBVIOUS
      <4> QED
        BY ONLY <3>1, <4>1, SeqMonotonic
    <3>3. Len(last.records) = Len(records) /\ \A i \in 1 .. Len(last.records) : last.records[i] = records[i]
      BY <2>8, <2>10 DEF N
    <3> QED
      BY ONLY <3>2, <3>3, SeqEqual
  <2>11. DeserializeWeightlessRefitTable(x) = IF last.ok /\ AtEnd(x, last) THEN last.records ELSE Corrupt
    BY <2>2 DEF last
  <2> QED
    BY <2>9, <2>10, <2>11 DEF L, b
<1> QED
  BY <1>3, <1>5, <1>6

\* The table of a sequence of records reads back, and nothing shorter or longer does.
LEMMA TablesReadBack ==
  ASSUME NEW records \in Seq(WeightlessRefitRecord), NEW b, b = SerializeWeightlessRefitTable(records), b # NoTable
  PROVE  /\ DeserializeWeightlessRefitTable(b) = records
         /\ DeserializeWeightlessRefitTable(Append(b, 0)) = Corrupt
         /\ \A n \in 0 .. Len(b) - 1 : DeserializeWeightlessRefitTable(SubSeq(b, 1, n)) = Corrupt
<1>1. b = Buffer(records)
  BY DEF SerializeWeightlessRefitTable, Buffer
<1>2. b \in Seq(Field) /\ Len(b) \in Nat
  BY <1>1, TableLayout, LenProperties
<1>3. ASSUME NEW x \in Seq(Field), \A i \in 1 .. Len(b) : i <= Len(x) => x[i] = b[i]
      PROVE  DeserializeWeightlessRefitTable(x) = IF Len(x) = Len(b) THEN records ELSE Corrupt
  BY <1>1, <1>3, TableReads
<1>4. DeserializeWeightlessRefitTable(b) = records
  BY <1>2, <1>3
<1>5. DeserializeWeightlessRefitTable(Append(b, 0)) = Corrupt
  <2> DEFINE x == Append(b, 0)
  <2>1. 0 \in Field
    BY DEF Field
  <2>2. x \in Seq(Field) /\ Len(x) = Len(b) + 1
    BY <1>2, <2>1, AppendProperties
  <2>3. \A i \in 1 .. Len(b) : x[i] = b[i]
    BY <1>2, Appended, SeqHolds
  <2> HIDE DEF x
  <2>4. Len(x) # Len(b)
    BY <1>2, <2>2
  <2>5. DeserializeWeightlessRefitTable(x) = Corrupt
    BY <1>3, <2>2, <2>3, <2>4
  <2> QED
    BY <2>5 DEF x
<1>6. ASSUME NEW n \in 0 .. Len(b) - 1
      PROVE  DeserializeWeightlessRefitTable(SubSeq(b, 1, n)) = Corrupt
  <2> DEFINE x == SubSeq(b, 1, n)
  <2>1. \A i \in 1 .. n : b[i] \in Field
    BY <1>2, ElementOfSeq
  <2>2. n \in Int /\ 1 \in Int /\ n - 1 + 1 = n
    OBVIOUS
  <2>3. /\ x \in Seq(Field) /\ Len(x) = (IF 1 <= n THEN n - 1 + 1 ELSE 0)
        /\ \A i \in 1 .. n - 1 + 1 : x[i] = b[1 + i - 1]
    BY <2>1, <2>2, SubSeqProperties
  <2> HIDE DEF x
  <2>4. Len(x) = n /\ n # Len(b)
    BY <1>2, <2>3
  <2>5. ASSUME NEW i \in 1 .. Len(b), i <= Len(x) PROVE x[i] = b[i]
    <3>1. i \in 1 .. n - 1 + 1 /\ 1 + i - 1 = i
      BY <2>4, <2>5
    <3> QED
      BY <2>3, <3>1
  <2>6. DeserializeWeightlessRefitTable(x) = Corrupt
    BY <1>3, <2>3, <2>4, <2>5
  <2> QED
    BY <2>6 DEF x
<1> QED
  BY <1>4, <1>5, <1>6

\* The records of a table are records of its node.
LEMMA RecordsOf ==
  ASSUME EpContextAssumption, NEW m, m.node \in DOMAIN NodeInfo, TableOf(m)
  PROVE  /\ m.records \in Seq(WeightlessRefitRecord)
         /\ NodeInfo[m.node].records \in Seq(WeightlessRefitRecord)
         /\ NeededRecords(m.node) \in Seq(WeightlessRefitRecord)
<1>1. NodeInfo[m.node].records \in Seq(WeightlessRefitRecord)
  BY DEF EpContextAssumption, NodeTypes
<1>2. NeededRecords(m.node) \in Seq(WeightlessRefitRecord)
  BY <1>1, PickedIs DEF NeededRecords, FilterRefitRecordsToEngine
<1>3. m.records \in Seq(WeightlessRefitRecord)
  BY <1>1, <1>2, PickedIs DEF TableOf, WithoutMissing
<1> QED
  BY <1>1, <1>2, <1>3

\* What is known of an exported node whose compile is done.
LEMMA ExportedIs ==
  ASSUME EpContextAssumption, EnginesInv, NEW m \in Exported
  PROVE  \E s \in Sessions : LET r == sess[s] IN
            /\ Compiles(s, r, files, store) /\ ExportOK(s, r, m, files, store)
            /\ m.node \in DOMAIN NodeInfo /\ r.opt.stripped \in BOOLEAN
<1>1. PICK s \in Sessions : IsCompile(s) /\ sess[s].pc = "compiled" /\ m \in ToSet(sess[s].exported)
  BY DEF EnginesInv, Attributed
<1> PICK r : r = sess[s]
  OBVIOUS
<1>2. Compiles(s, r, files, store)
  BY <1>1, Kinds DEF EnginesInv
<1>3. ExportOK(s, r, m, files, store)
  BY <1>1, <1>2 DEF Compiles, ExportsOK
<1>4. CompileTypes(r)
  BY <1>2 DEF Compiles, HelperOK
<1>5. /\ r.opt.stripped \in BOOLEAN /\ Of(r) \in DOMAIN NodeInfo /\ DOMAIN Nodes = 1 .. Len(Nodes)
      /\ r.at \in 1 .. Len(Nodes) /\ Len(Nodes) \in Nat
  BY <1>4, BuiltIsSomething
<1>6. \A k \in 1 .. Len(Nodes) : Nodes[k] \in DOMAIN NodeInfo
  BY <1>5, ElementOfSeq DEF EpContextAssumption
<1>7. m.node \in Past(r)
  BY <1>3 DEF ExportOK
<1>8. m.node \in DOMAIN NodeInfo
  BY <1>5, <1>6, <1>7 DEF Past
<1> QED
  BY <1>2, <1>3, <1>5, <1>8

(***************************************************************************)
(* TableRoundTrips holds in every behaviour, for records of any number and *)
(* size: what a load deserializes is what the export serialized, and a     *)
(* table cut short anywhere, or with anything behind it, is refused.       *)
(***************************************************************************)
THEOREM TablesRoundTrip ==
  ASSUME OwnDirectories
  PROVE  Spec => []TableRoundTrips
<1> USE EpContextAssumption
<1>1. EnginesInv => TableRoundTrips
  <2> SUFFICES ASSUME EnginesInv, NEW m \in Exported, m.table # NoTable
               PROVE  /\ DeserializeWeightlessRefitTable(m.table) = m.records
                      /\ DeserializeWeightlessRefitTable(Append(m.table, 0)) = Corrupt
                      /\ \A n \in 0 .. Len(m.table) - 1 :
                           DeserializeWeightlessRefitTable(SubSeq(m.table, 1, n)) = Corrupt
    BY DEF TableRoundTrips
  <2>1. PICK s \in Sessions : /\ ExportOK(s, sess[s], m, files, store) /\ m.node \in DOMAIN NodeInfo
                              /\ sess[s].opt.stripped \in BOOLEAN
    BY ExportedIs
  <2>2. TableOf(m)
    BY <2>1 DEF ExportOK
  <2>3. m.records \in Seq(WeightlessRefitRecord)
    BY <2>1, <2>2, RecordsOf
  <2>4. m.table = SerializeWeightlessRefitTable(m.records)
    BY <2>2 DEF TableOf
  <2> QED
    BY <2>3, <2>4, TablesReadBack
<1> QED
  BY <1>1, EnginesInvariant, PTL

-----------------------------------------------------------------------------
(* What a table holds, and why a load can be refused *)

\* The records that filtering keeps.
LEMMA FilterIs ==
  ASSUME NEW E, NEW records \in Seq(E), NEW names
  PROVE  /\ FilterRefitRecordsToEngine(records, names) \in Seq(E)
         /\ ToSet(FilterRefitRecordsToEngine(records, names)) = {r \in ToSet(records) : r.trt_name \in names}
<1> DEFINE keep == {i \in DOMAIN records : records[i].trt_name \in names}
<1>1. /\ Picked(records, keep) \in Seq(E)
      /\ ToSet(Picked(records, keep)) = {records[i] : i \in (1 .. Len(records)) \cap keep}
  <2> HIDE DEF keep
  <2> QED
    BY PickedIs
<1>2. DOMAIN records = 1 .. Len(records)
  BY LenProperties
<1>3. {records[i] : i \in (1 .. Len(records)) \cap keep} = {r \in ToSet(records) : r.trt_name \in names}
  BY <1>2 DEF ToSet
<1> QED
  BY <1>1, <1>3 DEF FilterRefitRecordsToEngine

\* The records whose sources are there; all of them when none is missing.
LEMMA WithoutIs ==
  ASSUME NEW E, NEW records \in Seq(E), NEW missing
  PROVE  /\ WithoutMissing(records, missing) \in Seq(E)
         /\ ToSet(WithoutMissing(records, missing)) =
              {r \in ToSet(records) : ToSet(r.source_onnx_names) \cap missing = {}}
         /\ missing = {} => WithoutMissing(records, missing) = records
<1> DEFINE keep == {i \in DOMAIN records : ToSet(records[i].source_onnx_names) \cap missing = {}}
<1>1. /\ Picked(records, keep) \in Seq(E)
      /\ ToSet(Picked(records, keep)) = {records[i] : i \in (1 .. Len(records)) \cap keep}
      /\ 1 .. Len(records) \subseteq keep => Picked(records, keep) = records
  <2> HIDE DEF keep
  <2> QED
    BY PickedIs
<1>2. DOMAIN records = 1 .. Len(records)
  BY LenProperties
<1>3. {records[i] : i \in (1 .. Len(records)) \cap keep} =
        {r \in ToSet(records) : ToSet(r.source_onnx_names) \cap missing = {}}
  BY <1>2 DEF ToSet
<1>4. missing = {} => 1 .. Len(records) \subseteq keep
  BY <1>2
<1> QED
  BY <1>1, <1>3, <1>4 DEF WithoutMissing

\* The sources of some records.
LEMMA SourcesAre ==
  ASSUME NEW E, NEW records \in Seq(E)
  PROVE  \A x : x \in SourceNames(records) <=>
                \E r \in ToSet(records) : ~IsConstantKind(r.kind) /\ x \in ToSet(r.source_onnx_names)
<1>1. ASSUME NEW x, x \in SourceNames(records)
      PROVE  \E r \in ToSet(records) : ~IsConstantKind(r.kind) /\ x \in ToSet(r.source_onnx_names)
  <2>1. PICK i \in DOMAIN records : ~IsConstantKind(records[i].kind) /\ x \in ToSet(records[i].source_onnx_names)
    BY <1>1 DEF SourceNames
  <2>2. records[i] \in ToSet(records)
    BY DEF ToSet
  <2> QED
    BY <2>1, <2>2
<1>2. ASSUME NEW x, NEW r \in ToSet(records), ~IsConstantKind(r.kind), x \in ToSet(r.source_onnx_names)
      PROVE  x \in SourceNames(records)
  <2>1. PICK i \in DOMAIN records : r = records[i]
    BY DEF ToSet
  <2> QED
    BY <1>2, <2>1 DEF SourceNames
<1> QED
  BY <1>1, <1>2

\* What is replayed of a table: needed records of its node, with all their sources
\* among the node's inputs.
Used(m) == FilterRefitRecordsToEngine(m.records, NodeInfo[m.node].refittable)

\* These records.
LEMMA UsedIs ==
  ASSUME EpContextAssumption, NEW m, m.node \in DOMAIN NodeInfo, TableOf(m)
  PROVE  /\ Used(m) \in Seq(WeightlessRefitRecord)
         /\ ToSet(Used(m)) \subseteq ToSet(NeededRecords(m.node))
         /\ ToSet(NeededRecords(m.node)) = {r \in ToSet(NodeInfo[m.node].records) :
                                              r.trt_name \in NodeInfo[m.node].refittable}
         /\ \A r \in ToSet(Used(m)) : ~IsConstantKind(r.kind) => ToSet(r.source_onnx_names) \subseteq m.inputs
<1> PICK n : n = m.node
  OBVIOUS
<1> DEFINE names == NodeInfo[n].refittable
           all == NodeInfo[n].records
           recs == IF m.filtered THEN NeededRecords(n) ELSE all
           kept == SourceNames(recs) \cap NodeInfo[n].kept
           missing == SourceNames(recs) \ kept
<1>1. /\ m.records \in Seq(WeightlessRefitRecord) /\ all \in Seq(WeightlessRefitRecord)
      /\ NeededRecords(n) \in Seq(WeightlessRefitRecord) /\ recs \in Seq(WeightlessRefitRecord)
  BY RecordsOf
<1>2. m.records = WithoutMissing(recs, missing) /\ m.inputs = kept
  BY DEF TableOf
<1>3. /\ ToSet(NeededRecords(n)) = {r \in ToSet(all) : r.trt_name \in names}
      /\ Used(m) \in Seq(WeightlessRefitRecord)
      /\ ToSet(Used(m)) = {r \in ToSet(m.records) : r.trt_name \in names}
  BY <1>1, FilterIs DEF NeededRecords, Used
<1>4. ToSet(m.records) = {r \in ToSet(recs) : ToSet(r.source_onnx_names) \cap missing = {}}
  <2> HIDE DEF recs, missing
  <2> QED
    BY <1>1, <1>2, WithoutIs
<1>5. ToSet(recs) \subseteq ToSet(all)
  BY <1>3
<1>6. ASSUME NEW r \in ToSet(Used(m)), ~IsConstantKind(r.kind), NEW x \in ToSet(r.source_onnx_names)
      PROVE  x \in m.inputs
  <2>1. r \in ToSet(m.records) /\ r \in ToSet(recs) /\ x \notin missing
    <3> HIDE DEF recs, missing
    <3> QED
      BY <1>3, <1>4
  <2>2. x \in SourceNames(recs)
    <3> HIDE DEF recs
    <3> QED
      BY <1>1, <1>6, <2>1, SourcesAre
  <2>3. x \in NodeInfo[n].kept
    <3> HIDE DEF recs
    <3> QED
      BY <2>1, <2>2
  <2> QED
    BY <1>2, <2>2, <2>3
<1>7. ToSet(Used(m)) \subseteq ToSet(NeededRecords(n))
  <2> HIDE DEF recs, missing, all, names
  <2> QED
    BY <1>3, <1>4, <1>5
<1> QED
  BY <1>3, <1>6, <1>7

\* A table that export had all the sources for holds all that is needed.
LEMMA AllIsUsed ==
  ASSUME EpContextAssumption, UsableRecords, NEW m, m.node \in DOMAIN NodeInfo, TableOf(m), Refittable(m.node)
  PROVE  ToSet(Used(m)) = ToSet(NeededRecords(m.node))
<1> PICK n : n = m.node
  OBVIOUS
<1> DEFINE names == NodeInfo[n].refittable
           all == NodeInfo[n].records
           recs == IF m.filtered THEN NeededRecords(n) ELSE all
           kept == SourceNames(recs) \cap NodeInfo[n].kept
           missing == SourceNames(recs) \ kept
<1>1. /\ m.records \in Seq(WeightlessRefitRecord) /\ all \in Seq(WeightlessRefitRecord)
      /\ NeededRecords(n) \in Seq(WeightlessRefitRecord) /\ recs \in Seq(WeightlessRefitRecord)
  BY RecordsOf
<1>2. m.records = WithoutMissing(recs, missing)
  BY DEF TableOf
<1>3. /\ ToSet(NeededRecords(n)) = {r \in ToSet(all) : r.trt_name \in names}
      /\ ToSet(Used(m)) = {r \in ToSet(m.records) : r.trt_name \in names}
  BY <1>1, FilterIs DEF NeededRecords, Used
<1>4. ToSet(m.records) = {r \in ToSet(recs) : ToSet(r.source_onnx_names) \cap missing = {}}
  <2> HIDE DEF recs, missing
  <2> QED
    BY <1>1, <1>2, WithoutIs
<1>5. ASSUME NEW r \in ToSet(NeededRecords(n)) PROVE r \in ToSet(Used(m))
  <2>1. r \in ToSet(all) /\ r.trt_name \in names /\ r \in ToSet(recs)
    BY <1>3
  <2>2. ASSUME NEW x \in ToSet(r.source_onnx_names) PROVE x \notin missing
    <3>1. CASE IsConstantKind(r.kind)
      <4>1. r.source_onnx_names = <<>>
        BY <2>1, <3>1 DEF UsableRecords
      <4> QED
        BY <4>1, NoneYet
    <3>2. CASE ~IsConstantKind(r.kind)
      <4>1. x \in SourceNames(NeededRecords(n))
        BY <1>1, <3>2, SourcesAre
      <4>2. x \in NodeInfo[n].kept
        BY <4>1 DEF Refittable
      <4> QED
        BY <4>2
    <3> QED
      BY <3>1, <3>2
  <2> HIDE DEF missing, recs, all, names
  <2>3. ToSet(r.source_onnx_names) \cap missing = {}
    BY <2>2
  <2> QED
    BY <1>3, <1>4, <2>1, <2>3
<1>6. ToSet(Used(m)) \subseteq ToSet(NeededRecords(n))
  BY UsedIs
<1> QED
  BY <1>5, <1>6

\* A record that is usable with the model's weights is usable with those inputs.
LEMMA StillUsable ==
  ASSUME NEW r \in WeightlessRefitRecord, NEW data, NEW I, RecordUsable(r, data),
         ~IsConstantKind(r.kind) => ToSet(r.source_onnx_names) \subseteq I
  PROVE  RecordUsable(r, [x \in I |-> data[x]])
<1> PICK d : d = [x \in I |-> data[x]]
  OBVIOUS
<1>1. DOMAIN d = I /\ \A x \in I : d[x] = data[x]
  OBVIOUS
<1>2. CASE IsConstantKind(r.kind)
  <2>1. r.kind \notin {Identity, DoubleToFloat, FoldScale, FoldBias}
    BY <1>2 DEF IsConstantKind, Identity, DoubleToFloat, FoldScale, FoldBias, ConstantNode, ConstantOfShape
  <2> QED
    BY <1>2, <2>1 DEF RecordUsable
<1>3. CASE ~IsConstantKind(r.kind)
  <2> DEFINE names == r.source_onnx_names
             k == IF r.kind \in {FoldScale, FoldBias} THEN 4 ELSE 1
  <2>1. SourcesSuffice(r, data)
    BY <1>3 DEF RecordUsable
  <2>2. Len(names) >= k
    BY <2>1 DEF SourcesSuffice
  <2>3. names \in Seq(STRING)
    BY DEF WeightlessRefitRecord
  <2>4. \A i \in 1 .. k : names[i] \in I
    <3>1. DOMAIN names = 1 .. Len(names) /\ Len(names) \in Nat /\ k \in Nat
      BY <2>3, LenProperties
    <3>2. \A i \in 1 .. k : i \in DOMAIN names
      BY <2>2, <3>1
    <3> QED
      BY <1>3, <3>2 DEF ToSet
  <2>5. SourcesSuffice(r, d)
    BY <1>1, <2>1, <2>4 DEF SourcesSuffice
  <2> QED
    BY <2>5 DEF RecordUsable
<1> QED
  BY <1>2, <1>3

\* A refit from an exported table is refused only when the node is not refittable.
LEMMA RefusedUnrefittable ==
  ASSUME EpContextAssumption, UsableRecords, NEW r, r.model.node \in DOMAIN NodeInfo, TableOf(r.model),
         r.opt.stripped, Refused(r)
  PROVE  ~Refittable(r.model.node)
<1> SUFFICES ASSUME Refittable(r.model.node) PROVE FALSE
  OBVIOUS
<1> PICK m : m = r.model
  OBVIOUS
<1> PICK n : n = m.node
  OBVIOUS
<1> PICK used : used = Used(m)
  OBVIOUS
<1> PICK data : data = [x \in m.inputs |-> NodeInfo[n].data[x]]
  OBVIOUS
<1>1. TableRecords(r) = m.records
  <2>1. m.records \in Seq(WeightlessRefitRecord) /\ m.table = SerializeWeightlessRefitTable(m.records)
        /\ m.table # NoTable
    BY RecordsOf DEF TableOf
  <2> QED
    BY <2>1, TablesReadBack DEF TableRecords
<1>2. Supplied(r) = data
  BY DEF Supplied
<1>3. WeightlessRefitEngineImpl(m.records, data, NodeInfo[n].refittable).status # "ok"
  BY <1>1, <1>2 DEF Refused, Replay
<1>4. /\ used \in Seq(WeightlessRefitRecord) /\ ToSet(used) = ToSet(NeededRecords(n))
      /\ ToSet(used) = {t \in ToSet(NodeInfo[n].records) : t.trt_name \in NodeInfo[n].refittable}
      /\ \A t \in ToSet(used) : ~IsConstantKind(t.kind) => ToSet(t.source_onnx_names) \subseteq m.inputs
  BY UsedIs, AllIsUsed
<1>5. ASSUME NEW i \in DOMAIN used PROVE RecordUsable(used[i], data)
  <2> PICK t : t = used[i]
    OBVIOUS
  <2>1. t \in ToSet(used)
    BY DEF ToSet
  <2>2. t \in WeightlessRefitRecord
    BY <1>4, <2>1, SeqHolds
  <2>3. RecordUsable(t, NodeInfo[n].data)
    BY <1>4, <2>1 DEF UsableRecords
  <2>4. ~IsConstantKind(t.kind) => ToSet(t.source_onnx_names) \subseteq m.inputs
    BY <1>4, <2>1
  <2>5. RecordUsable(t, [x \in m.inputs |-> NodeInfo[n].data[x]])
    BY <2>2, <2>3, <2>4, StillUsable
  <2> QED
    BY <2>5
<1>6. Covers(used, NodeInfo[n].refittable)
  <2>1. \A q : {q[i].trt_name : i \in DOMAIN q} = {t.trt_name : t \in ToSet(q)}
    BY DEF ToSet
  <2>2. {NeededRecords(n)[i].trt_name : i \in DOMAIN NeededRecords(n)} = NodeInfo[n].refittable
    BY DEF Refittable, Covers
  <2>3. {t.trt_name : t \in ToSet(used)} = {t.trt_name : t \in ToSet(NeededRecords(n))}
    BY <1>4
  <2>4. {used[i].trt_name : i \in DOMAIN used} = NodeInfo[n].refittable
    BY ONLY <2>1, <2>2, <2>3, Zenon
  <2> QED
    BY <2>4 DEF Covers
<1>7. WeightlessRefitEngineImpl(m.records, data, NodeInfo[n].refittable).status = "ok"
  <2>1. Replayed(m.records, NodeInfo[n].refittable) = used
    BY DEF Replayed, Used
  <2> QED
    BY <1>5, <1>6, <2>1 DEF WeightlessRefitEngineImpl
<1> QED
  BY <1>3, <1>7

-----------------------------------------------------------------------------
(* The loads that were refused *)

\* A load of an exported model, with its weights supplied, is refused only when the
\* node could not be refitted at all.
RefusedFor(r) ==
  r.pc = "failed" /\ r.why \in Refusals /\ r.opt.stripped /\ r.model \notin InitialModels =>
    ~Refittable(r.model.node)
RefusalsOK == \A s \in Sessions : IsLoad(s) => sess[s].model \in models /\ RefusedFor(sess[s])

\* What a compile writes where loads look: in the cache directory when it streams
\* there, in the store through the callback.
PlacesEngines(s, o, fs, gs, st, su) ==
  \A n : /\ Cached(s, n) \in DOMAIN gs => Cached(s, n) \in DOMAIN fs \/ StreamsToCache(o)
         /\ Cached(s, n) \in DOMAIN su => Cached(s, n) \in DOMAIN st \/ (o.callbacks /\ ~o.embed)
CompilesOn(s) ==
  /\ \E z : sess' = [sess EXCEPT ![s] = z] /\ Has(z, CompileFields) /\ z.opt = sess[s].opt
  /\ PlacesEngines(s, sess[s].opt, files, files', store, store')

\* Every step of a compile is like that.
LEMMA CompilesLeave ==
  ASSUME EpContextAssumption, OwnDirectories, SessionsOK, NEW s \in Sessions, CompileStep(s)
  PROVE  CompilesOn(s)
<1> PICK r : r = sess[s]
  OBVIOUS
<1> DEFINE On == \E z : sess' = [sess EXCEPT ![s] = z] /\ Has(z, CompileFields) /\ z.opt = sess[s].opt
<1>1. Compiles(s, r, files, store)
  <2>1. r.pc \in CompilePcs \ {"context", "failed", "crashed"} \/ IsCompile(s)
    BY DEF CompileStep, ParseNode, InitializeEngineOutput, BuildEngine, FinalizeEngineOutput, DeserializeBuilt,
           CreateEPContextNode, SkipExport, EndNode, Unwind, Publish, At, CompilePcs
  <2> QED
    BY <2>1, Kinds
<1>2. Has(r, CompileFields)
  BY <1>1 DEF Compiles, HelperOK, CompileTypes
<1>3. UNCHANGED files /\ UNCHANGED store => PlacesEngines(s, r.opt, files, files', store, store')
  BY DEF PlacesEngines
<1>4. FailCompile(s) => On
  <2> SUFFICES ASSUME FailCompile(s) PROVE On
    OBVIOUS
  <2> PICK z : z = [r EXCEPT !.pc = "unwind"]
    OBVIOUS
  <2>1. sess' = [sess EXCEPT ![s] = z]
    BY DEF FailCompile
  <2>2. Has(z, CompileFields) /\ z.opt = r.opt
    BY <1>2 DEF Has, CompileFields
  <2> QED
    BY <2>1, <2>2
<1>5. CASE ParseNode(s)
  <2>1. On
    <3>1. CASE FailCompile(s)
      BY <1>4, <3>1
    <3>2. CASE \E p, records : sess' = [sess EXCEPT ![s].pc = "open", ![s].captured = records,
                                                    ![s].maps = p.maps, ![s].built = Append(@, p.profiles)]
      <4> PICK p, records : sess' = [sess EXCEPT ![s].pc = "open", ![s].captured = records,
                                                 ![s].maps = p.maps, ![s].built = Append(@, p.profiles)]
        BY <3>2
      <4> PICK z : z = [r EXCEPT !.pc = "open", !.captured = records, !.maps = p.maps,
                                 !.built = Append(@, p.profiles)]
        OBVIOUS
      <4>1. sess' = [sess EXCEPT ![s] = z]
        OBVIOUS
      <4>2. Has(z, CompileFields) /\ z.opt = r.opt
        BY <1>2 DEF Has, CompileFields
      <4> QED
        BY <4>1, <4>2
    <3> HIDE DEF On
    <3> QED
      BY <1>5, <3>1, <3>2 DEF ParseNode
  <2>2. UNCHANGED <<files, store>>
    BY <1>5 DEF ParseNode
  <2> QED
    BY <1>3, <2>1, <2>2 DEF CompilesOn
<1>6. CASE InitializeEngineOutput(s)
  <2>1. ASSUME NEW path, NEW opens, OpenOutput(s, path, opens) PROVE On
    <3> PICK z : z = [r EXCEPT !.out = path, !.open = opens, !.pc = "build"]
      OBVIOUS
    <3>1. sess' = [sess EXCEPT ![s] = z]
      BY <2>1 DEF OpenOutput
    <3>2. Has(z, CompileFields) /\ z.opt = r.opt
      BY <1>2 DEF Has, CompileFields
    <3> QED
      BY <3>1, <3>2
  <2>2. ASSUME NEW path, NEW opens, OpenOutput(s, path, opens)
        PROVE  DOMAIN files' \subseteq DOMAIN files \cup {path}
    BY <2>2 DEF OpenOutput, Written
  <2>3. UNCHANGED store
    BY <1>6 DEF InitializeEngineOutput
  <2>4. CASE StreamsToCache(r.opt)
    <3>1. PICK opens : OpenOutput(s, CachePath(s), opens)
      BY <1>6, <2>4 DEF InitializeEngineOutput
    <3>2. PlacesEngines(s, r.opt, files, files', store, store')
      BY <2>3, <2>4 DEF PlacesEngines
    <3> QED
      BY <2>1, <3>1, <3>2 DEF CompilesOn
  <2>5. CASE ~StreamsToCache(r.opt) /\ OpenOutput(s, TempPath(s), TRUE)
    <3>1. \A n : Cached(s, n) # TempPath(s)
      BY PathsApart DEF TempPath, Scratch
    <3>2. PlacesEngines(s, r.opt, files, files', store, store')
      <4>1. DOMAIN files' \subseteq DOMAIN files \cup {TempPath(s)}
        BY <2>2, <2>5
      <4> QED
        BY <2>3, <3>1, <4>1 DEF PlacesEngines
    <3> QED
      BY <2>1, <2>5, <3>2 DEF CompilesOn
  <2>6. CASE sess' = [sess EXCEPT ![s].out = InMemory, ![s].pc = "build"] /\ UNCHANGED files
    <3> PICK z : z = [r EXCEPT !.out = InMemory, !.pc = "build"]
      OBVIOUS
    <3>1. sess' = [sess EXCEPT ![s] = z]
      BY <2>6
    <3>2. Has(z, CompileFields) /\ z.opt = r.opt
      BY <1>2 DEF Has, CompileFields
    <3> QED
      BY <1>3, <2>3, <2>6, <3>1, <3>2 DEF CompilesOn
  <2> QED
    BY <1>6, <2>4, <2>5, <2>6 DEF InitializeEngineOutput
<1>7. CASE BuildEngine(s)
  <2>0. UNCHANGED store
    BY <1>7 DEF BuildEngine
  <2> PICK b : b = EngineBytes(NodeOf(s), sess[s].opt.stripped, TRUE)
    OBVIOUS
  <2>1. CASE FailCompile(s) /\ UNCHANGED files
    BY <1>3, <1>4, <2>0, <2>1 DEF CompilesOn
  <2>2. CASE sess' = [sess EXCEPT ![s].bytes = b, ![s].pc = "finalize"] /\ UNCHANGED files
    <3> PICK z : z = [r EXCEPT !.bytes = b, !.pc = "finalize"]
      OBVIOUS
    <3>1. sess' = [sess EXCEPT ![s] = z]
      BY <2>2
    <3>2. Has(z, CompileFields) /\ z.opt = r.opt
      BY <1>2 DEF Has, CompileFields
    <3> QED
      BY <1>3, <2>0, <2>2, <3>1, <3>2 DEF CompilesOn
  <2>3. CASE files' = Written(files, r.out, b) /\ sess' = [sess EXCEPT ![s].pc = "finalize"]
    <3> PICK z : z = [r EXCEPT !.pc = "finalize"]
      OBVIOUS
    <3>1. sess' = [sess EXCEPT ![s] = z]
      BY <2>3
    <3>2. Has(z, CompileFields) /\ z.opt = r.opt
      BY <1>2 DEF Has, CompileFields
    <3>3. DOMAIN files' = DOMAIN files \cup {r.out}
      BY <2>3 DEF Written
    <3>4. \A n : Cached(s, n) = r.out => StreamsToCache(r.opt)
      BY <1>1, PathsApart DEF Compiles, HelperOK, OutputPlaced
    <3>5. PlacesEngines(s, r.opt, files, files', store, store')
      BY <2>0, <3>3, <3>4 DEF PlacesEngines
    <3> QED
      BY <3>1, <3>2, <3>5 DEF CompilesOn
  <2> QED
    BY <1>7, <2>1, <2>2, <2>3 DEF BuildEngine
<1>8. CASE FinalizeEngineOutput(s) \/ (IsCompile(s) /\ CreateBuiltContext(s)) \/ SkipExport(s) \/ Publish(s)
  <2>1. UNCHANGED <<files, store>>
    BY <1>8 DEF FinalizeEngineOutput, CreateBuiltContext, SkipExport, Publish
  <2>2. CASE FailCompile(s)
    BY <1>3, <1>4, <2>1, <2>2 DEF CompilesOn
  <2>3. CASE \E pc : sess' = [sess EXCEPT ![s].pc = pc]
    <3> PICK pc : sess' = [sess EXCEPT ![s].pc = pc]
      BY <2>3
    <3> PICK z : z = [r EXCEPT !.pc = pc]
      OBVIOUS
    <3>1. sess' = [sess EXCEPT ![s] = z]
      OBVIOUS
    <3>2. Has(z, CompileFields) /\ z.opt = r.opt
      BY <1>2 DEF Has, CompileFields
    <3> QED
      BY <1>3, <2>1, <3>1, <3>2 DEF CompilesOn
  <2> QED
    BY <1>8, <2>2, <2>3 DEF FinalizeEngineOutput, CreateBuiltContext, SkipExport, Publish
<1>9. CASE DeserializeBuilt(s)
  <2>1. UNCHANGED <<files, store>>
    BY <1>9 DEF DeserializeBuilt
  <2>2. CASE FailCompile(s)
    BY <1>3, <1>4, <2>1, <2>2 DEF CompilesOn
  <2> PICK b : b = OutputBytes(s)
    OBVIOUS
  <2> PICK e : e = Deserialized(b)
    OBVIOUS
  <2> PICK w : w = WeightBytes(b)
    OBVIOUS
  <2>3. CASE sess' = [sess EXCEPT ![s].bytes = b, ![s].engine = e, ![s].memory = w, ![s].pc = "export"]
    <3> PICK z : z = [r EXCEPT !.bytes = b, !.engine = e, !.memory = w, !.pc = "export"]
      OBVIOUS
    <3>1. sess' = [sess EXCEPT ![s] = z]
      BY <2>3
    <3>2. Has(z, CompileFields) /\ z.opt = r.opt
      BY <1>2 DEF Has, CompileFields
    <3> QED
      BY <1>3, <2>1, <3>1, <3>2 DEF CompilesOn
  <2> HIDE DEF On
  <2> QED
    BY <1>9, <2>2, <2>3 DEF DeserializeBuilt
<1>10. CASE CreateEPContextNode(s)
  <2>1. PICK filtered \in MayFilter(s), written \in BOOLEAN :
          LET node == ExportedNode(s, filtered) IN
          /\ store' = IF written /\ node.stored THEN Written(store, node.path, OutputBytes(s)) ELSE store
          /\ \/ sess' = [sess EXCEPT ![s].pc = AfterExport(sess[s].opt), ![s].exported = Append(@, node),
                                     ![s].preserved = sess[s].out = CachePath(s)]
             \/ FailCompile(s)
    BY <1>10 DEF CreateEPContextNode
  <2> PICK node : node = ExportedNode(s, filtered)
    OBVIOUS
  <2>2. UNCHANGED files
    BY <1>10 DEF CreateEPContextNode
  <2>3. PlacesEngines(s, r.opt, files, files', store, store')
    <3>1. node.stored = (~r.opt.embed /\ r.opt.callbacks)
      BY DEF ExportedNode
    <3>2. CASE node.stored
      BY <2>2, <3>1, <3>2 DEF PlacesEngines
    <3>3. CASE ~node.stored
      BY <2>1, <2>2, <3>3 DEF PlacesEngines
    <3> QED
      BY <3>2, <3>3
  <2>4. CASE FailCompile(s)
    BY <1>4, <2>3, <2>4 DEF CompilesOn
  <2>5. CASE sess' = [sess EXCEPT ![s].pc = AfterExport(sess[s].opt), ![s].exported = Append(@, node),
                                  ![s].preserved = sess[s].out = CachePath(s)]
    <3> PICK kept : kept = (sess[s].out = CachePath(s))
      OBVIOUS
    <3> PICK z : z = [r EXCEPT !.pc = AfterExport(r.opt), !.exported = Append(@, node), !.preserved = kept]
      OBVIOUS
    <3>1. sess' = [sess EXCEPT ![s] = z]
      BY <2>5
    <3>2. Has(z, CompileFields) /\ z.opt = r.opt
      BY <1>2 DEF Has, CompileFields
    <3> QED
      BY <2>3, <3>1, <3>2 DEF CompilesOn
  <2> QED
    BY <2>1, <2>4, <2>5
<1>11. CASE EndNode(s) \/ Unwind(s)
  <2>1. DOMAIN files' \subseteq DOMAIN files
    <3>1. files' = FilesAfterHelper(s)
      BY <1>11 DEF EndNode, Unwind
    <3>2. DOMAIN FilesAfterHelper(s) \subseteq DOMAIN files
      BY DEF FilesAfterHelper, Removed, Restrict
    <3> QED
      BY ONLY <3>1, <3>2, Zenon
  <2>2. PlacesEngines(s, r.opt, files, files', store, store')
    BY <1>11, <2>1 DEF PlacesEngines, EndNode, Unwind
  <2>3. CASE EndNode(s)
    <3> PICK pc : pc = (IF sess[s].at = Len(Nodes) THEN "publish" ELSE "prepare")
      OBVIOUS
    <3> PICK z : z = [r EXCEPT !.pc = pc,
                               !.at = IF @ = Len(Nodes) THEN @ ELSE @ + 1,
                               !.out = Nowhere, !.open = FALSE, !.preserved = FALSE,
                               !.bytes = NoFile, !.engine = NoEngine, !.memory = <<>>]
      OBVIOUS
    <3>1. sess' = [sess EXCEPT ![s] = z]
      BY <2>3 DEF EndNode
    <3>2. Has(z, CompileFields) /\ z.opt = r.opt
      BY <1>2 DEF Has, CompileFields
    <3> QED
      BY <2>2, <3>1, <3>2 DEF CompilesOn
  <2>4. CASE Unwind(s)
    <3> PICK z : z = [r EXCEPT !.pc = "failed", !.out = Nowhere, !.exported = <<>>]
      OBVIOUS
    <3>1. sess' = [sess EXCEPT ![s] = z]
      BY <2>4 DEF Unwind
    <3>2. Has(z, CompileFields) /\ z.opt = r.opt
      BY <1>2 DEF Has, CompileFields
    <3> QED
      BY <2>2, <3>1, <3>2 DEF CompilesOn
  <2> QED
    BY <1>11, <2>3, <2>4
<1> QED
  BY <1>5, <1>6, <1>7, <1>8, <1>9, <1>10, <1>11 DEF CompileStep

\* What a load becomes is of the same model, under the same options.
LEMMA LoadGoesOn ==
  ASSUME NEW s \in Sessions, NEW z, LoadBecomes(s, z)
  PROVE  /\ z.model = sess[s].model /\ z.opt = sess[s].opt
         /\ z.pc = "failed" => Fails(sess[s], z)
<1> PICK r : r = sess[s]
  OBVIOUS
<1>1. ASSUME NEW F, F \in {{"pc", "why"}, {"pc", "bytes"}, {"pc", "bytes", "from", "refit", "complete"},
                           {"pc", "engine", "bytes", "reader", "memory"}, {"pc", "engine"}, {"pc"}, {"reader"},
                           {"wanted"}, {"reader", "wanted"}, {"reader", "memory"}, {"pc", "reader"}},
             Same(r, z, F)
      PROVE  z.model = r.model /\ z.opt = r.opt /\ ("pc" \notin F => z.pc = r.pc)
  BY <1>1 DEF Same, LoadFields
<1>2. CASE Fails(r, z)
  BY <1>1, <1>2 DEF Fails
<1>3. CASE Locates(s, z)
  BY <1>1, <1>3 DEF Locates
<1>4. CASE Reads(s, z)
  BY <1>1, <1>4 DEF Reads
<1>5. CASE Refits(r, z) \/ Continues(r, z)
  BY <1>1, <1>5 DEF Refits, Continues
<1>6. CASE Seeks(r, z)
  BY <1>1, <1>6 DEF Seeks
<1>7. CASE Requests(r, z)
  BY <1>1, <1>7 DEF Requests
<1>8. CASE ReadsMore(r, z)
  BY <1>1, <1>8 DEF ReadsMore
<1>9. CASE RunsCopy(r, z)
  BY <1>1, <1>9 DEF RunsCopy
<1>10. CASE Ends(r, z)
  BY <1>1, <1>10 DEF Ends
<1> QED
  BY <1>2, <1>3, <1>4, <1>5, <1>6, <1>7, <1>8, <1>9, <1>10 DEF LoadBecomes

\* Published models stay published.
LEMMA ModelsGrow ==
  ASSUME EpContextAssumption, OwnDirectories, SessionsOK, NEW s \in Sessions,
         StartCompile(s) \/ StartLoad(s) \/ Step(s)
  PROVE  /\ models \subseteq models'
         /\ sess' = [t \in Sessions |-> sess'[t]] /\ \A t \in Sessions : t # s => sess'[t] = sess[t]
<1>1. StepOK(s)
  BY EveryStepOK
<1> QED
  BY <1>1 DEF StepOK, PublishedBy, SessionsOK

\* A crash leaves the loads that ran as they were, crashed.
LEMMA CrashedLoads ==
  ASSUME SessionsOK, Crash, NEW s \in Sessions, IsLoad(s)'
  PROVE  /\ IsLoad(s) /\ UNCHANGED models
         /\ sess'[s] = sess[s] \/ (sess'[s] = [sess[s] EXCEPT !.pc = "crashed"] /\ Loads(sess[s]))
<1>1. /\ sess'[s] = IF Running(s) THEN [sess[s] EXCEPT !.pc = "crashed"] ELSE sess[s]
      /\ UNCHANGED models
  BY DEF Crash
<1>2. CASE ~Running(s)
  BY <1>1, <1>2 DEF IsLoad
<1>3. CASE Running(s)
  <2>1. sess'[s] = [sess[s] EXCEPT !.pc = "crashed"]
    BY <1>1, <1>3
  <2>2. IsLoad(s)
    BY <2>1 DEF IsLoad
  <2>3. Loads(sess[s])
    BY <2>2, Kinds
  <2> QED
    BY <1>1, <2>1, <2>2, <2>3
<1> QED
  BY <1>2, <1>3

\* A session's step keeps the refusals right.
LEMMA RefusalsStep ==
  ASSUME EpContextAssumption, OwnDirectories, UsableRecords, EnginesInv, RefusalsOK, NEW s \in Sessions,
         StartCompile(s) \/ StartLoad(s) \/ Step(s)
  PROVE  RefusalsOK'
<1>0. SessionsOK
  BY DEF EnginesInv
<1>1. /\ models \subseteq models'
      /\ sess' = [t \in Sessions |-> sess'[t]] /\ \A t \in Sessions : t # s => sess'[t] = sess[t]
  BY <1>0, ModelsGrow
<1> SUFFICES ASSUME NEW t \in Sessions, "model" \in DOMAIN sess'[t]
             PROVE  sess'[t].model \in models' /\ RefusedFor(sess'[t])
  BY DEF RefusalsOK, IsLoad
<1>2. CASE t # s
  <2>1. sess'[t] = sess[t]
    BY <1>1, <1>2
  <2> QED
    BY <1>1, <2>1 DEF RefusalsOK, IsLoad
<1>3. CASE t = s /\ StartCompile(s)
  <2>1. PICK o \in CompileOptions : sess' = [sess EXCEPT ![s] = NewCompile(o)]
    BY <1>3 DEF StartCompile
  <2>2. sess'[s] = NewCompile(o)
    BY <1>0, <2>1 DEF SessionsOK
  <2> QED
    BY <1>3, <2>2 DEF NewCompile
<1>4. CASE t = s /\ StartLoad(s)
  <2>1. PICK o \in LoadOptions, m \in models : sess' = [sess EXCEPT ![s] = NewLoad(o, m)]
    BY <1>4 DEF StartLoad
  <2>2. sess'[s] = NewLoad(o, m)
    BY <1>0, <2>1 DEF SessionsOK
  <2>3. sess'[s].model = m /\ sess'[s].pc = "locate"
    BY <2>2 DEF NewLoad
  <2> QED
    BY <1>1, <1>4, <2>3 DEF RefusedFor
<1>5. CASE t = s /\ CompileStep(s)
  <2>1. PICK z : sess' = [sess EXCEPT ![s] = z] /\ Has(z, CompileFields)
    BY <1>0, <1>5, CompilesLeave DEF CompilesOn
  <2>2. sess'[s] = z
    BY <1>0, <2>1 DEF SessionsOK
  <2> QED
    BY <1>5, <2>1, <2>2 DEF Has, CompileFields
<1>6. CASE t = s /\ LoadStep(s)
  <2>1. PICK z : sess' = [sess EXCEPT ![s] = z] /\ Loads(z) /\ LoadBecomes(s, z) /\ Loads(sess[s])
    BY <1>0, <1>6, LoadsBecome
  <2> PICK r : r = sess[s]
    OBVIOUS
  <2>2. sess'[s] = z
    BY <1>0, <2>1 DEF SessionsOK
  <2>3. z.model = r.model /\ z.opt = r.opt /\ (z.pc = "failed" => Fails(r, z))
    BY <2>1, LoadGoesOn
  <2>4. r.model \in models
    BY <1>0, <2>1, Kinds DEF RefusalsOK
  <2>5. RefusedFor(z)
    <3> SUFFICES ASSUME z.pc = "failed", z.why \in Refusals, z.opt.stripped, z.model \notin InitialModels
                 PROVE  ~Refittable(z.model.node)
      BY DEF RefusedFor
    <3>1. Refused(r) /\ r.model \in Exported /\ r.opt.stripped
      BY <2>3, <2>4 DEF Fails, Exported
    <3>2. PICK u \in Sessions : /\ ExportOK(u, sess[u], r.model, files, store)
                                /\ r.model.node \in DOMAIN NodeInfo /\ sess[u].opt.stripped \in BOOLEAN
      BY <3>1, ExportedIs
    <3>3. TableOf(r.model)
      BY <3>1, <3>2 DEF ExportOK, Refused
    <3> QED
      BY <2>3, <3>1, <3>2, <3>3, RefusedUnrefittable
  <2> QED
    BY <1>1, <1>6, <2>2, <2>3, <2>4, <2>5
<1> QED
  BY <1>2, <1>3, <1>4, <1>5, <1>6 DEF Step

(***************************************************************************)
(* ExportedTablesSuffice holds in every behaviour, for any records a refit *)
(* could use: what export drops and filters is nothing a load needs, so    *)
(* that a refusal means the parser, or partitioning, had left a gap.       *)
(***************************************************************************)
THEOREM TablesSuffice ==
  ASSUME OwnDirectories, UsableRecords
  PROVE  Spec => []ExportedTablesSuffice
<1> USE EpContextAssumption
<1>1. Init => RefusalsOK
  BY DEF Init, RefusalsOK, IsLoad, Idle
<1>2. EnginesInv /\ RefusalsOK /\ [Next]_vars => RefusalsOK'
  <2> SUFFICES ASSUME EnginesInv, RefusalsOK, [Next]_vars PROVE RefusalsOK'
    OBVIOUS
  <2>1. CASE UNCHANGED vars
    BY <2>1 DEF vars, RefusalsOK, IsLoad
  <2>2. ASSUME NEW s \in Sessions, StartCompile(s) \/ StartLoad(s) \/ Step(s) PROVE RefusalsOK'
    BY <2>2, RefusalsStep
  <2>3. CASE Crash
    <3> SUFFICES ASSUME NEW s \in Sessions, IsLoad(s)'
                 PROVE  sess'[s].model \in models' /\ RefusedFor(sess'[s])
      BY DEF RefusalsOK, IsLoad
    <3>1. /\ IsLoad(s) /\ UNCHANGED models
          /\ sess'[s] = sess[s] \/ (sess'[s] = [sess[s] EXCEPT !.pc = "crashed"] /\ Loads(sess[s]))
      BY <2>3, CrashedLoads DEF EnginesInv
    <3>2. sess[s].model \in models /\ RefusedFor(sess[s])
      BY <3>1 DEF RefusalsOK
    <3>3. CASE sess'[s] = [sess[s] EXCEPT !.pc = "crashed"] /\ Loads(sess[s])
      <4>1. sess'[s].pc = "crashed" /\ sess'[s].model = sess[s].model
        BY <3>3 DEF Loads, Has, LoadFields
      <4> QED
        BY <3>1, <3>2, <4>1 DEF RefusedFor
    <3> QED
      BY <3>1, <3>2, <3>3
  <2> QED
    BY <2>1, <2>2, <2>3 DEF Next
<1>3. RefusalsOK => ExportedTablesSuffice
  BY DEF RefusalsOK, RefusedFor, Refusals, ExportedTablesSuffice, At, Exported
<1> QED
  BY <1>1, <1>2, <1>3, EnginesInvariant, PTL DEF Spec

-----------------------------------------------------------------------------
(* The reader of weights: alignment, the bytes for the host, the upload *)

\* A quotient of naturals is natural.
LEMMA QuotientNatural ==
  ASSUME NEW x \in Nat, NEW a \in Nat, a > 0, NEW q \in Int, NEW m \in Int, 0 <= m, m < a, x = a * q + m
  PROVE  q \in Nat
<1> SUFFICES ASSUME q < 0 PROVE FALSE
  OBVIOUS
<1>1. 0 - q - 1 \in Nat
  OBVIOUS
<1>2. a * (0 - q - 1) \in Nat
  BY <1>1
<1>3. a * (0 - q - 1) = 0 - a * q - a
  OBVIOUS
<1> QED
  BY <1>2, <1>3

\* Division with remainder.
LEMMA Divided ==
  ASSUME NEW x \in Nat, NEW a \in Nat, a > 0
  PROVE  x \div a \in Nat /\ x % a \in Int /\ 0 <= x % a /\ x % a < a /\ x = a * (x \div a) + (x % a)
<1>1. x \div a \in Int /\ x % a \in Int
  OBVIOUS
<1>2. 0 <= x % a /\ x % a < a
  OBVIOUS
<1>3. x = a * (x \div a) + (x % a)
  OBVIOUS
<1>4. x \div a \in Nat
  BY ONLY x \in Nat, a \in Nat, a > 0, <1>1, <1>2, <1>3, QuotientNatural, Zenon
<1> QED
  BY ONLY <1>1, <1>2, <1>3, <1>4, Zenon

\* Rounding to the alignment.
LEMMA Aligned ==
  ASSUME NEW x \in Nat
  PROVE  /\ AlignDown(x) \in Nat /\ AlignDown(x) <= x
         /\ AlignUp(x) \in Nat /\ x <= AlignUp(x)
<1> DEFINE d == x \div Alignment
           m == x % Alignment
<1>0. Alignment \in Nat /\ Alignment > 0
  BY ReaderAssumption
<1>1. d \in Nat /\ m \in 0 .. (Alignment - 1) /\ x = Alignment * d + m
  BY <1>0, Divided
<1>2. AlignDown(x) = d * Alignment /\ AlignUp(x) = IF m = 0 THEN x ELSE x + Alignment - m
  BY DEF AlignDown, AlignUp
<1> HIDE DEF d, m
<1>3. d * Alignment = Alignment * d /\ Alignment * d \in Nat
  BY <1>0, <1>1
<1> QED
  BY <1>0, <1>1, <1>2, <1>3

\* A ring that the reader accepts has room for a byte in each slot.
LEMMA PayloadPositive ==
  ASSUME ReaderAccepted
  PROVE  MaxPayload \in Nat /\ MaxPayload >= 1
<1> DEFINE y == AlignUp(SlotBytes) - Alignment
           q == SlotBytes \div Alignment
           d == y \div Alignment
           m == y % Alignment
<1>0. Alignment \in Nat /\ Alignment > 0 /\ SlotBytes \in Nat /\ AlignUp(SlotBytes) > Alignment
  BY ReaderAssumption DEF ReaderAccepted
<1>1. AlignUp(SlotBytes) \in Nat
  BY <1>0, Aligned
<1>2. y \in Nat /\ y >= 1
  BY <1>0, <1>1
<1>3. PICK k \in Nat : AlignUp(SlotBytes) = Alignment * k
  <2> DEFINE r == SlotBytes % Alignment
  <2>1. q \in Nat /\ r \in 0 .. (Alignment - 1) /\ SlotBytes = Alignment * q + r
    BY <1>0, Divided
  <2>2. AlignUp(SlotBytes) = IF r = 0 THEN SlotBytes ELSE SlotBytes + Alignment - r
    BY DEF AlignUp
  <2> HIDE DEF r, q
  <2>3. CASE r = 0
    <3>1. AlignUp(SlotBytes) = Alignment * q
      BY <1>0, <2>1, <2>2, <2>3
    <3> QED
      BY <2>1, <3>1
  <2>4. CASE r # 0
    <3>1. q + 1 \in Nat /\ Alignment * (q + 1) = Alignment * q + Alignment
      BY <1>0, <2>1
    <3>2. AlignUp(SlotBytes) = Alignment * q + Alignment
      BY <1>0, <2>1, <2>2, <2>4
    <3> QED
      BY <3>1, <3>2
  <2> QED
    BY <2>3, <2>4
<1>4. k >= 2
  <2>1. CASE k = 0
    BY <1>0, <1>3, <2>1
  <2>2. CASE k = 1
    BY <1>0, <1>3, <2>2
  <2> QED
    BY <1>3, <2>1, <2>2
<1>5. y >= Alignment
  <2>1. k - 2 \in Nat /\ Alignment * k = Alignment * (k - 2) + 2 * Alignment
    BY <1>0, <1>3, <1>4
  <2>2. Alignment * (k - 2) \in Nat
    BY <1>0, <2>1
  <2> QED
    BY <1>0, <1>3, <2>1, <2>2
<1>6. d \in Nat /\ m \in 0 .. (Alignment - 1) /\ y = Alignment * d + m
  <2> HIDE DEF y
  <2> QED
    BY <1>0, <1>2, Divided
<1>7. MaxPayload = d * Alignment
  BY DEF MaxPayload, AlignDown
<1> HIDE DEF y, d, m
<1>8. d # 0
  BY <1>0, <1>5, <1>6
<1>9. d - 1 \in Nat /\ d * Alignment = (d - 1) * Alignment + Alignment
  BY <1>0, <1>6, <1>8
<1>10. (d - 1) * Alignment \in Nat
  BY <1>0, <1>9
<1> QED
  BY <1>0, <1>7, <1>9, <1>10

\* Parts of a sequence.
LEMMA PartIs ==
  ASSUME NEW V, NEW P \in Seq(V), NEW a \in Nat, NEW b \in Nat, a <= b, b <= Len(P)
  PROVE  /\ SubSeq(P, a + 1, b) \in Seq(V) /\ Len(SubSeq(P, a + 1, b)) = b - a
         /\ \A i \in 1 .. b - a : SubSeq(P, a + 1, b)[i] = P[a + i]
<1>1. Len(P) \in Nat /\ \A i \in 1 .. Len(P) : P[i] \in V
  BY LenProperties, ElementOfSeq
<1>2. a + 1 \in Int /\ b \in Int /\ \A i \in a + 1 .. b : P[i] \in V
  BY <1>1
<1>3. /\ SubSeq(P, a + 1, b) \in Seq(V)
      /\ Len(SubSeq(P, a + 1, b)) = IF a + 1 <= b THEN b - (a + 1) + 1 ELSE 0
      /\ \A i \in 1 .. b - (a + 1) + 1 : SubSeq(P, a + 1, b)[i] = P[a + 1 + i - 1]
  BY ONLY <1>2, SubSeqProperties
<1>4. b - (a + 1) + 1 = b - a /\ (IF a + 1 <= b THEN b - (a + 1) + 1 ELSE 0) = b - a
  OBVIOUS
<1>5. ASSUME NEW i \in 1 .. b - a PROVE SubSeq(P, a + 1, b)[i] = P[a + i]
  <2>1. i \in 1 .. b - (a + 1) + 1 /\ a + 1 + i - 1 = a + i
    OBVIOUS
  <2> QED
    BY ONLY <1>3, <2>1
<1> QED
  BY <1>3, <1>4, <1>5

\* What the reader gets when it reads from the aligned place below a position: the
\* bytes asked for lie behind the prefix.
Prefix(at) == at - AlignDown(at)
Received(P, at, w) == ReadAt(P, AlignDown(at), AlignUp(Prefix(at) + w))

\* So it is.
LEMMA ChunkIs ==
  ASSUME NEW V, NEW P \in Seq(V), NEW at \in Nat, NEW w \in Nat, at + w <= Len(P)
  PROVE  /\ Prefix(at) \in Nat /\ Received(P, at, w) \in Seq(V)
         /\ Len(Received(P, at, w)) \in Nat /\ DOMAIN Received(P, at, w) = 1 .. Len(Received(P, at, w))
         /\ Prefix(at) + w <= Len(Received(P, at, w))
         /\ \A k \in 1 .. w : Received(P, at, w)[Prefix(at) + k] = P[at + k]
<1> PICK prefix : prefix = Prefix(at)
  OBVIOUS
<1> PICK received : received = Received(P, at, w)
  OBVIOUS
<1>0. prefix = at - AlignDown(at) /\ received = ReadAt(P, AlignDown(at), AlignUp(prefix + w))
  BY DEF Prefix, Received
<1> DEFINE down == AlignDown(at)
           up == AlignUp(prefix + w)
           last == IF down + up < Len(P) THEN down + up ELSE Len(P)
<1>1. down \in Nat /\ down <= at /\ prefix = at - down /\ prefix \in Nat
  <2>1. AlignDown(at) \in Nat /\ AlignDown(at) <= at
    BY ONLY at \in Nat, Aligned
  <2> QED
    BY <1>0, <2>1
<1>2. up \in Nat /\ prefix + w <= up
  <2>1. prefix + w \in Nat
    BY <1>1
  <2> QED
    BY ONLY <2>1, Aligned
<1>3. received = SubSeq(P, down + 1, last)
  BY <1>0 DEF ReadAt
<1>4. Len(P) \in Nat
  BY LenProperties
<1> HIDE DEF down, up
<1>5. last \in Nat /\ at + w <= last /\ last <= Len(P) /\ down <= last
  BY <1>1, <1>2, <1>4
<1> HIDE DEF last
<1>6. /\ received \in Seq(V) /\ Len(received) = last - down
      /\ \A i \in 1 .. last - down : received[i] = P[down + i]
  BY ONLY P \in Seq(V), <1>1, <1>3, <1>5, PartIs
<1>7. prefix + w <= Len(received) /\ Len(received) \in Nat
  BY <1>1, <1>5, <1>6
<1>8. ASSUME NEW k \in 1 .. w PROVE received[prefix + k] = P[at + k]
  <2>1. prefix + k \in 1 .. last - down /\ down + (prefix + k) = at + k
    BY <1>1, <1>5
  <2> QED
    BY ONLY <1>6, <2>1
<1> QED
  BY <1>1, <1>6, <1>7, <1>8, LenProperties

\* The same of a plan.
LEMMA ChunkIsOfBytes ==
  ASSUME NEW P \in Seq(Nat), NEW at \in Nat, NEW w \in Nat, at + w <= Len(P)
  PROVE  /\ Prefix(at) \in Nat /\ Received(P, at, w) \in Seq(Nat)
         /\ Len(Received(P, at, w)) \in Nat /\ DOMAIN Received(P, at, w) = 1 .. Len(Received(P, at, w))
         /\ Prefix(at) + w <= Len(Received(P, at, w))
         /\ \A k \in 1 .. w : Received(P, at, w)[Prefix(at) + k] = P[at + k]
BY ChunkIs

\* How much of a request a chunk serves.
LEMMA PayloadIs ==
  ASSUME ReaderAccepted, NEW wanted \in Nat
  PROVE  /\ Payload(wanted) \in Nat /\ Payload(wanted) <= wanted
         /\ wanted > 0 => Payload(wanted) > 0
<1>1. MaxPayload \in Nat /\ MaxPayload >= 1
  BY PayloadPositive
<1>2. Payload(wanted) = IF MaxPayload < wanted THEN MaxPayload ELSE wanted
  BY DEF Payload, LeastOf
<1> QED
  BY ONLY wanted \in Nat, <1>1, <1>2

\* The bytes a chunk serves are those of the file.
LEMMA ChunkServes ==
  ASSUME NEW V, NEW P \in Seq(V), NEW at \in Nat, NEW w \in Nat, at + w <= Len(P)
  PROVE  SubSeq(Received(P, at, w), Prefix(at) + 1, Prefix(at) + w) = SubSeq(P, at + 1, at + w)
<1> PICK prefix : prefix = Prefix(at)
  OBVIOUS
<1> PICK received : received = Received(P, at, w)
  OBVIOUS
<1>1. /\ prefix \in Nat /\ received \in Seq(V) /\ prefix + w <= Len(received)
      /\ \A k \in 1 .. w : received[prefix + k] = P[at + k]
  BY ChunkIs
<1> PICK c : c = SubSeq(received, prefix + 1, prefix + w)
  OBVIOUS
<1> PICK d : d = SubSeq(P, at + 1, at + w)
  OBVIOUS
<1>2. /\ c \in Seq(V) /\ Len(c) = w
      /\ \A i \in 1 .. w : c[i] = received[prefix + i]
  <2>1. prefix + w \in Nat /\ prefix <= prefix + w /\ (prefix + w) - prefix = w
    <3>1. prefix \in Nat
      BY ONLY <1>1
    <3> QED
      BY ONLY w \in Nat, <3>1
  <2> PICK e : e = prefix + w
    OBVIOUS
  <2>2. received \in Seq(V) /\ prefix \in Nat /\ e \in Nat /\ prefix <= e /\ e <= Len(received)
    BY <1>1, <2>1, Zenon
  <2>3. /\ SubSeq(received, prefix + 1, e) \in Seq(V)
        /\ Len(SubSeq(received, prefix + 1, e)) = e - prefix
        /\ \A i \in 1 .. e - prefix : SubSeq(received, prefix + 1, e)[i] = received[prefix + i]
    BY ONLY <2>2, PartIs
  <2>4. e - prefix = w /\ c = SubSeq(received, prefix + 1, e)
    BY <2>1, Zenon
  <2> QED
    BY ONLY <2>3, <2>4, Zenon
<1>3. /\ d \in Seq(V) /\ Len(d) = w
      /\ \A i \in 1 .. w : d[i] = P[at + i]
  <2>1. at + w \in Nat /\ at <= at + w /\ (at + w) - at = w
    OBVIOUS
  <2>2. /\ d \in Seq(V) /\ Len(d) = (at + w) - at
        /\ \A i \in 1 .. (at + w) - at : d[i] = P[at + i]
    BY ONLY d = SubSeq(P, at + 1, at + w), P \in Seq(V), at \in Nat, at + w <= Len(P), <2>1, PartIs
  <2> QED
    BY ONLY <2>1, <2>2
<1>4. c = d
  <2>1. \A i \in 1 .. Len(c) : c[i] = d[i]
    <3>1. ASSUME NEW i \in 1 .. w PROVE c[i] = d[i]
      BY ONLY i \in 1 .. w, <1>1, <1>2, <1>3
    <3> QED
      BY ONLY <1>2, <3>1
  <2> QED
    BY ONLY <1>2, <1>3, <2>1, SeqEqual
<1> QED
  BY <1>4

\* A read into host memory gets the whole file.
LEMMA HostBytesAre ==
  ASSUME ReaderAccepted, NEW V, NEW P \in Seq(V)
  PROVE  HostBytes(NewReader(Len(P)), P, Len(P)) = P
<1> DEFINE L == Len(P)
           r == NewReader(L)
           Place(left) == [r EXCEPT !.position = @ + (L - left)]
           Bytes(left) == ReadAt(P, AlignDown(Place(left).position),
                                 AlignUp(ChunkPrefix(Place(left)) + Payload(left)))
           Chunk(left) == SubSeq(Bytes(left), ChunkPrefix(Place(left)) + 1,
                                 ChunkPrefix(Place(left)) + Payload(left))
           Turn(f) == [left \in 0 .. L |-> IF left = 0 THEN <<>>
                                           ELSE Chunk(left) \o f[left - Payload(left)]]
           bytes == CHOOSE f : f = Turn(f)
           rest == [left \in 0 .. L |-> SubSeq(P, L - left + 1, L)]
<1>1. HostBytes(r, P, L) = bytes[L]
  BY DEF HostBytes
<1>2. L \in Nat
  BY LenProperties
<1>3. ASSUME NEW left \in 1 .. L
      PROVE  /\ Payload(left) \in 1 .. left
             /\ Chunk(left) = SubSeq(P, L - left + 1, L - left + Payload(left))
  <2>1. Payload(left) \in 1 .. left
    BY <1>2, PayloadIs
  <2> PICK at : at = L - left
    OBVIOUS
  <2>2. at \in Nat /\ at + Payload(left) \in Nat /\ at + Payload(left) <= L /\ Payload(left) \in Nat
    BY <1>2, <2>1
  <2>3. Place(left).position = at
    BY <1>2 DEF NewReader
  <2>4. ChunkPrefix(Place(left)) = Prefix(at)
    BY <2>3 DEF ChunkPrefix, Prefix
  <2>5. Bytes(left) = Received(P, at, Payload(left))
    BY <2>3, <2>4 DEF Received
  <2> HIDE DEF Bytes, Place
  <2>6. SubSeq(Received(P, at, Payload(left)), Prefix(at) + 1, Prefix(at) + Payload(left))
          = SubSeq(P, at + 1, at + Payload(left))
    BY ONLY P \in Seq(V), at \in Nat, <2>2, ChunkServes
  <2> QED
    BY <2>1, <2>4, <2>5, <2>6
<1> HIDE DEF Chunk
<1>4. rest = Turn(rest)
  <2>1. ASSUME NEW left \in 0 .. L PROVE rest[left] = Turn(rest)[left]
    <3>1. CASE left = 0
      <4>1. SubSeq(P, L - left + 1, L) = <<>>
        BY <1>2, <3>1, SubSeqEmpty
      <4> QED
        BY <3>1, <4>1
    <3>2. CASE left # 0
      <4> PICK p : p = Payload(left)
        OBVIOUS
      <4>1. left \in 1 .. L /\ p \in 1 .. left /\ left - p \in 0 .. L
        BY <1>2, <1>3, <3>2
      <4>2. Chunk(left) = SubSeq(P, L - left + 1, L - left + p)
        BY <1>3, <4>1
      <4>3. rest[left - p] = SubSeq(P, L - left + p + 1, L)
        <5>1. L - (left - p) + 1 = L - left + p + 1
          BY <1>2, <4>1
        <5> QED
          BY <4>1, <5>1
      <4>4. SubSeq(P, L - left + 1, L - left + p) \o SubSeq(P, L - left + p + 1, L) = SubSeq(P, L - left + 1, L)
        <5> PICK m : m = L - left + 1
          OBVIOUS
        <5> PICK k : k = L - left + p
          OBVIOUS
        <5>1. m \in 1 .. L + 1 /\ k \in m - 1 .. L /\ L \in k .. L
          BY <1>2, <4>1
        <5>2. SubSeq(P, m, k) \o SubSeq(P, k + 1, L) = SubSeq(P, m, L)
          BY <5>1, ConcatAdjacentSubSeq
        <5> QED
          BY <5>2
      <4>5. Turn(rest)[left] = Chunk(left) \o rest[left - p]
        BY <3>2
      <4> QED
        BY <4>2, <4>3, <4>4, <4>5
    <3> QED
      BY <3>1, <3>2
  <2> QED
    BY <2>1
<1>5. bytes = Turn(bytes)
  BY <1>4
<1> HIDE DEF bytes
<1>6. ASSUME NEW left \in 0 .. L PROVE bytes[left] = rest[left]
  <2> DEFINE T == {n \in 0 .. L : bytes[n] # rest[n]}
  <2>1. SUFFICES ASSUME T # {} PROVE FALSE
    OBVIOUS
  <2>2. T \subseteq Nat
    BY <1>2
  <2>3. PICK n \in T : \A m \in T : n <= m
    <3> HIDE DEF T
    <3> QED
      BY <2>1, <2>2, LeastNumber
  <2>4. n # 0
    <3>1. n = 0 => bytes[n] = <<>> /\ rest[n] = <<>>
      BY <1>4, <1>5
    <3> QED
      BY <2>3, <3>1
  <2> PICK p : p = Payload(n)
    OBVIOUS
  <2>5. n \in 1 .. L /\ p \in 1 .. n /\ n - p \in 0 .. L /\ n - p < n /\ n \in 0 .. L
    BY <1>2, <1>3, <2>4, SMTT(30)
  <2>6. n - p \notin T
    <3> HIDE DEF T
    <3> QED
      BY ONLY <2>3, <2>5, L \in Nat, n \in T
  <2>7. bytes[n - p] = rest[n - p]
    BY <2>5, <2>6
  <2>8. bytes[n] = Chunk(n) \o bytes[n - p] /\ rest[n] = Chunk(n) \o rest[n - p]
    <3> HIDE DEF rest, T
    <3> QED
      BY <1>4, <1>5, <2>4, <2>5
  <2> QED
    BY <2>3, <2>7, <2>8
<1>7. L \in 0 .. L /\ L - L + 1 = 1
  BY <1>2
<1>8. rest[L] = SubSeq(P, 1, L)
  BY <1>7
<1>9. SubSeq(P, 1, L) = P
  BY SubSeqFull
<1> QED
  BY <1>1, <1>6, <1>7, <1>8, <1>9

\* An upload in progress: what is queued reads a slot that is kept for it and holds
\* what it is to copy; what is not queued any more has arrived.
ReaderFields == {"size", "position", "next", "slots", "inflight", "queue", "error"}
Copies == [slot : 1 .. RingDepth, from : Nat, bytes : Nat, to : Nat]
ReaderOK(q, wanted, P) ==
  /\ q = [f \in ReaderFields |-> q[f]]
  /\ q.size = Len(P) /\ q.position \in 0 .. Len(P) /\ wanted \in Nat /\ q.position + wanted <= Len(P)
  /\ wanted > 0 => q.position > 0
  /\ q.next \in 1 .. RingDepth /\ q.slots \in [1 .. RingDepth -> Seq(Nat)]
  /\ q.inflight \in [1 .. RingDepth -> BOOLEAN] /\ q.queue \in Seq(Copies)
Backed(q, c, P) ==
  /\ ~q.error => q.inflight[c.slot]
  /\ \A k \in 1 .. c.bytes : /\ c.from + k \in DOMAIN q.slots[c.slot]
                             /\ q.slots[c.slot][c.from + k] = P[1 + c.to + k]
QueueOK(q, P) == \A j \in DOMAIN q.queue : Backed(q, q.queue[j], P)
Covered(c) == c.to + 1 .. c.to + c.bytes
Arrived(q, memory, P) ==
  /\ memory = [i \in 1 .. Len(P) - 1 |-> memory[i]]
  /\ \A i \in 1 .. q.position - 1 :
       memory[i] = P[i + 1] \/ \E j \in DOMAIN q.queue : i \in Covered(q.queue[j])
UploadOK(q, wanted, memory, P) == ReaderOK(q, wanted, P) /\ QueueOK(q, P) /\ Arrived(q, memory, P)

\* Before it starts.
LEMMA UploadStarts ==
  ASSUME ReaderAccepted, NEW P \in Seq(Nat), NEW memory,
         memory = [i \in 1 .. Len(P) - 1 |-> memory[i]]
  PROVE  UploadOK(NewReader(Len(P)), 0, memory, P)
<1> PICK q : q = NewReader(Len(P))
  OBVIOUS
<1>1. /\ q = [f \in ReaderFields |-> q[f]] /\ q.size = Len(P) /\ q.position = 0 /\ q.next = 1
      /\ q.slots = [i \in 1 .. RingDepth |-> <<>>] /\ q.inflight = [i \in 1 .. RingDepth |-> FALSE]
      /\ q.queue = <<>>
  BY DEF NewReader, ReaderFields
<1>2. Len(P) \in Nat /\ RingDepth \in Nat /\ RingDepth >= 1
  BY LenProperties, ReaderAssumption DEF ReaderAccepted
<1>3. <<>> \in Seq(Nat) /\ <<>> \in Seq(Copies) /\ DOMAIN <<>> = {}
  BY EmptySeq
<1>4. ReaderOK(q, 0, P)
  <2>1. q.slots \in [1 .. RingDepth -> Seq(Nat)] /\ q.inflight \in [1 .. RingDepth -> BOOLEAN]
    BY <1>1, <1>3
  <2>2. /\ q.position \in 0 .. Len(P) /\ 0 \in Nat /\ q.position + 0 <= Len(P) /\ q.next \in 1 .. RingDepth
        /\ ~(0 > 0)
    BY <1>1, <1>2
  <2>3. q.queue \in Seq(Copies)
    BY <1>1, <1>3
  <2> QED
    BY ONLY <1>1, <2>1, <2>2, <2>3 DEF ReaderOK
<1>5. QueueOK(q, P) /\ Arrived(q, memory, P)
  <2>1. DOMAIN q.queue = {}
    BY ONLY <1>1, <1>3
  <2>2. q.position - 1 = -1
    BY ONLY <1>1
  <2>3. \A i \in 1 .. q.position - 1 : FALSE
    BY ONLY <2>2
  <2> QED
    BY <2>1, <2>3 DEF QueueOK, Arrived
<1> QED
  BY <1>4, <1>5 DEF UploadOK

\* The seek past the header.
LEMMA UploadSeeks ==
  ASSUME NEW P \in Seq(Nat), NEW q, NEW wanted, NEW memory, UploadOK(q, wanted, memory, P),
         q.position = 0, Len(P) >= 1
  PROVE  UploadOK([q EXCEPT !.position = 1], wanted, memory, P)
<1> PICK z : z = [q EXCEPT !.position = 1]
  OBVIOUS
<1>1. Len(P) \in Nat
  BY LenProperties
<1>2. /\ z = [f \in ReaderFields |-> z[f]] /\ z.size = q.size /\ z.position = 1 /\ z.next = q.next
      /\ z.slots = q.slots /\ z.inflight = q.inflight /\ z.queue = q.queue
  BY DEF UploadOK, ReaderOK, ReaderFields
<1>3. wanted = 0
  BY DEF UploadOK, ReaderOK
<1>4. ReaderOK(z, wanted, P)
  <2>1. /\ z.position \in 0 .. Len(P) /\ wanted \in Nat /\ z.position + wanted <= Len(P) /\ ~(wanted > 0)
    BY <1>1, <1>2, <1>3
  <2>2. ReaderOK(q, wanted, P)
    BY DEF UploadOK
  <2> QED
    BY ONLY <1>2, <2>1, <2>2 DEF ReaderOK
<1>5. QueueOK(z, P)
  BY <1>2 DEF UploadOK, QueueOK, Backed
<1>6. Arrived(z, memory, P)
  BY <1>2 DEF UploadOK, Arrived
<1> QED
  BY <1>4, <1>5, <1>6 DEF UploadOK

\* TensorRT asks for bytes.
LEMMA UploadRequests ==
  ASSUME NEW P \in Seq(Nat), NEW q, NEW memory, UploadOK(q, 0, memory, P), q.position > 0,
         NEW n \in 1 .. Available(q)
  PROVE  UploadOK(q, n, memory, P)
<1>1. Len(P) \in Nat
  BY LenProperties
<1>2. /\ q.size = Len(P) /\ q.position \in 0 .. Len(P)
  BY DEF UploadOK, ReaderOK
<1>3. n \in Nat /\ q.position + n <= Len(P)
  BY <1>1, <1>2 DEF Available
<1> QED
  BY <1>3 DEF UploadOK, ReaderOK

\* The stream runs an upload.
LEMMA UploadRuns ==
  ASSUME NEW P \in Seq(Nat), NEW q, NEW wanted, NEW memory, UploadOK(q, wanted, memory, P), q.queue # <<>>
  PROVE  UploadOK([q EXCEPT !.queue = Tail(@)], wanted, UploadHead(q, memory), P)
<1> PICK z : z = [q EXCEPT !.queue = Tail(@)]
  OBVIOUS
<1> PICK mem : mem = UploadHead(q, memory)
  OBVIOUS
<1> PICK c : c = Head(q.queue)
  OBVIOUS
<1> PICK N : N = Len(q.queue)
  OBVIOUS
<1>1. /\ z = [f \in ReaderFields |-> z[f]] /\ z.size = q.size /\ z.position = q.position /\ z.next = q.next
      /\ z.slots = q.slots /\ z.inflight = q.inflight /\ z.queue = Tail(q.queue)
  BY DEF UploadOK, ReaderOK, ReaderFields
<1>2. q.queue \in Seq(Copies) /\ Len(P) \in Nat
  BY LenProperties DEF UploadOK, ReaderOK
<1>3. /\ N \in Nat /\ N >= 1 /\ DOMAIN q.queue = 1 .. N /\ c = q.queue[1] /\ c \in Copies
      /\ Tail(q.queue) \in Seq(Copies) /\ Len(Tail(q.queue)) = N - 1
      /\ DOMAIN Tail(q.queue) = 1 .. N - 1
      /\ \A j \in 1 .. N - 1 : Tail(q.queue)[j] = q.queue[j + 1]
  <2> PICK u : u = q.queue
    OBVIOUS
  <2>1. u \in Seq(Copies) /\ u # <<>>
    BY <1>2
  <2>2. /\ Head(u) \in Copies /\ Tail(u) \in Seq(Copies) /\ Len(Tail(u)) = Len(u) - 1
        /\ \A j \in 1 .. Len(Tail(u)) : Tail(u)[j] = u[j + 1]
    BY <2>1, HeadTailProperties
  <2>3. Len(u) \in Nat /\ DOMAIN u = 1 .. Len(u) /\ Len(u) >= 1 /\ Head(u) = u[1]
    BY <2>1, LenProperties, EmptySeq
  <2>4. DOMAIN Tail(u) = 1 .. Len(u) - 1
    BY <2>2, LenProperties
  <2> QED
    BY <2>2, <2>3, <2>4
<1>4. ReaderOK(z, wanted, P)
  BY <1>1, <1>3 DEF UploadOK, ReaderOK
<1>5. QueueOK(z, P)
  <2> SUFFICES ASSUME NEW j \in DOMAIN z.queue PROVE Backed(z, z.queue[j], P)
    BY DEF QueueOK
  <2>1. j + 1 \in DOMAIN q.queue /\ z.queue[j] = q.queue[j + 1]
    BY <1>1, <1>3
  <2>2. Backed(q, q.queue[j + 1], P)
    BY <2>1 DEF UploadOK, QueueOK
  <2> QED
    BY <1>1, <2>1, <2>2 DEF Backed
<1>6. Backed(q, c, P)
  <2>1. \A j \in DOMAIN q.queue : Backed(q, q.queue[j], P)
    BY Zenon DEF UploadOK, QueueOK
  <2>2. 1 \in DOMAIN q.queue /\ c = q.queue[1]
    BY ONLY <1>3, SMT
  <2> QED
    BY ONLY <2>1, <2>2, Zenon
<1>7. /\ mem = [i \in DOMAIN memory |-> mem[i]]
      /\ \A i \in DOMAIN memory :
           mem[i] = IF i \in Covered(c)
                    THEN IF c.from + i - c.to \in DOMAIN q.slots[c.slot]
                         THEN q.slots[c.slot][c.from + i - c.to] ELSE NoByte
                    ELSE memory[i]
  BY DEF UploadHead, Covered
<1>8. Arrived(z, mem, P)
  <2>1. DOMAIN memory = 1 .. Len(P) - 1
    BY DEF UploadOK, Arrived
  <2> SUFFICES ASSUME NEW i \in 1 .. q.position - 1
               PROVE  mem[i] = P[i + 1] \/ \E j \in DOMAIN z.queue : i \in Covered(z.queue[j])
    BY <1>1, <1>7, <2>1 DEF Arrived
  <2>2. q.position \in 0 .. Len(P) /\ i \in DOMAIN memory /\ i \in Nat
    BY <1>2, <2>1, SMTT(30) DEF UploadOK, ReaderOK
  <2>3. CASE i \in Covered(c)
    <3> PICK k : k = i - c.to
      OBVIOUS
    <3>1. /\ c.to \in Nat /\ c.from \in Nat /\ c.bytes \in Nat
      BY <1>3 DEF Copies
    <3>2. k \in 1 .. c.bytes /\ c.from + i - c.to = c.from + k /\ 1 + c.to + k = i + 1
      <4>1. c.to + 1 <= i /\ i <= c.to + c.bytes
        BY <2>2, <2>3, <3>1 DEF Covered
      <4> QED
        BY ONLY k = i - c.to, <2>2, <3>1, <4>1, SMTT(30)
    <3>3. c.from + k \in DOMAIN q.slots[c.slot] /\ q.slots[c.slot][c.from + k] = P[1 + c.to + k]
      BY <1>6, <3>2 DEF Backed
    <3> QED
      BY <1>7, <2>2, <2>3, <3>2, <3>3
  <2>4. CASE i \notin Covered(c)
    <3>1. mem[i] = memory[i]
      BY <1>7, <2>2, <2>4
    <3>2. memory[i] = P[i + 1] \/ \E j \in DOMAIN q.queue : i \in Covered(q.queue[j])
      BY DEF UploadOK, Arrived
    <3>3. ASSUME NEW j \in DOMAIN q.queue, i \in Covered(q.queue[j])
          PROVE  \E l \in DOMAIN z.queue : i \in Covered(z.queue[l])
      <4>1. j # 1 /\ j - 1 \in 1 .. N - 1 /\ (j - 1) + 1 = j
        BY <1>3, <2>4, <3>3
      <4>2. z.queue[j - 1] = q.queue[j] /\ j - 1 \in DOMAIN z.queue
        BY <1>1, <1>3, <4>1
      <4> QED
        BY <3>3, <4>2
    <3> QED
      BY <3>1, <3>2, <3>3
  <2> QED
    BY <2>3, <2>4
<1> QED
  BY <1>4, <1>5, <1>8 DEF UploadOK

\* When all has been asked for and the queue is empty, all has arrived.
LEMMA UploadEnds ==
  ASSUME NEW P \in Seq(Nat), P # <<>>, NEW q, NEW wanted, NEW memory, UploadOK(q, wanted, memory, P),
         q.position = q.size, q.queue = <<>>
  PROVE  memory = Tail(P)
<1>1. /\ Tail(P) \in Seq(Nat) /\ Len(Tail(P)) = Len(P) - 1
      /\ \A i \in 1 .. Len(Tail(P)) : Tail(P)[i] = P[i + 1]
  BY HeadTailProperties
<1> PICK u : u = Tail(P)
  OBVIOUS
<1>2. Len(P) \in Nat /\ u = [i \in 1 .. Len(P) - 1 |-> u[i]] /\ \A i \in 1 .. Len(P) - 1 : u[i] = P[i + 1]
  BY <1>1, LenProperties
<1>3. q.position = Len(P) /\ DOMAIN q.queue = {}
  BY EmptySeq, SMTT(30) DEF UploadOK, ReaderOK
<1>4. \A i \in 1 .. Len(P) - 1 : memory[i] = P[i + 1]
  BY <1>3 DEF UploadOK, Arrived
<1>5. memory = [i \in 1 .. Len(P) - 1 |-> memory[i]]
  BY DEF UploadOK, Arrived
<1> QED
  BY <1>2, <1>4, <1>5

\* No queued upload is from the slot that may be refilled.
LEMMA SlotFree ==
  ASSUME NEW P, NEW q, NEW wanted, NEW memory, UploadOK(q, wanted, memory, P), ~q.error, CanUseSlot(q),
         NEW j \in DOMAIN q.queue
  PROVE  q.queue[j].slot # q.next
<1>1. q.inflight[q.queue[j].slot]
  BY DEF UploadOK, QueueOK, Backed
<1>2. CASE q.inflight[q.next]
  BY <1>2 DEF CanUseSlot, EventFired
<1>3. CASE ~q.inflight[q.next]
  BY <1>1, <1>3
<1> QED
  BY <1>2, <1>3

\* The slot after one.
LEMMA NextSlot ==
  ASSUME ReaderAccepted, NEW i \in 1 .. RingDepth
  PROVE  (i % RingDepth) + 1 \in 1 .. RingDepth
<1>1. RingDepth \in Nat /\ RingDepth > 0
  BY ReaderAssumption DEF ReaderAccepted
<1>2. i % RingDepth \in Int /\ 0 <= i % RingDepth /\ i % RingDepth < RingDepth
  BY <1>1, Divided
<1> QED
  BY <1>1, <1>2

\* A chunk is read and its upload queued, or the read fails.
LEMMA UploadReads ==
  ASSUME ReaderAccepted, NEW P \in Seq(Nat), NEW q, NEW wanted, NEW memory, UploadOK(q, wanted, memory, P),
         wanted > 0, ~q.error, NEW z \in ReadResults(q, P, wanted)
  PROVE  UploadOK(z, wanted - Payload(wanted), memory, P)
<1> PICK p : p = Payload(wanted)
  OBVIOUS
<1> PICK left : left = wanted - p
  OBVIOUS
<1> PICK N : N = Len(q.queue)
  OBVIOUS
<1>1. /\ Len(P) \in Nat /\ wanted \in Nat /\ q.position \in 0 .. Len(P) /\ q.position + wanted <= Len(P)
      /\ q.position > 0
  BY LenProperties DEF UploadOK, ReaderOK
<1>2. p \in Nat /\ p <= wanted
  BY <1>1, PayloadIs
<1>3. left \in Nat /\ left <= wanted /\ (left > 0 => q.position > 0)
  BY <1>1, <1>2
<1>4. /\ N \in Nat /\ DOMAIN q.queue = 1 .. N /\ q.queue \in Seq(Copies)
      /\ \A j \in 1 .. N : q.queue[j] \in Copies
  <2>1. q.queue \in Seq(Copies)
    BY DEF UploadOK, ReaderOK
  <2> QED
    BY <2>1, LenProperties, ElementOfSeq
<1>5. (q.next % RingDepth) + 1 \in 1 .. RingDepth /\ q.next \in 1 .. RingDepth
  BY NextSlot DEF UploadOK, ReaderOK
<1>6. CASE z \in {FailedRead(q), [FailedRead(q) EXCEPT !.inflight[q.next] = FALSE]}
  <2>1. /\ z = [f \in ReaderFields |-> z[f]] /\ z.size = q.size /\ z.position = q.position
        /\ z.next = (q.next % RingDepth) + 1 /\ z.slots = q.slots
        /\ z.inflight \in {q.inflight, [q.inflight EXCEPT ![q.next] = FALSE]} /\ z.queue = q.queue
        /\ z.error = TRUE
    BY <1>6 DEF FailedRead, NextSlotOf, UploadOK, ReaderOK, ReaderFields
  <2>2. ReaderOK(z, left, P)
    <3>1. z.position + left <= Len(P)
      BY <1>1, <1>3, <2>1
    <3>2. z.inflight \in [1 .. RingDepth -> BOOLEAN]
      BY <2>1 DEF UploadOK, ReaderOK
    <3>3. ReaderOK(q, wanted, P)
      BY DEF UploadOK
    <3> QED
      BY ONLY <1>3, <1>5, <2>1, <3>1, <3>2, <3>3 DEF ReaderOK
  <2>3. QueueOK(z, P)
    <3> SUFFICES ASSUME NEW j \in DOMAIN q.queue PROVE Backed(z, q.queue[j], P)
      BY <2>1 DEF QueueOK
    <3>1. Backed(q, q.queue[j], P)
      BY DEF UploadOK, QueueOK
    <3> PICK c : c = q.queue[j]
      OBVIOUS
    <3>2. Backed(z, c, P)
      BY ONLY <2>1, <3>1, c = q.queue[j] DEF Backed
    <3> QED
      BY <3>2
  <2>4. Arrived(z, memory, P)
    BY <2>1 DEF UploadOK, Arrived
  <2> QED
    BY <2>2, <2>3, <2>4 DEF UploadOK
<1> DEFINE grown == EnqueuedChunk(q, Received(P, q.position, p), p, q.position - 1)
<1>7. CASE CanUseSlot(q) /\ z \in {[grown EXCEPT !.error = TRUE, !.inflight[q.next] = FALSE],
                                   [grown EXCEPT !.inflight[q.next] = TRUE, !.position = @ + p]}
  <2> PICK slot : slot = q.next
    OBVIOUS
  <2> PICK at : at = q.position
    OBVIOUS
  <2> PICK received : received = Received(P, at, p)
    OBVIOUS
  <2> PICK copy : copy = [slot |-> slot, from |-> Prefix(at), bytes |-> p, to |-> at - 1]
    OBVIOUS
  <2>1. /\ Prefix(at) \in Nat /\ received \in Seq(Nat)
        /\ Len(received) \in Nat /\ DOMAIN received = 1 .. Len(received)
        /\ Prefix(at) + p <= Len(received)
        /\ \A k \in 1 .. p : received[Prefix(at) + k] = P[at + k]
    <3>1. at \in Nat /\ at + p <= Len(P)
      BY <1>1, <1>2
    <3>2. /\ Prefix(at) \in Nat /\ Received(P, at, p) \in Seq(Nat)
          /\ Len(Received(P, at, p)) \in Nat /\ DOMAIN Received(P, at, p) = 1 .. Len(Received(P, at, p))
          /\ Prefix(at) + p <= Len(Received(P, at, p))
          /\ \A k \in 1 .. p : Received(P, at, p)[Prefix(at) + k] = P[at + k]
      <4>1. p \in Nat
        BY <1>2
      <4> QED
        BY ONLY <3>1, <4>1, P \in Seq(Nat), ChunkIsOfBytes, Zenon
    <3> QED
      BY ONLY <3>2, received = Received(P, at, p), Zenon
  <2>2. grown = [q EXCEPT !.slots[slot] = received, !.next = (slot % RingDepth) + 1, !.queue = Append(@, copy)]
    BY DEF EnqueuedChunk, NextSlotOf, Prefix, ChunkPrefix
  <2>3. /\ z = [f \in ReaderFields |-> z[f]] /\ z.size = q.size
        /\ z.next = (slot % RingDepth) + 1 /\ z.slots = [q.slots EXCEPT ![slot] = received]
        /\ z.queue = Append(q.queue, copy)
        /\ \/ z.position = at /\ z.inflight = [q.inflight EXCEPT ![slot] = FALSE] /\ z.error = TRUE
           \/ z.position = at + p /\ z.inflight = [q.inflight EXCEPT ![slot] = TRUE]
    <3> HIDE DEF grown
    <3>1. q = [f \in ReaderFields |-> q[f]] /\ slot = q.next /\ at = q.position
      BY DEF UploadOK, ReaderOK
    <3>2. CASE z = [grown EXCEPT !.error = TRUE, !.inflight[q.next] = FALSE]
      BY ONLY <2>2, <3>1, <3>2 DEF ReaderFields
    <3>3. CASE z = [grown EXCEPT !.inflight[q.next] = TRUE, !.position = @ + p]
      BY ONLY <2>2, <3>1, <3>3 DEF ReaderFields
    <3> QED
      BY ONLY <1>7, <3>2, <3>3
  <2>4. copy \in Copies /\ copy.slot = slot /\ copy.from = Prefix(at) /\ copy.bytes = p /\ copy.to = at - 1
    <3>1. slot \in 1 .. RingDepth /\ Prefix(at) \in Nat /\ p \in Nat /\ at - 1 \in Nat
      <4>1. slot \in 1 .. RingDepth
        BY ONLY <1>5, slot = q.next, Zenon
      <4>2. at \in Nat /\ at - 1 \in Nat
        BY ONLY <1>1, at = q.position
      <4> QED
        BY ONLY <1>2, <2>1, <4>1, <4>2, Zenon
    <3> QED
      BY ONLY <3>1, copy = [slot |-> slot, from |-> Prefix(at), bytes |-> p, to |-> at - 1] DEF Copies
  <2>5. /\ z.queue \in Seq(Copies) /\ DOMAIN z.queue = 1 .. N + 1
        /\ \A j \in 1 .. N : z.queue[j] = q.queue[j]
        /\ z.queue[N + 1] = copy
    <3>1. /\ Append(q.queue, copy) \in Seq(Copies) /\ Len(Append(q.queue, copy)) = N + 1
          /\ \A j \in 1 .. N : Append(q.queue, copy)[j] = q.queue[j]
          /\ Append(q.queue, copy)[N + 1] = copy
      BY <1>4, <2>4, AppendProperties
    <3>2. z.queue = Append(q.queue, copy)
      BY <2>3
    <3>3. DOMAIN z.queue = 1 .. Len(z.queue)
      BY ONLY <3>1, <3>2, LenProperties
    <3> QED
      BY ONLY <3>1, <3>2, <3>3
  <2>6. ReaderOK(z, left, P)
    <3>1. z.position \in 0 .. Len(P) /\ z.position + left <= Len(P) /\ (left > 0 => z.position > 0)
      <4>1. z.position = at \/ z.position = at + p
        BY ONLY <2>3
      <4>2. /\ at \in Nat /\ at > 0 /\ at + wanted <= Len(P) /\ Len(P) \in Nat
            /\ wanted \in Nat /\ p \in Nat /\ p <= wanted
        BY ONLY <1>1, <1>2, at = q.position
      <4> QED
        BY ONLY <4>1, <4>2, left = wanted - p
    <3>2. z.inflight \in [1 .. RingDepth -> BOOLEAN] /\ z.slots \in [1 .. RingDepth -> Seq(Nat)]
      <4>1. q.inflight \in [1 .. RingDepth -> BOOLEAN] /\ q.slots \in [1 .. RingDepth -> Seq(Nat)]
        BY DEF UploadOK, ReaderOK
      <4>2. slot \in 1 .. RingDepth
        BY <1>5
      <4>3. /\ z.slots = [q.slots EXCEPT ![slot] = received] /\ received \in Seq(Nat)
            /\ \E v \in BOOLEAN : z.inflight = [q.inflight EXCEPT ![slot] = v]
        BY ONLY <2>1, <2>3
      <4> QED
        BY ONLY <4>1, <4>2, <4>3
    <3>3. z.size = Len(P)
      BY <2>3 DEF UploadOK, ReaderOK
    <3> QED
      BY ONLY slot = q.next, <1>3, <1>5, <2>3, <2>5, <3>1, <3>2, <3>3 DEF ReaderOK
  <2>7. ASSUME NEW j \in 1 .. N + 1 PROVE Backed(z, z.queue[j], P)
    <3>1. CASE j \in 1 .. N
      <4>1. Backed(q, q.queue[j], P) /\ q.queue[j].slot # slot /\ z.queue[j] = q.queue[j]
        BY <1>4, <1>7, <2>5, <3>1, SlotFree DEF UploadOK, QueueOK
      <4> PICK c : c = q.queue[j]
        OBVIOUS
      <4>2. c \in Copies
        BY <1>4, <3>1
      <4>3. c.slot \in 1 .. RingDepth
        BY <4>2 DEF Copies
      <4>4. q.inflight \in [1 .. RingDepth -> BOOLEAN] /\ q.slots \in [1 .. RingDepth -> Seq(Nat)]
        BY DEF UploadOK, ReaderOK
      <4>5. /\ z.inflight[c.slot] = q.inflight[c.slot] /\ z.slots[c.slot] = q.slots[c.slot]
        <5>1. /\ z.slots = [q.slots EXCEPT ![slot] = received]
              /\ \E v \in BOOLEAN : z.inflight = [q.inflight EXCEPT ![slot] = v]
          BY ONLY <2>3
        <5>2. c.slot # slot
          BY ONLY <4>1, c = q.queue[j]
        <5> QED
          BY ONLY <4>3, <4>4, <5>1, <5>2
      <4>6. Backed(z, c, P)
        BY ONLY <4>1, <4>5, ~q.error, c = q.queue[j] DEF Backed
      <4> QED
        BY <4>1, <4>6
    <3>2. CASE j = N + 1
      <4>1. z.queue[j] = copy /\ (~z.error => z.inflight[slot]) /\ z.slots[slot] = received
        BY <1>5, <2>3, <2>5, <3>2 DEF UploadOK, ReaderOK
      <4>2. ASSUME NEW k \in 1 .. p
            PROVE  Prefix(at) + k \in DOMAIN received /\ received[Prefix(at) + k] = P[1 + (at - 1) + k]
        <5>1. Prefix(at) + k \in 1 .. Len(received)
          <6> PICK x : x = Prefix(at)
            OBVIOUS
          <6>1. x \in Nat /\ x + p <= Len(received) /\ Len(received) \in Nat
            BY <2>1
          <6>2. k \in 1 .. p
            OBVIOUS
          <6>3. x + k \in 1 .. Len(received)
            BY ONLY <1>2, <6>1, <6>2
          <6> QED
            BY <6>3
        <5>2. 1 + (at - 1) + k = at + k
          <6>1. at \in Nat /\ k \in Nat
            BY <1>1, <1>2
          <6> QED
            BY ONLY <6>1
        <5> QED
          BY <2>1, <5>1, <5>2
      <4> QED
        BY <2>4, <4>1, <4>2 DEF Backed
    <3> QED
      BY <1>4, <3>1, <3>2
  <2>8. QueueOK(z, P)
    BY <2>5, <2>7 DEF QueueOK
  <2>9. ASSUME NEW i \in 1 .. z.position - 1
        PROVE  memory[i] = P[i + 1] \/ \E j \in DOMAIN z.queue : i \in Covered(z.queue[j])
    <3>1. CASE i \in 1 .. q.position - 1
      <4>1. memory[i] = P[i + 1] \/ \E j \in DOMAIN q.queue : i \in Covered(q.queue[j])
        BY <3>1 DEF UploadOK, Arrived
      <4>2. ASSUME NEW j \in DOMAIN q.queue PROVE j \in DOMAIN z.queue /\ z.queue[j] = q.queue[j]
        BY <1>4, <2>5
      <4> QED
        BY ONLY <4>1, <4>2
    <3>2. CASE i \notin 1 .. q.position - 1
      <4>1. i \in Covered(copy)
        <5>1. z.position = at \/ z.position = at + p
          BY ONLY <2>3
        <5>2. i \in 1 .. z.position - 1 /\ i \notin 1 .. at - 1 /\ at \in Nat /\ at > 0 /\ p \in Nat
          BY ONLY <1>1, <1>2, <2>9, <3>2, at = q.position
        <5>3. i \in (at - 1) + 1 .. (at - 1) + p
          BY ONLY <5>1, <5>2
        <5> QED
          BY ONLY <2>4, <5>3 DEF Covered
      <4>2. N + 1 \in DOMAIN z.queue
        BY <1>4, <2>5
      <4> QED
        BY <2>5, <4>1, <4>2
    <3> QED
      BY <3>1, <3>2
  <2>10. Arrived(z, memory, P)
    BY <2>9 DEF UploadOK, Arrived
  <2> QED
    BY <2>6, <2>8, <2>10 DEF UploadOK
<1>8. /\ Received(P, q.position, p) = ReadAt(P, AlignDown(q.position), AlignUp(ChunkPrefix(q) + p))
      /\ z \in {FailedRead(q)} \/ (CanUseSlot(q) /\ z \in ChunkReads(q, P, wanted, q.position - 1))
  BY DEF Received, Prefix, ChunkPrefix, ReadResults
<1>9. \/ z \in {FailedRead(q), [FailedRead(q) EXCEPT !.inflight[q.next] = FALSE]}
      \/ CanUseSlot(q) /\ z \in {[grown EXCEPT !.error = TRUE, !.inflight[q.next] = FALSE],
                                 [grown EXCEPT !.inflight[q.next] = TRUE, !.position = @ + p]}
  BY <1>8 DEF ChunkReads
<1> QED
  BY <1>6, <1>7, <1>9

-----------------------------------------------------------------------------
(* What a load reads *)

\* The files a load of a model may read, and what is in them and in the store.
LoadPaths(m) == {m.path} \cup (IF IsStrippedName(m.path) THEN {RefittedPath(m.path)} ELSE {})
Content(m, path) ==
  IF m \in InitialModels THEN InitialFiles[path] ELSE EngineBytes(m.node, m.table # NoTable, TRUE)
Stored(m) ==
  IF m \in InitialModels THEN InitialStore[m.path] ELSE EngineBytes(m.node, m.table # NoTable, TRUE)
FromStore(r) == ~r.model.embed /\ r.opt.callbacks
Engine(r) == IF FromStore(r) THEN Stored(r.model) ELSE Content(r.model, r.from)
PlanOf(r) == NodeInfo[r.model.node].plan

\* What is in a cache directory or in the store is of the session it belongs to, and
\* nobody touches the older models.
CachePlaced ==
  \A s \in Sessions : \A n :
    /\ Cached(s, n) \in DOMAIN files => IsCompile(s) /\ StreamsToCache(sess[s].opt)
    /\ Cached(s, n) \in DOMAIN store => IsCompile(s) /\ sess[s].opt.callbacks /\ ~sess[s].opt.embed
OlderKept ==
  \A m \in InitialModels :
    /\ m.path \in DOMAIN store <=> m.path \in DOMAIN InitialStore
    /\ m.path \in DOMAIN store => store[m.path] = InitialStore[m.path]
    /\ \A p \in LoadPaths(m) : /\ p \in DOMAIN files <=> p \in DOMAIN InitialFiles
                               /\ p \in DOMAIN files => files[p] = InitialFiles[p]
Placed == CachePlaced /\ OlderKept

\* What a model refers to.
BytesTrue(m, b, path) ==
  b.whole =>
    /\ b.node = m.node
    /\ b.stripped =>
         m.table # NoTable \/ (m \in InitialModels /\ path = m.path /\ IsStrippedName(m.path))
ModelTrue(m, path) == BytesTrue(m, Content(m, path), path)
ModelSettled(m) ==
  /\ m.node \in DOMAIN NodeInfo
  /\ m.embed => m.bytes = Content(m, NoFile)
  /\ ~m.embed => \A p \in LoadPaths(m) : p \in DOMAIN files => files[p] = Content(m, p)
  /\ ~m.embed /\ m.path \in DOMAIN store =>
       store[m.path] = Stored(m) /\ Stored(m) # NoFile /\ BytesTrue(m, Stored(m), m.path)
  /\ m.table # NoTable => TableOf(m)
  /\ m \in InitialModels => ~m.embed /\ m.table = NoTable
  /\ m \notin InitialModels => (~m.embed => ~IsStrippedName(m.path)) /\ \A p : Content(m, p) # NoFile
  /\ \A p \in LoadPaths(m) : (m \in InitialModels => p \in DOMAIN files) => ModelTrue(m, p)
  /\ m.embed => ModelTrue(m, NoFile)

\* An older model's.
LEMMA OlderSettled ==
  ASSUME OlderModels, OlderKept, NEW m \in InitialModels
  PROVE  ModelSettled(m)
<1>1. /\ m.node \in DOMAIN NodeInfo /\ ~m.embed /\ m.table = NoTable
      /\ OlderEngine(InitialFiles, m.path, m.node, IsStrippedName(m.path))
      /\ OlderEngine(InitialStore, m.path, m.node, IsStrippedName(m.path))
      /\ IsStrippedName(m.path) => OlderEngine(InitialFiles, RefittedPath(m.path), m.node, FALSE)
  BY DEF OlderModels
<1>2. Stored(m) = InitialStore[m.path] /\ \A p : Content(m, p) = InitialFiles[p]
  BY DEF Content, Stored
<1>3. \A p \in LoadPaths(m) : p \in DOMAIN files => files[p] = Content(m, p)
  BY <1>2 DEF OlderKept
<1>4. m.path \in DOMAIN store =>
        store[m.path] = Stored(m) /\ Stored(m) # NoFile /\ BytesTrue(m, Stored(m), m.path)
  <2> SUFFICES ASSUME m.path \in DOMAIN store
               PROVE  store[m.path] = Stored(m) /\ Stored(m) # NoFile /\ BytesTrue(m, Stored(m), m.path)
    OBVIOUS
  <2>1. m.path \in DOMAIN InitialStore /\ store[m.path] = InitialStore[m.path]
    BY DEF OlderKept
  <2> QED
    BY <1>1, <1>2, <2>1 DEF OlderEngine, BytesTrue
<1>5. ASSUME NEW p \in LoadPaths(m), p \in DOMAIN files PROVE ModelTrue(m, p)
  <2>1. p \in DOMAIN InitialFiles
    BY <1>5 DEF OlderKept
  <2>2. p = m.path \/ (IsStrippedName(m.path) /\ p = RefittedPath(m.path))
    BY DEF LoadPaths
  <2> QED
    BY <1>1, <1>2, <2>1, <2>2 DEF OlderEngine, ModelTrue, BytesTrue
<1> QED
  BY <1>1, <1>3, <1>4, <1>5 DEF ModelSettled

\* An exported model's.
LEMMA ExportedSettled ==
  ASSUME EpContextAssumption, OwnDirectories, EnginesInv, CachePlaced, NEW m \in Exported
  PROVE  ModelSettled(m)
<1>1. PICK s \in Sessions : /\ Compiles(s, sess[s], files, store)
                            /\ ExportOK(s, sess[s], m, files, store)
                            /\ m.node \in DOMAIN NodeInfo /\ sess[s].opt.stripped \in BOOLEAN
  BY ExportedIs
<1> PICK r : r = sess[s]
  OBVIOUS
<1>2. IsCompile(s)
  BY <1>1, Kinds DEF EnginesInv
<1>3. /\ m.embed = r.opt.embed /\ m.stored = (~r.opt.embed /\ r.opt.callbacks)
      /\ ~m.embed => m.path = Cached(s, m.node)
      /\ Found(m, files, store) = EngineBytes(m.node, r.opt.stripped, TRUE)
      /\ IF r.opt.stripped THEN TableOf(m) ELSE m.table = NoTable
  BY <1>1 DEF ExportOK
<1>4. m \notin InitialModels
  BY DEF Exported
<1>5. r.opt.stripped = (m.table # NoTable)
  BY <1>1, <1>3 DEF TableOf
<1>6. /\ Stored(m) = EngineBytes(m.node, r.opt.stripped, TRUE)
      /\ \A p : Content(m, p) = EngineBytes(m.node, r.opt.stripped, TRUE)
  BY <1>4, <1>5 DEF Content, Stored
<1> PICK b : b = EngineBytes(m.node, r.opt.stripped, TRUE)
  OBVIOUS
<1>7. b # NoFile /\ b.node = m.node /\ b.stripped = (m.table # NoTable) /\ b.whole
  <2>1. b \in [node : DOMAIN NodeInfo, stripped : BOOLEAN, whole : BOOLEAN]
    BY <1>1 DEF EngineBytes
  <2> QED
    BY <1>5, <2>1 DEF EpContextAssumption, EngineBytes
<1>8. ~m.embed => ~IsStrippedName(m.path)
  BY <1>3 DEF IsStrippedName, Cached
<1>9. ~m.embed => \A p \in LoadPaths(m) : p \in DOMAIN files => files[p] = b
  <2> SUFFICES ASSUME ~m.embed, NEW p \in LoadPaths(m), p \in DOMAIN files PROVE files[p] = b
    OBVIOUS
  <2>1. p = Cached(s, m.node) /\ p = m.path
    BY <1>3, <1>8 DEF LoadPaths
  <2>2. StreamsToCache(r.opt)
    <3>1. Cached(s, m.node) \in DOMAIN files
      BY <2>1
    <3>2. StreamsToCache(sess[s].opt)
      BY ONLY CachePlaced, <3>1, s \in Sessions DEF CachePlaced
    <3> QED
      BY <3>2
  <2>3. ~m.stored
    BY <1>3, <2>2 DEF StreamsToCache
  <2> QED
    BY <1>3, <2>1, <2>3 DEF Found
<1>10. ~m.embed /\ m.path \in DOMAIN store => store[m.path] = b
  <2> SUFFICES ASSUME ~m.embed, m.path \in DOMAIN store PROVE store[m.path] = b
    OBVIOUS
  <2>1. r.opt.callbacks
    BY <1>3 DEF CachePlaced
  <2> QED
    BY <1>3, <2>1 DEF Found
<1>11. m.embed => m.bytes = b
  BY <1>3 DEF Found
<1>12. BytesTrue(m, Stored(m), m.path) /\ \A p : ModelTrue(m, p)
  BY <1>6, <1>7 DEF ModelTrue, BytesTrue
<1> QED
  BY <1>1, <1>3, <1>4, <1>5, <1>6, <1>7, <1>8, <1>9, <1>10, <1>11, <1>12 DEF ModelSettled

\* A model in use.
LEMMA Settled ==
  ASSUME EpContextAssumption, OwnDirectories, OlderModels, EnginesInv, Placed, NEW m \in models
  PROVE  ModelSettled(m)
<1>1. CASE m \in InitialModels
  BY <1>1, OlderSettled DEF Placed
<1>2. CASE m \notin InitialModels
  BY <1>2, ExportedSettled DEF Placed, Exported
<1> QED
  BY <1>1, <1>2

\* Nobody writes the files of an older model.
LEMMA OlderApart ==
  ASSUME OwnDirectories, OlderModels, NEW m \in InitialModels, NEW p \in LoadPaths(m), NEW s \in Sessions
  PROVE  \A n : p \notin {Cached(s, n), Scratch(s, n)}
<1>1. p[1] = m.path[1]
  BY DEF LoadPaths, RefittedPath
<1>2. m.path[1] # "temp" /\ m.path[1] # CacheRoot[s]
  BY DEF OlderModels
<1>3. \A n : Cached(s, n)[1] = CacheRoot[s] /\ Scratch(s, n)[1] = "temp"
  BY PathsApart
<1> QED
  BY <1>1, <1>2, <1>3

\* It is so at the start.
LEMMA PlacedInit ==
  ASSUME OlderModels, Init
  PROVE  Placed
<1>1. CachePlaced
  <2> SUFFICES ASSUME NEW s \in Sessions, NEW n
               PROVE  Cached(s, n) \notin DOMAIN files /\ Cached(s, n) \notin DOMAIN store
    BY DEF CachePlaced
  <2>1. Cached(s, n)[1] = CacheRoot[s]
    BY DEF Cached
  <2> QED
    BY <2>1 DEF OlderModels, Init
<1>2. OlderKept
  BY DEF OlderKept, OlderModels, Init
<1> QED
  BY <1>1, <1>2 DEF Placed

\* A session's step leaves things in their places.
LEMMA PlacedStep ==
  ASSUME EpContextAssumption, OwnDirectories, OlderModels, EnginesInv, Placed, NEW s \in Sessions,
         StartCompile(s) \/ StartLoad(s) \/ Step(s)
  PROVE  Placed'
<1>0. SessionsOK
  BY DEF EnginesInv
<1>1. /\ KeptBy(s, files, files') /\ KeptBy(s, store, store')
      /\ sess' = [t \in Sessions |-> sess'[t]] /\ \A t \in Sessions : t # s => sess'[t] = sess[t]
  <2>1. StepOK(s)
    BY <1>0, EveryStepOK
  <2> QED
    BY <1>0, <2>1 DEF StepOK, SessionsOK
<1>2. OlderKept'
  <2> SUFFICES ASSUME NEW m \in InitialModels
               PROVE  /\ m.path \in DOMAIN store' <=> m.path \in DOMAIN InitialStore
                      /\ m.path \in DOMAIN store' => store'[m.path] = InitialStore[m.path]
                      /\ \A p \in LoadPaths(m) : /\ p \in DOMAIN files' <=> p \in DOMAIN InitialFiles
                                                 /\ p \in DOMAIN files' => files'[p] = InitialFiles[p]
    BY DEF OlderKept
  <2>1. \A p \in LoadPaths(m) : \A n : p \notin {Cached(s, n), Scratch(s, n)}
    BY OlderApart
  <2>2. m.path \in LoadPaths(m)
    BY DEF LoadPaths
  <2>3. /\ m.path \in DOMAIN store <=> m.path \in DOMAIN InitialStore
        /\ m.path \in DOMAIN store => store[m.path] = InitialStore[m.path]
        /\ \A p \in LoadPaths(m) : /\ p \in DOMAIN files <=> p \in DOMAIN InitialFiles
                                   /\ p \in DOMAIN files => files[p] = InitialFiles[p]
    BY DEF Placed, OlderKept
  <2>4. /\ m.path \in DOMAIN store <=> m.path \in DOMAIN store'
        /\ m.path \in DOMAIN store => store[m.path] = store'[m.path]
    BY <1>1, <2>1, <2>2 DEF KeptBy
  <2>5. ASSUME NEW p \in LoadPaths(m)
        PROVE  (p \in DOMAIN files <=> p \in DOMAIN files') /\ (p \in DOMAIN files => files[p] = files'[p])
    BY <1>1, <2>1 DEF KeptBy
  <2> QED
    BY <2>3, <2>4, <2>5
<1>3. CachePlaced'
  <2> SUFFICES ASSUME NEW t \in Sessions, NEW n
               PROVE  /\ Cached(t, n) \in DOMAIN files' => "at" \in DOMAIN sess'[t] /\ StreamsToCache(sess'[t].opt)
                      /\ Cached(t, n) \in DOMAIN store' =>
                           "at" \in DOMAIN sess'[t] /\ sess'[t].opt.callbacks /\ ~sess'[t].opt.embed
    BY DEF CachePlaced, IsCompile, Cached
  <2>1. /\ Cached(t, n) \in DOMAIN files => "at" \in DOMAIN sess[t] /\ StreamsToCache(sess[t].opt)
        /\ Cached(t, n) \in DOMAIN store =>
             "at" \in DOMAIN sess[t] /\ sess[t].opt.callbacks /\ ~sess[t].opt.embed
    BY DEF Placed, CachePlaced, IsCompile
  <2>2. CASE t # s
    <3>1. \A k : Cached(t, n) \notin {Cached(s, k), Scratch(s, k)}
      BY <2>2, PathsApart
    <3>2. /\ Cached(t, n) \in DOMAIN files <=> Cached(t, n) \in DOMAIN files'
          /\ Cached(t, n) \in DOMAIN store <=> Cached(t, n) \in DOMAIN store'
      BY <1>1, <3>1 DEF KeptBy
    <3>3. sess'[t] = sess[t]
      BY <1>1, <2>2
    <3> QED
      BY <2>1, <3>2, <3>3
  <2>3. CASE t = s /\ CompileStep(s)
    <3>1. PICK z : sess' = [sess EXCEPT ![s] = z] /\ Has(z, CompileFields) /\ z.opt = sess[s].opt
      BY <1>0, <2>3, CompilesLeave DEF CompilesOn
    <3>2. sess'[s] = z /\ "at" \in DOMAIN z
      BY <1>0, <3>1 DEF SessionsOK, Has, CompileFields
    <3>3. PlacesEngines(s, sess[s].opt, files, files', store, store')
      BY <1>0, <2>3, CompilesLeave DEF CompilesOn
    <3> QED
      BY <2>1, <2>3, <3>1, <3>2, <3>3 DEF PlacesEngines
  <2>4. CASE t = s /\ ~CompileStep(s)
    <3>1. StartCompile(s) \/ StartLoad(s) \/ LoadStep(s)
      BY <2>4 DEF Step
    <3>2. UNCHANGED <<files, store>> /\ ~("at" \in DOMAIN sess[s])
      <4>1. CASE LoadStep(s)
        <5>1. UNCHANGED <<files, store>> /\ Loads(sess[s])
          BY <1>0, <4>1, LoadsBecome
        <5> QED
          BY <5>1 DEF Loads, Has, LoadFields
      <4>2. CASE StartCompile(s) \/ StartLoad(s)
        <5>1. sess[s].pc = "idle" /\ UNCHANGED <<files, store>>
          BY <4>2 DEF StartCompile, StartLoad, At
        <5>2. sess[s] = Idle
          BY <1>0, <5>1, Kinds DEF SessionsOK, SessionOK, Compiles, HelperOK, CompileTypes, Loads, CompilePcs, LoadPcs
        <5> QED
          BY <5>1, <5>2 DEF Idle
      <4> QED
        BY <3>1, <4>1, <4>2
    <3> QED
      BY <2>1, <2>4, <3>2
  <2> QED
    BY <2>2, <2>3, <2>4
<1> QED
  BY <1>2, <1>3 DEF Placed

\* So does a crash.
LEMMA PlacedCrash ==
  ASSUME EpContextAssumption, EnginesInv, Placed, Crash
  PROVE  Placed'
<1>1. UNCHANGED <<files, store>>
  BY DEF Crash
<1>2. ASSUME NEW t \in Sessions, IsCompile(t)
      PROVE  "at" \in DOMAIN sess'[t] /\ sess'[t].opt = sess[t].opt
  <2>1. Has(sess[t], CompileFields)
    BY <1>2, Kinds DEF EnginesInv, Compiles, HelperOK, CompileTypes
  <2>2. sess'[t] = IF Running(t) THEN [sess[t] EXCEPT !.pc = "crashed"] ELSE sess[t]
    BY DEF Crash
  <2> QED
    BY <2>1, <2>2 DEF Has, CompileFields
<1>3. CachePlaced'
  <2> SUFFICES ASSUME NEW t \in Sessions, NEW n
               PROVE  /\ Cached(t, n) \in DOMAIN files => "at" \in DOMAIN sess'[t] /\ StreamsToCache(sess'[t].opt)
                      /\ Cached(t, n) \in DOMAIN store =>
                           "at" \in DOMAIN sess'[t] /\ sess'[t].opt.callbacks /\ ~sess'[t].opt.embed
    BY <1>1 DEF CachePlaced, IsCompile, Cached
  <2> QED
    BY <1>2 DEF Placed, CachePlaced
<1>4. OlderKept'
  BY <1>1 DEF Placed, OlderKept
<1> QED
  BY <1>3, <1>4 DEF Placed

-----------------------------------------------------------------------------
(* What a refit sets *)

\* The last record of a name.
Named(q, w) == SelectLastInSeq(q, LAMBDA r : r.trt_name = w)

\* It is one of them.
LEMMA NamedIs ==
  ASSUME NEW E, NEW q \in Seq(E), NEW w, \E t \in ToSet(q) : t.trt_name = w
  PROVE  q[Named(q, w)] \in ToSet(q) /\ q[Named(q, w)].trt_name = w
<1> DEFINE I == {i \in 1 .. Len(q) : q[i].trt_name = w}
<1>1. DOMAIN q = 1 .. Len(q) /\ Len(q) \in Nat
  BY LenProperties
<1>2. I # {}
  BY <1>1 DEF ToSet
<1>3. Named(q, w) = IF I # {} THEN Max(I) ELSE 0
  BY DEF Named, SelectLastInSeq
<1>4. Max(I) \in I
  <2>1. \E x \in I : \A y \in I : x >= y
    <3> DEFINE J == {n \in 0 .. Len(q) : Len(q) - n \in I}
    <3>1. J \subseteq Nat
      BY <1>1
    <3>2. J # {}
      <4>1. PICK i \in I : TRUE
        BY <1>2
      <4>2. Len(q) - i \in 0 .. Len(q) /\ Len(q) - (Len(q) - i) = i
        BY <1>1
      <4>3. Len(q) - i \in J
        BY <4>1, <4>2
      <4> QED
        BY <4>3
    <3>3. PICK n \in J : \A k \in J : n <= k
      <4> HIDE DEF J
      <4> QED
        BY <3>1, <3>2, LeastNumber
    <3>4. ASSUME NEW y \in I PROVE Len(q) - n >= y
      <4>1. Len(q) - y \in 0 .. Len(q) /\ Len(q) - (Len(q) - y) = y
        BY <1>1
      <4>2. Len(q) - y \in J
        BY <4>1
      <4>3. n <= Len(q) - y
        BY <3>3, <4>2
      <4>4. n \in Int /\ y \in Int
        BY <3>1
      <4> QED
        BY <1>1, <4>3, <4>4
    <3> QED
      BY <3>3, <3>4
  <2> HIDE DEF I
  <2> QED
    BY <2>1 DEF Max
<1> QED
  BY <1>1, <1>2, <1>3, <1>4 DEF ToSet

\* A usable record puts the same into the engine with the inputs as with all the
\* weights of the model.
LEMMA SameValue ==
  ASSUME NEW r \in WeightlessRefitRecord, NEW data, NEW I, RecordUsable(r, [x \in I |-> data[x]])
  PROVE  RecordValue(r, [x \in I |-> data[x]]) = RecordValue(r, data)
<1> PICK d : d = [x \in I |-> data[x]]
  OBVIOUS
<1>1. DOMAIN d = I /\ \A x \in I : d[x] = data[x]
  OBVIOUS
<1>2. CASE IsConstantKind(r.kind)
  BY <1>2 DEF RecordValue
<1>3. CASE ~IsConstantKind(r.kind)
  <2> DEFINE k == IF r.kind \in {FoldScale, FoldBias} THEN 4 ELSE 1
  <2>1. SourcesSuffice(r, d)
    BY <1>3 DEF RecordUsable
  <2>2. \A i \in 1 .. k : r.source_onnx_names[i] \in I
    BY <1>1, <2>1 DEF SourcesSuffice
  <2>3. [i \in 1 .. k |-> d[r.source_onnx_names[i]].value] = [i \in 1 .. k |-> data[r.source_onnx_names[i]].value]
    BY <1>1, <2>2
  <2> QED
    BY ONLY <1>3, <2>3, d = [x \in I |-> data[x]] DEF RecordValue
<1> QED
  BY <1>2, <1>3

\* A refit that succeeds has set every weight from its own source.
LEMMA RefitSets ==
  ASSUME EpContextAssumption, WeightsNamedOnce, NEW r, r.model.node \in DOMAIN NodeInfo, TableOf(r.model),
         Replay(r).status = "ok"
  PROVE  Replay(r).weights = TrueWeights(r.model.node)
<1> PICK m : m = r.model
  OBVIOUS
<1> PICK n : n = m.node
  OBVIOUS
<1> PICK used : used = Used(m)
  OBVIOUS
<1> PICK needed : needed = NeededRecords(n)
  OBVIOUS
<1> PICK I : I = (IF r.opt.stripped THEN m.inputs ELSE {})
  OBVIOUS
<1> PICK data : data = NodeInfo[n].data
  OBVIOUS
<1> PICK d : d = [x \in I |-> data[x]]
  OBVIOUS
<1> PICK names : names = NodeInfo[n].refittable
  OBVIOUS
<1>1. TableRecords(r) = m.records
  <2>1. m.records \in Seq(WeightlessRefitRecord) /\ m.table = SerializeWeightlessRefitTable(m.records)
        /\ m.table # NoTable
    BY RecordsOf DEF TableOf
  <2> QED
    BY <2>1, TablesReadBack DEF TableRecords
<1>2. Supplied(r) = d
  BY DEF Supplied
<1>3. Replay(r) = WeightlessRefitEngineImpl(m.records, d, names)
  BY <1>1, <1>2 DEF Replay
<1>4. Replayed(m.records, names) = used
  BY DEF Replayed, Used
<1>5. /\ used \in Seq(WeightlessRefitRecord) /\ needed \in Seq(WeightlessRefitRecord)
      /\ ToSet(used) \subseteq ToSet(needed) /\ ToSet(needed) \subseteq ToSet(NodeInfo[n].records)
  BY UsedIs, RecordsOf
<1>6. /\ \A i \in DOMAIN used : RecordUsable(used[i], d)
      /\ Covers(used, names)
      /\ Replay(r).weights = [w \in names |-> RecordValue(used[Named(used, w)], d)]
  <2> PICK set : set = [w \in names |-> RecordValue(used[Named(used, w)], d)]
    OBVIOUS
  <2> PICK u : u = Replay(r)
    OBVIOUS
  <2>1. u = IF \E i \in DOMAIN used : ~RecordUsable(used[i], d)
            THEN [status |-> "unusable record", weights |-> <<>>]
            ELSE IF ~Covers(used, names) THEN [status |-> "uncovered", weights |-> <<>>]
            ELSE [status |-> "ok", weights |-> set]
    BY ONLY <1>3, <1>4, u = Replay(r), set = [w \in names |-> RecordValue(used[Named(used, w)], d)]
       DEF WeightlessRefitEngineImpl, Named
  <2>2. u.status = "ok"
    OBVIOUS
  <2>3. (\A i \in DOMAIN used : RecordUsable(used[i], d)) /\ Covers(used, names) /\ u.weights = set
    BY ONLY <2>1, <2>2
  <2> QED
    BY <2>3
<1>7. TrueWeights(n) = [w \in names |-> RecordValue(needed[Named(needed, w)], data)]
  BY DEF TrueWeights, NeededRecords, Named
<1>8. ASSUME NEW w \in names
      PROVE  RecordValue(used[Named(used, w)], d) = RecordValue(needed[Named(needed, w)], data)
  <2>1. \E t \in ToSet(used) : t.trt_name = w
    BY <1>6 DEF Covers, ToSet
  <2>2. \E t \in ToSet(needed) : t.trt_name = w
    BY <1>5, <2>1
  <2> PICK u : u = used[Named(used, w)]
    OBVIOUS
  <2> PICK v : v = needed[Named(needed, w)]
    OBVIOUS
  <2>3. u \in ToSet(used) /\ u.trt_name = w
    BY <1>5, <2>1, NamedIs
  <2>4. v \in ToSet(needed) /\ v.trt_name = w
    BY <1>5, <2>2, NamedIs
  <2>5. u = v
    BY <1>5, <2>3, <2>4 DEF WeightsNamedOnce
  <2>6. u \in WeightlessRefitRecord
    BY <1>5, <2>3, SeqHolds
  <2>7. RecordUsable(u, d)
    BY <1>6, <2>3 DEF ToSet
  <2>8. RecordUsable(u, [x \in I |-> data[x]])
    BY <2>7
  <2>9. RecordValue(u, [x \in I |-> data[x]]) = RecordValue(u, data)
    BY <2>6, <2>8, SameValue
  <2> QED
    BY <2>5, <2>9
<1> QED
  BY <1>6, <1>7, <1>8

-----------------------------------------------------------------------------
(* A load at each of its places *)

\* Its weights are there, or on their way from the file: the upload's own invariant.
Uploading(r) ==
  IF r.reader.size = 0 THEN r.reader = NewReader(0) /\ r.wanted = 0 /\ r.memory = Tail(PlanOf(r))
  ELSE ~r.model.embed /\ ~FromStore(r) /\ UploadOK(r.reader, r.wanted, r.memory, PlanOf(r))
\* It reads an engine of its node; a stripped one is going to be refitted, or its
\* refit is skipped.
Located(r) ==
  /\ r.model.embed => r.bytes = Engine(r)
  /\ ~r.model.embed => r.from \in LoadPaths(r.model)
  /\ FromStore(r) => r.bytes = Engine(r) /\ r.bytes # NoFile
  /\ Engine(r).whole =>
       /\ Engine(r).node = r.model.node
       /\ Engine(r).stripped =>
            \/ FromStore(r) /\ r.complete
            \/ ~r.complete /\ (r.model.table # NoTable \/ r.refit)
Deserializing(r) == r.bytes = Engine(r) /\ Engine(r).whole /\ Uploading(r)

\* The load RefitSkipped names, of the session's record.
Skipped(r) == r.opt.callbacks /\ r.complete /\ r.bytes.stripped

\* What holds at each place, up to the engine and the memory it must end with.
LoadOK(r) ==
  /\ r.pc = "locate" => r.bytes = NoFile /\ r.from = NoFile /\ r.complete = FALSE /\ r.wanted = 0
  /\ r.pc \in {"read", "refit", "context", "upload"} => Located(r)
  /\ r.pc = "read" => r.bytes \in {NoFile, Engine(r)} /\ r.wanted = 0
  /\ r.pc \in {"refit", "context", "upload"} => Deserializing(r)
  /\ r.pc = "refit" => r.engine = Deserialized(Engine(r))
  /\ r.pc \in {"context", "upload", "ready"} => r.engine.weights = TrueWeights(r.model.node) \/ Skipped(r)
  /\ r.pc = "ready" => r.memory = Tail(PlanOf(r))

\* What stays with the model and the place of the engine.
LEMMA SameEngine ==
  ASSUME NEW r, NEW z, z.model = r.model, z.from = r.from, z.opt = r.opt
  PROVE  Engine(z) = Engine(r) /\ PlanOf(z) = PlanOf(r) /\ (FromStore(z) <=> FromStore(r))
BY DEF Engine, PlanOf, FromStore

\* The engine is located.
LEMMA LocatesWell ==
  ASSUME NEW s \in Sessions, NEW z, LoadOK(sess[s]), ModelSettled(sess[s].model), Locates(s, z)
  PROVE  LoadOK(z)
<1> PICK r : r = sess[s]
  OBVIOUS
<1> PICK m : m = r.model
  OBVIOUS
<1> PICK used : used = UsesRefittedCache(s)
  OBVIOUS
<1>1. /\ r.pc = "locate" /\ z.pc = "read" /\ r.bytes = NoFile /\ r.from = NoFile /\ r.complete = FALSE
      /\ r.wanted = 0
  BY DEF Locates, LoadOK
<1>2. z.model = m /\ z.wanted = 0 /\ z.opt = r.opt
  <2>1. Same(r, z, {"pc", "bytes"}) \/ Same(r, z, {"pc", "bytes", "from", "refit", "complete"})
    BY DEF Locates
  <2>2. z.model = r.model /\ z.wanted = r.wanted /\ z.opt = r.opt
    BY <2>1 DEF Same, LoadFields
  <2> QED
    BY <1>1, <2>2
<1> SUFFICES Located(z) /\ z.bytes \in {NoFile, Engine(z)}
  BY <1>1, <1>2 DEF LoadOK
<1>3. /\ ~FromStore(z) => Engine(z) = Content(m, z.from)
      /\ FromStore(z) => Engine(z) = Stored(m)
      /\ FromStore(z) <=> (~m.embed /\ r.opt.callbacks)
  BY <1>2 DEF Engine, FromStore
<1>4. CASE m.embed
  <2>1. z.bytes = m.bytes /\ Same(r, z, {"pc", "bytes"})
    BY <1>4 DEF Locates
  <2>2. z.from = NoFile /\ z.complete = FALSE
    BY <1>1, <2>1 DEF Same, LoadFields
  <2>3. ~FromStore(z) /\ z.bytes = Engine(z) /\ ModelTrue(m, NoFile) /\ m \notin InitialModels
    BY <1>3, <1>4, <2>1, <2>2 DEF ModelSettled
  <2>4. Located(z)
    BY <1>2, <1>3, <1>4, <2>2, <2>3 DEF Located, ModelTrue, BytesTrue
  <2> QED
    BY <2>3, <2>4
<1>5. CASE ~m.embed
  <2>1. /\ z.from = (IF used THEN RefittedPath(m.path) ELSE m.path)
        /\ z.refit = (NeedsRefit(s) /\ ~used) /\ z.complete = used
        /\ IF r.opt.callbacks THEN m.path \in DOMAIN store /\ z.bytes = store[m.path]
           ELSE z.bytes = r.bytes /\ Exists(z.from)
    BY <1>5 DEF Locates
  <2>2. used => IsStrippedName(m.path)
    BY DEF UsesRefittedCache
  <2>3. z.from \in LoadPaths(m)
    BY <2>1, <2>2 DEF LoadPaths
  <2>4. /\ m.path \in DOMAIN store =>
             store[m.path] = Stored(m) /\ Stored(m) # NoFile /\ BytesTrue(m, Stored(m), m.path)
        /\ m \in InitialModels => m.table = NoTable
        /\ m \notin InitialModels => ~IsStrippedName(m.path)
        /\ (m \in InitialModels => z.from \in DOMAIN files) => ModelTrue(m, z.from)
    BY <1>5, <2>3 DEF ModelSettled
  <2>5. IsStrippedName(m.path) => NeedsRefit(s)
    BY DEF NeedsRefit
  <2>6. CASE r.opt.callbacks
    <3>1. FromStore(z) /\ Engine(z) = Stored(m) /\ z.bytes = Engine(z) /\ z.bytes # NoFile
      BY <1>3, <1>5, <2>1, <2>4, <2>6
    <3>2. BytesTrue(m, Engine(z), m.path)
      BY <2>1, <2>4, <2>6, <3>1
    <3>3. ASSUME Engine(z).whole, Engine(z).stripped, ~used PROVE z.model.table # NoTable \/ z.refit
      <4>1. m.table # NoTable \/ IsStrippedName(m.path)
        BY <3>2, <3>3 DEF BytesTrue
      <4> QED
        BY <1>2, <2>1, <2>5, <3>3, <4>1
    <3>4. Located(z)
      BY <1>2, <1>5, <2>1, <2>3, <3>1, <3>2, <3>3 DEF Located, BytesTrue
    <3> QED
      BY <3>1, <3>4
  <2>7. CASE ~r.opt.callbacks
    <3>1. ~FromStore(z) /\ Engine(z) = Content(m, z.from) /\ z.bytes = NoFile /\ z.from \in DOMAIN files
      BY <1>1, <1>3, <2>1, <2>7 DEF Exists
    <3>2. BytesTrue(m, Engine(z), z.from)
      BY <2>4, <3>1 DEF ModelTrue
    <3>3. ASSUME Engine(z).whole, Engine(z).stripped
          PROVE  ~z.complete /\ (z.model.table # NoTable \/ z.refit)
      <4>1. m.table # NoTable \/ (m \in InitialModels /\ z.from = m.path /\ IsStrippedName(m.path))
        BY <3>2, <3>3 DEF BytesTrue
      <4>2. ~used
        <5> SUFFICES ASSUME used PROVE FALSE
          OBVIOUS
        <5>1. m \in InitialModels /\ m.table = NoTable
          BY <2>2, <2>4
        <5>2. RefittedPath(m.path) = m.path /\ IsStrippedName(m.path)
          BY <2>1, <4>1, <5>1
        <5>3. RefittedPath(m.path)[3] = "engine"
          BY DEF RefittedPath
        <5> QED
          BY <5>2, <5>3 DEF IsStrippedName
      <4> QED
        BY <1>2, <2>1, <2>5, <4>1, <4>2
    <3>4. Located(z)
      BY <1>2, <1>5, <2>3, <3>1, <3>2, <3>3 DEF Located, BytesTrue
    <3> QED
      BY <3>1, <3>4
  <2> QED
    BY <2>6, <2>7
<1> QED
  BY <1>4, <1>5

\* It is deserialized, and its weights are read, or left for later.
LEMMA ReadsWell ==
  ASSUME EpContextAssumption, NEW s \in Sessions, NEW z, LoadOK(sess[s]), ModelSettled(sess[s].model), Reads(s, z)
  PROVE  LoadOK(z)
<1> PICK r : r = sess[s]
  OBVIOUS
<1> PICK m : m = r.model
  OBVIOUS
<1> PICK b : b = OnDisk(r)
  OBVIOUS
<1>1. /\ r.pc = "read" /\ z.pc = "refit" /\ b # NoFile /\ b.whole /\ z.bytes = b /\ z.engine = Deserialized(b)
      /\ z.reader = NewReader(IF DefersWeights(s, b) THEN Len(Plan(b)) ELSE 0)
      /\ z.memory = IF DefersWeights(s, b) THEN [i \in DOMAIN WeightBytes(b) |-> NoByte]
                    ELSE IF Streams(s, b)
                    THEN Tail(HostBytes(NewReader(Len(Plan(b))), Plan(b), Len(Plan(b))))
                    ELSE WeightBytes(b)
      /\ Same(r, z, {"pc", "engine", "bytes", "reader", "memory"})
  BY DEF Reads
<1>2. /\ z.model = m /\ z.from = r.from /\ z.complete = r.complete /\ z.refit = r.refit /\ z.wanted = r.wanted
      /\ z.opt = r.opt
  BY <1>1 DEF Same, LoadFields
<1>3. Located(r) /\ r.bytes \in {NoFile, Engine(r)} /\ r.wanted = 0
  BY <1>1 DEF LoadOK
<1>4. Engine(z) = Engine(r) /\ (FromStore(z) <=> FromStore(r))
  BY <1>2, SameEngine
<1>5. b = Engine(r)
  <2>1. CASE r.bytes # NoFile
    BY <1>3, <2>1 DEF OnDisk
  <2>2. CASE r.bytes = NoFile
    <3>1. r.from \in DOMAIN files /\ b = files[r.from]
      BY <1>1, <2>2 DEF OnDisk, Exists
    <3>2. ~m.embed /\ ~FromStore(r)
      <4>1. ~FromStore(r)
        BY <1>3, <2>2 DEF Located
      <4>2. ASSUME m.embed PROVE FALSE
        <5>1. m \notin InitialModels /\ Engine(r) = NoFile
          BY <1>3, <2>2, <4>2 DEF ModelSettled, Located
        <5> QED
          BY <4>1, <5>1 DEF ModelSettled, Engine
      <4> QED
        BY <4>1, <4>2
    <3>3. r.from \in LoadPaths(m)
      BY <1>3, <3>2 DEF Located
    <3> QED
      BY <3>1, <3>2, <3>3 DEF ModelSettled, Engine
  <2> QED
    BY <2>1, <2>2
<1> PICK P : P = PlanOf(r)
  OBVIOUS
<1>6. b.node = m.node /\ Plan(b) = P /\ WeightBytes(b) = Tail(P) /\ P = PlanOf(z)
  <2>1. b.node = m.node
    BY <1>1, <1>3, <1>5 DEF Located
  <2> QED
    BY <1>1, <1>2, <2>1 DEF Plan, WeightBytes, PlanOf
<1>7. P \in Seq(Nat) /\ P # <<>> /\ ReaderAccepted
  BY DEF EpContextAssumption, NodeTypes, PlanOf, ModelSettled
<1>8. /\ Len(P) \in Nat /\ Len(P) # 0 /\ DOMAIN Tail(P) = 1 .. Len(P) - 1
  <2>1. Len(P) \in Nat /\ Len(P) # 0
    BY <1>7, LenProperties, EmptySeq
  <2>2. Tail(P) \in Seq(Nat) /\ Len(Tail(P)) = Len(P) - 1
    BY <1>7, HeadTailProperties
  <2>3. DOMAIN Tail(P) = 1 .. Len(P) - 1
    BY <2>2, LenProperties
  <2> QED
    BY <2>1, <2>3
<1>9. Uploading(z)
  <2>1. \A k : NewReader(k).size = k
    BY DEF NewReader
  <2>2. CASE DefersWeights(s, b)
    <3> PICK q : q = NewReader(Len(P))
      OBVIOUS
    <3> PICK w : w = [i \in 1 .. Len(P) - 1 |-> NoByte]
      OBVIOUS
    <3>1. z.reader = q /\ z.memory = w /\ q.size # 0
      BY <1>1, <1>6, <1>8, <2>1, <2>2
    <3>2. w = [i \in 1 .. Len(P) - 1 |-> w[i]]
      OBVIOUS
    <3>3. UploadOK(NewReader(Len(P)), 0, w, P)
      BY <1>7, <3>2, UploadStarts
    <3>4. ~m.embed /\ ~FromStore(z)
      <4>1. r.bytes = NoFile
        BY <2>2 DEF DefersWeights, Streams
      <4>2. ~FromStore(r) /\ ~FromStore(z)
        BY <1>3, <1>4, <4>1 DEF Located
      <4>3. ASSUME m.embed PROVE FALSE
        <5>1. m \notin InitialModels /\ Engine(r) = NoFile
          BY <1>3, <4>1, <4>3 DEF ModelSettled, Located
        <5> QED
          BY <4>2, <5>1 DEF ModelSettled, Engine
      <4> QED
        BY <4>2, <4>3
    <3> QED
      BY <1>2, <1>3, <1>6, <3>1, <3>3, <3>4 DEF Uploading
  <2>3. CASE ~DefersWeights(s, b)
    <3>1. z.reader = NewReader(0) /\ z.reader.size = 0
      BY <1>1, <2>1, <2>3
    <3>2. HostBytes(NewReader(Len(P)), P, Len(P)) = P
      BY <1>7, HostBytesAre
    <3>3. z.memory = Tail(P)
      BY <1>1, <1>6, <2>3, <3>2
    <3> QED
      BY <1>2, <1>3, <1>6, <3>1, <3>3 DEF Uploading
  <2> QED
    BY <2>2, <2>3
<1>10. Located(z)
  BY <1>1, <1>2, <1>3, <1>4, <1>5 DEF Located
<1>11. Deserializing(z) /\ z.engine = Deserialized(Engine(z))
  BY <1>1, <1>4, <1>5, <1>9 DEF Deserializing
<1> QED
  BY <1>1, <1>10, <1>11 DEF LoadOK

\* It is refitted, or needs no refit.
LEMMA RefitsWell ==
  ASSUME EpContextAssumption, WeightsNamedOnce, NEW r, NEW z, LoadOK(r), ModelSettled(r.model), Refits(r, z)
  PROVE  LoadOK(z)
<1> PICK m : m = r.model
  OBVIOUS
<1>1. /\ r.pc = "refit" /\ z.pc = "context" /\ Same(r, z, {"pc", "engine"})
  BY DEF Refits
<1>2. /\ z.model = m /\ z.from = r.from /\ z.complete = r.complete /\ z.refit = r.refit /\ z.wanted = r.wanted
      /\ z.opt = r.opt
      /\ z.bytes = r.bytes /\ z.reader = r.reader /\ z.memory = r.memory
  BY <1>1 DEF Same, LoadFields
<1>3. Located(r) /\ Deserializing(r) /\ r.engine = Deserialized(Engine(r))
  BY <1>1 DEF LoadOK
<1>4. Engine(z) = Engine(r) /\ PlanOf(z) = PlanOf(r) /\ (FromStore(z) <=> FromStore(r))
  BY <1>2, SameEngine
<1>5. Located(z) /\ Deserializing(z)
  BY <1>2, <1>3, <1>4 DEF Located, Deserializing, Uploading
<1>6. z.engine.weights = TrueWeights(m.node) \/ Skipped(z)
  <2>1. Engine(r).whole /\ Engine(r).node = m.node
    BY <1>3 DEF Located, Deserializing
  <2>2. CASE z.engine = r.engine /\ (r.complete \/ (m.table = NoTable /\ ~r.refit))
    <3>1. CASE ~Engine(r).stripped
      BY <1>3, <2>1, <2>2, <3>1 DEF Deserialized
    <3>2. CASE Engine(r).stripped
      <4>1. FromStore(r) /\ r.complete
        BY <1>3, <2>1, <2>2, <3>2 DEF Located
      <4>2. r.opt.callbacks /\ z.bytes.stripped
        BY <1>2, <1>3, <3>2, <4>1 DEF FromStore, Deserializing
      <4> QED
        BY <1>2, <4>1, <4>2 DEF Skipped
    <3> QED
      BY <3>1, <3>2
  <2>3. CASE /\ m.table # NoTable /\ Replay(r).status = "ok"
             /\ z.engine = [r.engine EXCEPT !.weights = Replay(r).weights]
    <3>1. TableOf(m) /\ m.node \in DOMAIN NodeInfo
      BY <2>3 DEF ModelSettled
    <3>2. Replay(r).weights = TrueWeights(m.node)
      BY <2>3, <3>1, RefitSets
    <3> PICK w : w = TrueWeights(m.node)
      OBVIOUS
    <3> PICK e : e = r.engine
      OBVIOUS
    <3>3. "weights" \in DOMAIN e
      BY <1>3 DEF Deserialized
    <3>4. z.engine = [e EXCEPT !.weights = w]
      BY <2>3, <3>2
    <3>5. z.engine.weights = w
      BY ONLY <3>3, <3>4
    <3> QED
      BY <3>5
  <2> QED
    BY <2>2, <2>3 DEF Refits
<1> QED
  BY <1>1, <1>2, <1>5, <1>6 DEF LoadOK

\* The context is created.
LEMMA ContinuesWell ==
  ASSUME NEW r, NEW z, LoadOK(r), Continues(r, z)
  PROVE  LoadOK(z)
<1>1. /\ r.pc = "context" /\ z.pc = "upload" /\ Same(r, z, {"pc"})
  BY DEF Continues
<1>2. /\ z.model = r.model /\ z.from = r.from /\ z.complete = r.complete /\ z.refit = r.refit
      /\ z.wanted = r.wanted /\ z.bytes = r.bytes /\ z.reader = r.reader /\ z.memory = r.memory
      /\ z.engine = r.engine /\ z.opt = r.opt
  BY <1>1 DEF Same, LoadFields
<1>3. Located(r) /\ Deserializing(r) /\ (r.engine.weights = TrueWeights(r.model.node) \/ Skipped(r))
  BY <1>1 DEF LoadOK
<1>4. Engine(z) = Engine(r) /\ PlanOf(z) = PlanOf(r) /\ (FromStore(z) <=> FromStore(r))
  BY <1>2, SameEngine
<1>5. Located(z) /\ Deserializing(z)
  BY <1>2, <1>3, <1>4 DEF Located, Deserializing, Uploading
<1> QED
  BY <1>1, <1>2, <1>3, <1>5 DEF LoadOK, Skipped

\* A step of the upload keeps the load right if it keeps the upload right.
LEMMA UploadGoesOn ==
  ASSUME NEW r, NEW z, LoadOK(r), r.pc = "upload", Same(r, z, {"reader", "memory", "wanted"}),
         r.reader.size # 0, z.reader.size # 0, UploadOK(z.reader, z.wanted, z.memory, PlanOf(r))
  PROVE  LoadOK(z)
<1>1. /\ z.model = r.model /\ z.from = r.from /\ z.complete = r.complete /\ z.refit = r.refit
      /\ z.bytes = r.bytes /\ z.engine = r.engine /\ z.opt = r.opt /\ z.pc = "upload"
  BY DEF Same, LoadFields
<1>2. Located(r) /\ Deserializing(r) /\ (r.engine.weights = TrueWeights(r.model.node) \/ Skipped(r))
  BY DEF LoadOK
<1>3. Engine(z) = Engine(r) /\ PlanOf(z) = PlanOf(r) /\ (FromStore(z) <=> FromStore(r))
  BY <1>1, SameEngine
<1>4. Uploading(z)
  BY <1>1, <1>2, <1>3 DEF Deserializing, Uploading
<1>5. Located(z) /\ Deserializing(z)
  BY <1>1, <1>2, <1>3, <1>4 DEF Located, Deserializing
<1> QED
  BY <1>1, <1>2, <1>5 DEF LoadOK, Skipped

\* The reader of an upload in progress.
LEMMA UploadIs ==
  ASSUME EpContextAssumption, NEW r, LoadOK(r), r.pc = "upload", r.model.node \in DOMAIN NodeInfo
  PROVE  /\ PlanOf(r) \in Seq(Nat) /\ PlanOf(r) # <<>> /\ ReaderAccepted
         /\ r.reader.size = 0 => r.reader = NewReader(0) /\ r.wanted = 0 /\ r.memory = Tail(PlanOf(r))
         /\ r.reader.size # 0 => /\ ~r.model.embed /\ ~FromStore(r)
                                 /\ UploadOK(r.reader, r.wanted, r.memory, PlanOf(r))
                                 /\ r.reader.size = Len(PlanOf(r)) /\ Len(PlanOf(r)) \in Nat
<1>1. PlanOf(r) \in Seq(Nat) /\ PlanOf(r) # <<>> /\ ReaderAccepted
  BY DEF EpContextAssumption, NodeTypes, PlanOf
<1>2. Uploading(r)
  BY DEF LoadOK, Deserializing
<1>3. Len(PlanOf(r)) \in Nat
  BY <1>1, LenProperties
<1> QED
  BY <1>1, <1>2, <1>3 DEF Uploading, UploadOK, ReaderOK

\* The upload seeks, asks for bytes, reads a chunk or runs a copy.
LEMMA UploadsWell ==
  ASSUME EpContextAssumption, NEW r, NEW z, LoadOK(r), ModelSettled(r.model),
         Seeks(r, z) \/ Requests(r, z) \/ ReadsMore(r, z) \/ RunsCopy(r, z)
  PROVE  LoadOK(z)
<1> PICK q : q = r.reader
  OBVIOUS
<1> PICK P : P = PlanOf(r)
  OBVIOUS
<1>1. r.pc = "upload" /\ r.model.node \in DOMAIN NodeInfo
  BY DEF Seeks, Requests, ReadsMore, RunsCopy, ModelSettled
<1>2. /\ P \in Seq(Nat) /\ P # <<>> /\ ReaderAccepted
      /\ q.size = 0 => q = NewReader(0) /\ r.wanted = 0 /\ r.memory = Tail(P)
      /\ q.size # 0 => /\ ~r.model.embed /\ ~FromStore(r) /\ UploadOK(q, r.wanted, r.memory, P)
                       /\ q.size = Len(P) /\ Len(P) \in Nat
  BY <1>1, UploadIs
<1>3. q.size # 0
  <2>1. q = NewReader(0) => q.position = 0 /\ q.queue = <<>> /\ q.size = 0
    BY DEF NewReader
  <2>2. (q.position = 0 /\ q.queue = <<>> /\ q.size = 0 /\ r.wanted = 0) => FALSE
    BY DEF Seeks, Requests, ReadsMore, RunsCopy
  <2> QED
    BY <1>2, <2>1, <2>2
<1>4. /\ ~r.model.embed /\ ~FromStore(r) /\ UploadOK(q, r.wanted, r.memory, P) /\ q.size = Len(P) /\ Len(P) \in Nat
  BY <1>2, <1>3
<1>5. Has(q, ReaderFields)
  BY <1>4 DEF UploadOK, ReaderOK, Has
<1> SUFFICES /\ Same(r, z, {"reader", "memory", "wanted"})
             /\ z.reader.size # 0 /\ UploadOK(z.reader, z.wanted, z.memory, P)
  BY <1>1, <1>3, UploadGoesOn
<1>6. CASE Seeks(r, z)
  <2>1. Same(r, z, {"reader"}) /\ q.position = 0 /\ q.size > 0
    BY <1>6 DEF Seeks
  <2>2. PICK move \in {<<1, "set">>, <<1, "cur">>, <<1 - q.size, "end">>} :
          z.reader = [q EXCEPT !.position = Seek(q, move[1], move[2])]
    BY <1>6 DEF Seeks
  <2>3. Seek(q, move[1], move[2]) = 1
    <3>1. 1 \in 0 .. q.size /\ 0 + 1 = 1 /\ q.position + 1 = 1 /\ q.size + (1 - q.size) = 1
      BY <1>4, <2>1
    <3>2. CASE move = <<1, "set">>
      <4>1. move[1] = 1 /\ move[2] = "set"
        BY <3>2
      <4> QED
        BY <3>1, <4>1 DEF Seek
    <3>3. CASE move = <<1, "cur">>
      <4>1. move[1] = 1 /\ move[2] = "cur"
        BY <3>3
      <4> QED
        BY <3>1, <4>1 DEF Seek
    <3>4. CASE move = <<1 - q.size, "end">>
      <4>1. move[1] = 1 - q.size /\ move[2] = "end"
        BY <3>4
      <4> QED
        BY <3>1, <4>1 DEF Seek
    <3> QED
      BY <3>2, <3>3, <3>4
  <2>4. z.reader = [q EXCEPT !.position = 1]
    BY <2>2, <2>3
  <2>5. z.wanted = r.wanted /\ z.memory = r.memory /\ Same(r, z, {"reader", "memory", "wanted"})
    BY <2>1 DEF Same, LoadFields
  <2>6. z.reader.size = q.size
    BY <1>5, <2>4 DEF Has, ReaderFields
  <2>7. UploadOK(z.reader, r.wanted, r.memory, P)
    <3>1. P \in Seq(Nat) /\ UploadOK(q, r.wanted, r.memory, P) /\ q.position = 0 /\ Len(P) >= 1
      BY <1>2, <1>4, <2>1
    <3>2. PICK w, memory : w = r.wanted /\ memory = r.memory
      OBVIOUS
    <3>3. UploadOK(q, w, memory, P)
      BY <3>1, <3>2, Zenon
    <3>4. UploadOK([q EXCEPT !.position = 1], w, memory, P)
      BY ONLY <3>1, <3>3, UploadSeeks
    <3> QED
      BY <2>4, <3>2, <3>4, Zenon
  <2> QED
    BY <1>3, <2>5, <2>6, <2>7
<1>7. CASE Requests(r, z)
  <2>1. Same(r, z, {"wanted"}) /\ q.position > 0 /\ r.wanted = 0 /\ z.wanted \in 1 .. Available(q)
    BY <1>7 DEF Requests
  <2>2. z.reader = q /\ z.memory = r.memory /\ Same(r, z, {"reader", "memory", "wanted"})
    BY <2>1 DEF Same, LoadFields
  <2>3. UploadOK(q, z.wanted, r.memory, P)
    BY <1>2, <1>4, <2>1, UploadRequests
  <2> QED
    BY <1>3, <2>2, <2>3
<1>8. CASE ReadsMore(r, z)
  <2>1. /\ Same(r, z, {"reader", "wanted"}) /\ r.wanted > 0 /\ ~q.error
        /\ z.wanted = r.wanted - Payload(r.wanted)
        /\ z.reader \in ReadResults(q, Plan(OpenedFile(r)), r.wanted)
    BY <1>8 DEF ReadsMore
  <2>2. z.memory = r.memory /\ Same(r, z, {"reader", "memory", "wanted"})
    BY <2>1 DEF Same, LoadFields
  <2>3. Located(r) /\ Deserializing(r)
    BY <1>1 DEF LoadOK
  <2>4. OpenedFile(r) = Engine(r)
    <3>1. r.from \in LoadPaths(r.model)
      BY <1>4, <2>3 DEF Located
    <3> QED
      BY <1>4, <2>3, <3>1 DEF OpenedFile, Exists, ModelSettled, Engine, Deserializing
  <2>5. Plan(OpenedFile(r)) = P
    BY <2>3, <2>4 DEF Plan, Located, Deserializing, PlanOf
  <2>6. UploadOK(z.reader, r.wanted - Payload(r.wanted), r.memory, P)
    <3>1. PICK w, memory : w = r.wanted /\ memory = r.memory
      OBVIOUS
    <3>2. /\ P \in Seq(Nat) /\ UploadOK(q, w, memory, P) /\ w > 0
          /\ ~q.error /\ z.reader \in ReadResults(q, P, w)
      BY <1>2, <1>4, <2>1, <2>5, <3>1
    <3>3. UploadOK(z.reader, w - Payload(w), memory, P)
      BY ONLY <1>2, <2>1, <3>2, UploadReads
    <3> QED
      BY <3>1, <3>3, Zenon
  <2>7. z.reader.size = Len(P)
    BY <2>6 DEF UploadOK, ReaderOK
  <2> QED
    BY <1>3, <1>4, <2>1, <2>2, <2>6, <2>7
<1>9. CASE RunsCopy(r, z)
  <2>1. /\ Same(r, z, {"reader", "memory"}) /\ q.queue # <<>> /\ z.memory = UploadHead(q, r.memory)
        /\ z.reader = [q EXCEPT !.queue = Tail(@)]
    BY <1>9 DEF RunsCopy
  <2>2. z.wanted = r.wanted /\ Same(r, z, {"reader", "memory", "wanted"})
    BY <2>1 DEF Same, LoadFields
  <2>3. UploadOK(z.reader, r.wanted, z.memory, P)
    <3>1. PICK w, memory : w = r.wanted /\ memory = r.memory
      OBVIOUS
    <3>2. P \in Seq(Nat) /\ UploadOK(q, w, memory, P) /\ q.queue # <<>>
      BY <1>2, <1>4, <2>1, <3>1
    <3>3. UploadOK([q EXCEPT !.queue = Tail(@)], w, UploadHead(q, memory), P)
      BY ONLY <3>2, UploadRuns
    <3> QED
      BY <2>1, <3>1, <3>3, Zenon
  <2>4. z.reader.size = Len(P)
    BY <2>3 DEF UploadOK, ReaderOK
  <2> QED
    BY <1>3, <1>4, <2>2, <2>3, <2>4
<1> QED
  BY <1>6, <1>7, <1>8, <1>9

\* The stream has drained.
LEMMA EndsWell ==
  ASSUME EpContextAssumption, NEW r, NEW z, LoadOK(r), ModelSettled(r.model), Ends(r, z)
  PROVE  LoadOK(z)
<1>1. /\ r.pc = "upload" /\ z.pc = "ready" /\ Same(r, z, {"pc", "reader"})
      /\ r.reader.position = r.reader.size /\ r.reader.queue = <<>>
  BY DEF Ends
<1>2. /\ z.model = r.model /\ z.from = r.from /\ z.memory = r.memory /\ z.engine = r.engine
      /\ z.opt = r.opt /\ z.complete = r.complete /\ z.bytes = r.bytes
  BY <1>1 DEF Same, LoadFields
<1>3. r.model.node \in DOMAIN NodeInfo
  BY DEF ModelSettled
<1>4. r.memory = Tail(PlanOf(r))
  BY <1>1, <1>3, UploadIs, UploadEnds
<1>5. PlanOf(z) = PlanOf(r)
  BY <1>2, SameEngine
<1>6. r.engine.weights = TrueWeights(r.model.node) \/ Skipped(r)
  BY <1>1 DEF LoadOK
<1> QED
  BY <1>1, <1>2, <1>4, <1>5, <1>6 DEF LoadOK, Skipped

\* Every step of a load keeps it right.
LEMMA BecomesWell ==
  ASSUME EpContextAssumption, WeightsNamedOnce, NEW s \in Sessions, NEW z, LoadOK(sess[s]),
         ModelSettled(sess[s].model), LoadBecomes(s, z)
  PROVE  LoadOK(z)
<1>1. CASE Fails(sess[s], z)
  <2>1. z.pc = "failed"
    BY <1>1 DEF Fails
  <2> QED
    BY <2>1 DEF LoadOK
<1> QED
  BY <1>1, LocatesWell, ReadsWell, RefitsWell, ContinuesWell, UploadsWell, EndsWell DEF LoadBecomes

-----------------------------------------------------------------------------
(* The loads *)

\* Every load, of a published model.
LoadsOK == \A s \in Sessions : IsLoad(s) => sess[s].model \in models /\ LoadOK(sess[s])

\* The invariant of LoadedEnginesWhole.
LoadedInv == EnginesInv /\ Placed /\ LoadsOK

\* A session's step keeps the loads right.
LEMMA LoadsStep ==
  ASSUME EpContextAssumption, OwnDirectories, OlderModels, WeightsNamedOnce, LoadedInv, NEW s \in Sessions,
         StartCompile(s) \/ StartLoad(s) \/ Step(s)
  PROVE  LoadsOK'
<1>0. SessionsOK /\ EnginesInv /\ Placed /\ LoadsOK
  BY DEF LoadedInv, EnginesInv
<1>1. /\ models \subseteq models'
      /\ sess' = [t \in Sessions |-> sess'[t]] /\ \A t \in Sessions : t # s => sess'[t] = sess[t]
  BY <1>0, ModelsGrow
<1> SUFFICES ASSUME NEW t \in Sessions, "model" \in DOMAIN sess'[t]
             PROVE  sess'[t].model \in models' /\ LoadOK(sess'[t])
  BY DEF LoadsOK, IsLoad
<1>2. CASE t # s
  <2>1. sess'[t] = sess[t]
    BY <1>1, <1>2
  <2>2. sess[t].model \in models /\ LoadOK(sess[t])
    BY <1>0, <2>1 DEF LoadsOK, IsLoad
  <2> QED
    BY <1>1, <2>1, <2>2
<1>3. CASE t = s /\ StartCompile(s)
  <2>1. PICK o \in CompileOptions : sess' = [sess EXCEPT ![s] = NewCompile(o)]
    BY <1>3 DEF StartCompile
  <2>2. sess'[s] = NewCompile(o)
    BY <1>0, <2>1 DEF SessionsOK
  <2> QED
    BY <1>3, <2>2 DEF NewCompile
<1>4. CASE t = s /\ StartLoad(s)
  <2>1. PICK o \in LoadOptions, m \in models : sess' = [sess EXCEPT ![s] = NewLoad(o, m)]
    BY <1>4 DEF StartLoad
  <2> PICK z : z = NewLoad(o, m)
    OBVIOUS
  <2>2. sess'[s] = z
    BY <1>0, <2>1 DEF SessionsOK
  <2>3. z.model = m /\ z.pc = "locate" /\ z.bytes = NoFile /\ z.from = NoFile /\ z.complete = FALSE /\ z.wanted = 0
    BY DEF NewLoad
  <2>4. LoadOK(z)
    BY <2>3 DEF LoadOK
  <2> QED
    BY <1>1, <1>4, <2>2, <2>3, <2>4
<1>5. CASE t = s /\ CompileStep(s)
  <2>1. PICK z : sess' = [sess EXCEPT ![s] = z] /\ Has(z, CompileFields)
    BY <1>0, <1>5, CompilesLeave DEF CompilesOn
  <2>2. sess'[s] = z
    BY <1>0, <2>1 DEF SessionsOK
  <2> QED
    BY <1>5, <2>1, <2>2 DEF Has, CompileFields
<1>6. CASE t = s /\ LoadStep(s)
  <2>1. PICK z : sess' = [sess EXCEPT ![s] = z] /\ Loads(z) /\ LoadBecomes(s, z) /\ Loads(sess[s])
    BY <1>0, <1>6, LoadsBecome
  <2>2. sess'[s] = z
    BY <1>0, <2>1 DEF SessionsOK
  <2>3. z.model = sess[s].model
    BY <2>1, LoadGoesOn
  <2>4. sess[s].model \in models /\ LoadOK(sess[s])
    BY <1>0, <2>1, Kinds DEF LoadsOK
  <2>5. ModelSettled(sess[s].model)
    BY <1>0, <2>4, Settled
  <2>6. LoadOK(z)
    BY <2>1, <2>4, <2>5, BecomesWell
  <2> QED
    BY <1>1, <1>6, <2>2, <2>3, <2>4, <2>6
<1> QED
  BY <1>2, <1>3, <1>4, <1>5, <1>6 DEF Step

\* So does a crash.
LEMMA LoadsCrash ==
  ASSUME SessionsOK, LoadsOK, Crash
  PROVE  LoadsOK'
<1> SUFFICES ASSUME NEW s \in Sessions, IsLoad(s)'
             PROVE  sess'[s].model \in models' /\ LoadOK(sess'[s])
  BY DEF LoadsOK, IsLoad
<1>1. /\ IsLoad(s) /\ UNCHANGED models
      /\ sess'[s] = sess[s] \/ (sess'[s] = [sess[s] EXCEPT !.pc = "crashed"] /\ Loads(sess[s]))
  BY CrashedLoads
<1>2. sess[s].model \in models /\ LoadOK(sess[s])
  BY <1>1 DEF LoadsOK
<1>3. CASE sess'[s] = sess[s]
  BY <1>1, <1>2, <1>3
<1>4. CASE sess'[s] = [sess[s] EXCEPT !.pc = "crashed"] /\ Loads(sess[s])
  <2>1. sess'[s].pc = "crashed" /\ sess'[s].model = sess[s].model
    BY <1>4 DEF Loads, Has, LoadFields
  <2> QED
    BY <1>1, <1>2, <2>1 DEF LoadOK
<1> QED
  BY <1>1, <1>3, <1>4

(***************************************************************************)
(* LoadedEnginesWhole holds in every behaviour, for plans of any length,   *)
(* any alignment, slots and ring, and any older models and stored engines: *)
(* whatever is refitted, and however reads, the stream and other sessions  *)
(* interleave, a load that gets through has every byte right, and every    *)
(* weight set from its source except in the load of RefitSkipped.          *)
(***************************************************************************)
THEOREM LoadedWhole ==
  ASSUME OwnDirectories, OlderModels, WeightsNamedOnce
  PROVE  Spec => []LoadedEnginesWhole
<1> USE EpContextAssumption
<1>1. Init => LoadedInv
  BY EnginesInit, PlacedInit DEF Init, LoadedInv, LoadsOK, IsLoad, Idle
<1>2. LoadedInv /\ [Next]_vars => LoadedInv'
  <2> SUFFICES ASSUME LoadedInv, [Next]_vars PROVE LoadedInv'
    OBVIOUS
  <2>0. SessionsOK /\ EnginesInv /\ Placed /\ LoadsOK
    BY DEF LoadedInv, EnginesInv
  <2>1. CASE UNCHANGED vars
    <3>1. UNCHANGED <<files, store, models, sess>>
      BY <2>1 DEF vars
    <3>2. EnginesInv'
      BY <2>0, <3>1 DEF EnginesInv, SessionsOK, SessionOK, Attributed, LeftOwned, Exported, IsCompile, Partial
    <3>3. Placed'
      BY <2>0, <3>1 DEF Placed, CachePlaced, OlderKept, IsCompile
    <3>4. LoadsOK'
      BY <2>0, <3>1 DEF LoadsOK, IsLoad
    <3> QED
      BY <3>2, <3>3, <3>4 DEF LoadedInv
  <2>2. ASSUME NEW s \in Sessions, StartCompile(s) \/ StartLoad(s) \/ Step(s) PROVE LoadedInv'
    <3>1. EnginesInv'
      BY <2>0, <2>2, EveryStepOK, EnginesStep
    <3>2. Placed'
      BY <2>0, <2>2, PlacedStep
    <3>3. LoadsOK'
      BY <2>2, LoadsStep
    <3> QED
      BY <3>1, <3>2, <3>3 DEF LoadedInv
  <2>3. CASE Crash
    BY <2>0, <2>3, EnginesCrash, PlacedCrash, LoadsCrash DEF LoadedInv
  <2> QED
    BY <2>1, <2>2, <2>3 DEF Next
<1>3. LoadedInv => LoadedEnginesWhole
  BY DEF LoadedInv, LoadsOK, LoadOK, LoadedEnginesWhole, RefitSkipped, Skipped, At, PlanOf
<1> QED
  BY <1>1, <1>2, <1>3, PTL DEF Spec

-----------------------------------------------------------------------------
(* The optimization profiles *)

\* The maps after n inputs: what they had, and an implicit entry for each input
\* that was not there.
Filled(map, inputs, n, value) ==
  [name \in DOMAIN map \cup {inputs[i].name : i \in 1 .. n} |->
     IF name \in DOMAIN map THEN map[name]
     ELSE <<ImplicitDims(inputs[CHOOSE i \in DOMAIN inputs : inputs[i].name = name], value)>>]
FilledMaps(maps, inputs, n) ==
  [min |-> Filled(maps.min, inputs, n, 0), opt |-> Filled(maps.opt, inputs, n, 1),
   max |-> Filled(maps.max, inputs, n, MaxDim)]
WithEntry(map, x, value) ==
  [name \in DOMAIN map \cup {x.name} |->
     IF name = x.name THEN <<ImplicitDims(x, value)>> ELSE map[name]]
Agree(inputs) ==
  /\ Len(inputs) \in Nat /\ DOMAIN inputs = 1 .. Len(inputs)
  /\ \A i, j \in DOMAIN inputs : inputs[i].name = inputs[j].name => inputs[i].dims = inputs[j].dims
Together(maps) ==
  /\ maps = [min |-> maps.min, opt |-> maps.opt, max |-> maps.max]
  /\ \A side \in Sides : maps[side] = [name \in DOMAIN maps.min |-> maps[side][name]]

\* The entry an input gets.
LEMMA ImplicitEntry ==
  ASSUME NEW inputs, Agree(inputs), NEW n \in DOMAIN inputs, NEW value
  PROVE  ImplicitDims(inputs[CHOOSE i \in DOMAIN inputs : inputs[i].name = inputs[n].name], value)
           = ImplicitDims(inputs[n], value)
<1> PICK j : j = CHOOSE i \in DOMAIN inputs : inputs[i].name = inputs[n].name
  OBVIOUS
<1>1. j \in DOMAIN inputs /\ inputs[j].name = inputs[n].name
  OBVIOUS
<1>2. inputs[j].dims = inputs[n].dims
  BY <1>1 DEF Agree
<1>3. ImplicitDims(inputs[j], value) = ImplicitDims(inputs[n], value)
  BY <1>2 DEF ImplicitDims
<1> QED
  BY <1>3

\* One map, after one more input.
LEMMA FilledNext ==
  ASSUME NEW inputs, Agree(inputs), NEW n \in DOMAIN inputs, NEW value, NEW map
  PROVE  /\ inputs[n].name \in DOMAIN Filled(map, inputs, n - 1, value) =>
              Filled(map, inputs, n, value) = Filled(map, inputs, n - 1, value)
         /\ inputs[n].name \notin DOMAIN map =>
              Filled(map, inputs, n, value) = WithEntry(Filled(map, inputs, n - 1, value), inputs[n], value)
<1> PICK own : own = inputs[n].name
  OBVIOUS
<1> DEFINE Entry(name) == IF name \in DOMAIN map THEN map[name]
             ELSE <<ImplicitDims(inputs[CHOOSE i \in DOMAIN inputs : inputs[i].name = name], value)>>
           D(k) == DOMAIN map \cup {inputs[i].name : i \in 1 .. k}
<1>1. 1 .. n = 1 .. (n - 1) \cup {n}
  BY DEF Agree
<1>2. D(n) = D(n - 1) \cup {own}
  BY <1>1
<1>3. own \notin DOMAIN map => Entry(own) = <<ImplicitDims(inputs[n], value)>>
  BY ImplicitEntry
<1>4. Filled(map, inputs, n, value) = [name \in D(n) |-> Entry(name)]
  BY DEF Filled
<1>5. Filled(map, inputs, n - 1, value) = [name \in D(n - 1) |-> Entry(name)]
  BY DEF Filled
<1> HIDE DEF D, Entry
<1> PICK before : before = Filled(map, inputs, n - 1, value)
  OBVIOUS
<1> PICK after : after = Filled(map, inputs, n, value)
  OBVIOUS
<1>6. DOMAIN before = D(n - 1) /\ \A name \in D(n - 1) : before[name] = Entry(name)
  BY <1>5
<1>7. own \in D(n - 1) => after = before
  BY <1>2, <1>4, <1>5
<1>8. ASSUME own \notin DOMAIN map
      PROVE  after = [name \in D(n - 1) \cup {own} |->
                        IF name = own THEN <<ImplicitDims(inputs[n], value)>> ELSE before[name]]
  BY <1>2, <1>3, <1>4, <1>6, <1>8
<1>9. own \notin DOMAIN map => after = WithEntry(before, inputs[n], value)
  BY <1>6, <1>8 DEF WithEntry
<1> QED
  BY <1>6, <1>7, <1>9

\* The loop over the inputs fills the maps.
LEMMA LoopFills ==
  ASSUME NEW maps, Together(maps), NEW inputs, Agree(inputs)
  PROVE  MapsAfter(maps, inputs, IsExplicit(maps)) = FilledMaps(maps, inputs, Len(inputs))
<1> DEFINE N == Len(inputs)
           explicit == IsExplicit(maps)
           Turn(f) == [n \in 0 .. N |->
                         IF n = 0 THEN maps
                         ELSE IF explicit /\ HasProfile(f[n - 1], inputs[n].name) THEN f[n - 1]
                         ELSE WithImplicit(f[n - 1], inputs[n])]
           g == [n \in 0 .. N |-> FilledMaps(maps, inputs, n)]
           after == CHOOSE f : f = Turn(f)
<1>0. N \in Nat /\ DOMAIN inputs = 1 .. N
  BY DEF Agree
<1>1. FilledMaps(maps, inputs, 0) = maps
  <2>1. ASSUME NEW side \in Sides, NEW value PROVE Filled(maps[side], inputs, 0, value) = maps[side]
    <3>1. {inputs[i].name : i \in 1 .. 0} = {}
      OBVIOUS
    <3>2. maps[side] = [name \in DOMAIN maps[side] |-> maps[side][name]]
      BY DEF Together
    <3> QED
      BY <3>1, <3>2 DEF Filled
  <2>2. /\ Filled(maps.min, inputs, 0, 0) = maps.min /\ Filled(maps.opt, inputs, 0, 1) = maps.opt
        /\ Filled(maps.max, inputs, 0, MaxDim) = maps.max
    BY <2>1 DEF Sides
  <2> QED
    BY <2>2 DEF FilledMaps, Together
<1>2. ASSUME NEW n \in 1 .. N
      PROVE  FilledMaps(maps, inputs, n)
               = IF explicit /\ HasProfile(FilledMaps(maps, inputs, n - 1), inputs[n].name)
                 THEN FilledMaps(maps, inputs, n - 1)
                 ELSE WithImplicit(FilledMaps(maps, inputs, n - 1), inputs[n])
  <2> PICK before : before = FilledMaps(maps, inputs, n - 1)
    OBVIOUS
  <2> PICK x : x = inputs[n]
    OBVIOUS
  <2>1. /\ before.min = Filled(maps.min, inputs, n - 1, 0) /\ before.opt = Filled(maps.opt, inputs, n - 1, 1)
        /\ before.max = Filled(maps.max, inputs, n - 1, MaxDim)
    BY DEF FilledMaps
  <2>0. ASSUME NEW map, NEW value
        PROVE  /\ x.name \in DOMAIN Filled(map, inputs, n - 1, value) =>
                    Filled(map, inputs, n, value) = Filled(map, inputs, n - 1, value)
               /\ x.name \notin DOMAIN map =>
                    Filled(map, inputs, n, value) = WithEntry(Filled(map, inputs, n - 1, value), x, value)
    <3>1. n \in DOMAIN inputs
      BY <1>0
    <3> QED
      BY ONLY <3>1, Agree(inputs), x = inputs[n], FilledNext
  <2>2. DOMAIN maps.opt = DOMAIN maps.min /\ DOMAIN maps.max = DOMAIN maps.min
    BY DEF Together, Sides
  <2>3. DOMAIN before.opt = DOMAIN before.min /\ DOMAIN before.max = DOMAIN before.min
    BY <2>1, <2>2 DEF Filled
  <2>4. CASE explicit /\ HasProfile(before, x.name)
    <3>1. x.name \in DOMAIN before.min /\ x.name \in DOMAIN before.opt /\ x.name \in DOMAIN before.max
      BY <2>4 DEF HasProfile
    <3>2. /\ Filled(maps.min, inputs, n, 0) = before.min /\ Filled(maps.opt, inputs, n, 1) = before.opt
          /\ Filled(maps.max, inputs, n, MaxDim) = before.max
      BY <2>0, <2>1, <3>1
    <3> QED
      BY <2>1, <2>4, <3>2 DEF FilledMaps
  <2>5. CASE ~(explicit /\ HasProfile(before, x.name))
    <3>1. x.name \notin DOMAIN maps.min
      <4>1. CASE explicit
        <5>1. \E side \in Sides : x.name \notin DOMAIN before[side]
          BY <2>5, <4>1 DEF HasProfile, Sides
        <5>2. x.name \notin DOMAIN before.min
          BY <2>3, <5>1 DEF Sides
        <5> QED
          BY <2>1, <5>2 DEF Filled
      <4>2. CASE ~explicit
        BY <2>2, <4>2 DEF IsExplicit
      <4> QED
        BY <4>1, <4>2
    <3>2. x.name \notin DOMAIN maps.opt /\ x.name \notin DOMAIN maps.max
      BY <2>2, <3>1
    <3>3. /\ Filled(maps.min, inputs, n, 0) = WithEntry(before.min, x, 0)
          /\ Filled(maps.opt, inputs, n, 1) = WithEntry(before.opt, x, 1)
          /\ Filled(maps.max, inputs, n, MaxDim) = WithEntry(before.max, x, MaxDim)
      BY <2>0, <2>1, <3>1, <3>2
    <3>4. WithImplicit(before, x) = [min |-> WithEntry(before.min, x, 0), opt |-> WithEntry(before.opt, x, 1),
                                     max |-> WithEntry(before.max, x, MaxDim)]
      BY DEF WithImplicit, WithEntry
    <3> QED
      BY <2>5, <3>3, <3>4 DEF FilledMaps
  <2> QED
    BY <2>4, <2>5
<1>3. g = Turn(g)
  <2> SUFFICES ASSUME NEW n \in 0 .. N PROVE g[n] = Turn(g)[n]
    OBVIOUS
  <2>1. CASE n = 0
    BY <1>1, <2>1
  <2>2. CASE n # 0
    <3>1. n \in 1 .. N /\ n - 1 \in 0 .. N
      BY <1>0, <2>2
    <3>2. g[n - 1] = FilledMaps(maps, inputs, n - 1) /\ g[n] = FilledMaps(maps, inputs, n)
      BY <3>1
    <3> QED
      BY <1>2, <2>2, <3>1, <3>2
  <2> QED
    BY <2>1, <2>2
<1>4. after = Turn(after)
  <2> HIDE DEF g
  <2> QED
    BY <1>3
<1>5. MapsAfter(maps, inputs, explicit) = after[N]
  BY DEF MapsAfter
<1> HIDE DEF after, g, Turn, explicit, N
<1> DEFINE T == {n \in 0 .. N : after[n] = FilledMaps(maps, inputs, n)}
<1>6. 0 \in T
  BY <1>0, <1>1, <1>4 DEF Turn
<1>7. ASSUME NEW n \in 1 .. N, n - 1 \in T PROVE n \in T
  <2>1. after[n - 1] = FilledMaps(maps, inputs, n - 1) /\ n \in 0 .. N /\ n # 0
    BY <1>0, <1>7
  <2>2. Turn(after)[n] = IF explicit /\ HasProfile(after[n - 1], inputs[n].name) THEN after[n - 1]
                         ELSE WithImplicit(after[n - 1], inputs[n])
    BY <2>1 DEF Turn
  <2> QED
    BY <1>2, <1>4, <2>1, <2>2
<1> HIDE DEF T
<1>8. \A n \in 0 .. N : n \in T
  BY <1>0, <1>6, <1>7, UpTo
<1> QED
  BY <1>0, <1>5, <1>8 DEF T, explicit, N

\* The maps of a session: the user's entries, and implicit ones for inputs of the
\* nodes so far.
MapsOK(user, maps) ==
  /\ Together(maps)
  /\ \A name \in DOMAIN user.min :
       name \in DOMAIN maps.min /\ \A side \in Sides : maps[side][name] = user[side][name]
  /\ \A name \in DOMAIN maps.min \ DOMAIN user.min :
       \E x \in AllInputs : x.name = name /\ \A side \in Sides :
                               maps[side][name] = <<ImplicitDims(x, ImplicitValue[side])>>

\* At first they are the user's.
LEMMA UserMaps ==
  ASSUME ProfilesFit, NEW o \in CompileOptions
  PROVE  MapsOK(UserShapes(o), UserShapes(o))
<1> PICK u : u = UserShapes(o)
  OBVIOUS
<1>1. u = [min |-> u.min, opt |-> u.opt, max |-> u.max]
  BY DEF UserShapes, ProfilesFromOptions, NoProfiles
<1>2. \A side \in Sides : u[side] \in [DOMAIN u.min -> Seq(Seq(Int)) \ {<<>>}]
  BY DEF ProfilesFit
<1>3. Together(u)
  BY <1>1, <1>2 DEF Together
<1> QED
  BY <1>3 DEF MapsOK

\* The inputs of a node.
LEMMA InputsAgree ==
  ASSUME InputsTyped, NEW n \in DOMAIN NodeInfo
  PROVE  /\ Agree(NodeInfo[n].inputs)
         /\ \A i \in DOMAIN NodeInfo[n].inputs :
               NodeInfo[n].inputs[i] \in AllInputs /\ NodeInfo[n].inputs[i].shape_tensor = FALSE
<1> PICK inputs : inputs = NodeInfo[n].inputs
  OBVIOUS
<1> PICK T : T = [name : STRING, dims : Seq(Int), shape_tensor : {FALSE}]
  OBVIOUS
<1>1. inputs \in Seq(T)
  BY DEF InputsTyped
<1>2. Len(inputs) \in Nat /\ DOMAIN inputs = 1 .. Len(inputs) /\ \A i \in DOMAIN inputs : inputs[i] \in T
  <2>1. Len(inputs) \in Nat /\ DOMAIN inputs = 1 .. Len(inputs) /\ inputs \in [1 .. Len(inputs) -> T]
    BY ONLY <1>1, LenProperties
  <2> QED
    BY ONLY <2>1
<1>3. \A i \in DOMAIN inputs : inputs[i] \in AllInputs
  BY DEF AllInputs, ToSet
<1>4. \A x \in T : x.shape_tensor = FALSE
  OBVIOUS
<1>5. \A i, j \in DOMAIN inputs : inputs[i].name = inputs[j].name => inputs[i].dims = inputs[j].dims
  BY <1>3 DEF InputsTyped
<1> QED
  BY <1>2, <1>3, <1>4, <1>5 DEF Agree

\* After a node they still are that.
LEMMA FilledOK ==
  ASSUME InputsTyped, NEW user, NEW maps, MapsOK(user, maps), NEW n \in DOMAIN NodeInfo
  PROVE  /\ MapsOK(user, FilledMaps(maps, NodeInfo[n].inputs, Len(NodeInfo[n].inputs)))
         /\ \A i \in DOMAIN NodeInfo[n].inputs :
              NodeInfo[n].inputs[i].name
                \in DOMAIN FilledMaps(maps, NodeInfo[n].inputs, Len(NodeInfo[n].inputs)).min
<1> PICK inputs : inputs = NodeInfo[n].inputs
  OBVIOUS
<1> PICK N : N = Len(inputs)
  OBVIOUS
<1> PICK z : z = FilledMaps(maps, inputs, N)
  OBVIOUS
<1>1. N \in Nat /\ DOMAIN inputs = 1 .. N /\ \A i \in 1 .. N : inputs[i] \in AllInputs
  BY InputsAgree DEF Agree
<1> PICK names : names = {inputs[i].name : i \in 1 .. N}
  OBVIOUS
<1> PICK D : D = DOMAIN maps.min \cup names
  OBVIOUS
<1> PICK own : own = [name \in D |-> inputs[CHOOSE i \in DOMAIN inputs : inputs[i].name = name]]
  OBVIOUS
<1>2. z.min = Filled(maps.min, inputs, N, 0) /\ z.opt = Filled(maps.opt, inputs, N, 1)
      /\ z.max = Filled(maps.max, inputs, N, MaxDim) /\ z = [min |-> z.min, opt |-> z.opt, max |-> z.max]
  BY DEF FilledMaps
<1>3. \A side \in Sides : z[side] = Filled(maps[side], inputs, N, ImplicitValue[side])
  BY <1>2 DEF Sides, ImplicitValue
<1>4. \A side \in Sides : DOMAIN maps[side] = DOMAIN maps.min
  BY DEF MapsOK, Together
<1>5. ASSUME NEW side \in Sides
      PROVE  /\ z[side] = [name \in D |-> z[side][name]]
             /\ \A name \in DOMAIN maps.min : z[side][name] = maps[side][name]
             /\ \A name \in D \ DOMAIN maps.min :
                  z[side][name] = <<ImplicitDims(own[name], ImplicitValue[side])>>
  <2> PICK map, value, zs : map = maps[side] /\ value = ImplicitValue[side] /\ zs = z[side]
    OBVIOUS
  <2>1. DOMAIN map = DOMAIN maps.min /\ DOMAIN maps.min \subseteq D
    BY <1>4
  <2>2. D = DOMAIN map \cup {inputs[i].name : i \in 1 .. N}
    BY <2>1
  <2>3. Filled(map, inputs, N, value) = [name \in D |-> IF name \in DOMAIN map THEN map[name]
                                                      ELSE <<ImplicitDims(own[name], value)>>]
    BY <2>2 DEF Filled
  <2>4. zs = Filled(map, inputs, N, value)
    BY <1>3
  <2>5. /\ zs = [name \in D |-> zs[name]]
        /\ \A name \in DOMAIN maps.min : zs[name] = map[name]
        /\ \A name \in D \ DOMAIN maps.min : zs[name] = <<ImplicitDims(own[name], value)>>
    BY ONLY <2>1, <2>3, <2>4
  <2>6. zs = [name \in D |-> zs[name]] /\ \A name \in DOMAIN maps.min : zs[name] = map[name]
    BY <2>5
  <2>7. \A name \in D \ DOMAIN maps.min : zs[name] = <<ImplicitDims(own[name], ImplicitValue[side])>>
    BY ONLY <2>5, value = ImplicitValue[side], Zenon
  <2>8. /\ map = maps[side] /\ zs = z[side]
    OBVIOUS
  <2> QED
    BY ONLY <2>6, <2>7, <2>8, Zenon
<1>6. \A side \in Sides : DOMAIN z[side] = D
  BY <1>5
<1>7. \A side \in Sides : \A name \in DOMAIN maps.min : z[side][name] = maps[side][name]
  BY ONLY <1>5, Zenon
<1>8. \A side \in Sides : \A name \in D \ DOMAIN maps.min :
         z[side][name] = <<ImplicitDims(own[name], ImplicitValue[side])>>
  BY ONLY <1>5, Zenon
<1>9. DOMAIN z.min = D
  BY <1>6 DEF Sides
<1>10. Together(z)
  <2>1. ASSUME NEW side \in Sides PROVE z[side] = [name \in D |-> z[side][name]]
    BY <1>5
  <2> QED
    BY <1>2, <1>9, <2>1 DEF Together
<1>11. ASSUME NEW name \in DOMAIN user.min
      PROVE  name \in D /\ \A side \in Sides : z[side][name] = user[side][name]
  <2>1. name \in DOMAIN maps.min /\ \A side \in Sides : maps[side][name] = user[side][name]
    BY DEF MapsOK
  <2>2. \A side \in Sides : z[side][name] = maps[side][name]
    BY ONLY <1>7, <2>1, Zenon
  <2>3. name \in D
    BY <2>1
  <2> QED
    BY <2>1, <2>2, <2>3, Zenon
<1>12. ASSUME NEW name \in D \ DOMAIN user.min
       PROVE  \E x \in AllInputs : x.name = name /\ \A side \in Sides :
                                      z[side][name] = <<ImplicitDims(x, ImplicitValue[side])>>
  <2>1. CASE name \in DOMAIN maps.min
    <3>1. PICK x \in AllInputs : x.name = name /\ \A side \in Sides :
                                    maps[side][name] = <<ImplicitDims(x, ImplicitValue[side])>>
      BY <2>1 DEF MapsOK
    <3>2. \A side \in Sides : z[side][name] = maps[side][name]
      BY ONLY <1>7, <2>1, Zenon
    <3> QED
      BY <3>1, <3>2
  <2>2. CASE name \notin DOMAIN maps.min
    <3>1. \E i \in DOMAIN inputs : inputs[i].name = name
      BY <1>1, <2>2
    <3>2. own[name] \in AllInputs /\ own[name].name = name
      BY <1>1, <3>1
    <3>3. \A side \in Sides : z[side][name] = <<ImplicitDims(own[name], ImplicitValue[side])>>
      <4>1. name \in D \ DOMAIN maps.min
        BY <2>2
      <4> QED
        BY ONLY <1>8, <4>1, Zenon
    <3> QED
      BY <3>2, <3>3
  <2> QED
    BY <2>1, <2>2
<1>13. MapsOK(user, z)
  BY <1>9, <1>10, <1>11, <1>12 DEF MapsOK
<1>14. \A i \in DOMAIN inputs : inputs[i].name \in D
  BY <1>1
<1> QED
  BY <1>9, <1>13, <1>14

\* What a profile says of one dimension of one input.
DimAt(map, x, i, d) == IF x.dims[d] # Dynamic THEN x.dims[d] ELSE ShapeAt(map, x.name, i, d)
LEMMA AppliedIs ==
  ASSUME NEW maps, NEW x, x.shape_tensor = FALSE, NEW i, NEW side \in Sides, NEW d \in DOMAIN x.dims
  PROVE  AppliedDims(maps, x, i)[side][d] = DimAt(maps[side], x, i, d)
<1> PICK dims : dims = x.dims
  OBVIOUS
<1> DEFINE A(map) == [e \in DOMAIN dims |-> IF dims[e] = Dynamic THEN ShapeAt(map, x.name, i, e) ELSE dims[e]]
<1>1. AppliedDims(maps, x, i) = [min |-> A(maps.min), opt |-> A(maps.opt), max |-> A(maps.max)]
  BY DEF AppliedDims
<1> HIDE DEF A
<1>2. AppliedDims(maps, x, i)[side] = A(maps[side])
  BY <1>1 DEF Sides
<1>3. A(maps[side])[d] = IF dims[d] = Dynamic THEN ShapeAt(maps[side], x.name, i, d) ELSE dims[d]
  BY DEF A
<1> QED
  BY <1>2, <1>3 DEF DimAt

\* The first input of a name.
First(inputs, name) == inputs[SelectInSeq(inputs, LAMBDA x : x.name = name)]
LEMMA FirstNamed ==
  ASSUME NEW inputs, Len(inputs) \in Nat, DOMAIN inputs = 1 .. Len(inputs), NEW j \in DOMAIN inputs
  PROVE  \E k \in DOMAIN inputs : First(inputs, inputs[j].name) = inputs[k] /\ inputs[k].name = inputs[j].name
<1> DEFINE I == {i \in 1 .. Len(inputs) : inputs[i].name = inputs[j].name}
           k == SelectInSeq(inputs, LAMBDA x : x.name = inputs[j].name)
<1>1. j \in I /\ I \subseteq Nat
  OBVIOUS
<1>2. k = Min(I)
  BY <1>1 DEF SelectInSeq
<1>3. \E x \in I : \A y \in I : x <= y
  <2> HIDE DEF I
  <2> QED
    BY <1>1, LeastNumber
<1>4. Min(I) \in I
  <2> HIDE DEF I
  <2> QED
    BY <1>3 DEF Min
<1>5. First(inputs, inputs[j].name) = inputs[k]
  BY Zenon DEF First
<1> HIDE DEF k
<1>6. k \in I
  BY <1>2, <1>4
<1> QED
  BY <1>5, <1>6

\* What a build may leave, n being its number of profiles.
ProfileOf(maps, inputs, i) ==
  [name \in {inputs[j].name : j \in DOMAIN inputs} |-> AppliedDims(maps, First(inputs, name), i)]
BuiltWith(maps, inputs, n) ==
  [ok |-> IsExplicit(maps) \/ \E i \in DOMAIN inputs : HasDynamicDim(inputs[i]),
   maps |-> MapsAfter(maps, inputs, IsExplicit(maps)),
   profiles |-> [i \in 1 .. n |-> ProfileOf(MapsAfter(maps, inputs, IsExplicit(maps)), inputs, i)]]
LEMMA BuiltIs ==
  ASSUME NEW maps, NEW inputs, NEW p \in BuiltProfiles(maps, inputs)
  PROVE  \/ p = [ok |-> TRUE, maps |-> maps, profiles |-> <<>>]
         \/ \E n \in IF IsExplicit(maps) THEN NumProfiles(maps.min) ELSE {1} : p = BuiltWith(maps, inputs, n)
  BY Zenon DEF BuiltProfiles, BuiltWith, ProfileOf, First

\* The profiles of an engine say what ProfilesMatchInputs says.
ProfilesTrue(user, inputs, profiles) ==
  \A i \in DOMAIN profiles : \A j \in DOMAIN inputs : \A d \in DOMAIN inputs[j].dims : \A side \in Sides :
    profiles[i][inputs[j].name][side][d] =
      IF inputs[j].dims[d] # Dynamic THEN inputs[j].dims[d]
      ELSE IF HasProfile(user, inputs[j].name) THEN user[side][inputs[j].name][i][d]
      ELSE ImplicitValue[side]

\* The number of profiles is that of the user's lists, or one.
LEMMA ProfilesCounted ==
  ASSUME ProfilesFit, NEW o \in CompileOptions, NEW maps, MapsOK(UserShapes(o), maps),
         NEW m \in IF IsExplicit(maps) THEN NumProfiles(maps.min) ELSE {1}
  PROVE  m \in {0, 1} \/ \E name \in DOMAIN UserShapes(o).min : m = Len(UserShapes(o).min[name])
<1> PICK u : u = UserShapes(o)
  OBVIOUS
<1>1. CASE IsExplicit(maps)
  <2>1. m = 0 \/ \E name \in DOMAIN maps.min : m = Len(maps.min[name])
    BY <1>1 DEF NumProfiles
  <2>2. ASSUME NEW name \in DOMAIN maps.min, m = Len(maps.min[name]), name \in DOMAIN u.min
        PROVE  m = Len(u.min[name])
    <3>1. \A side \in Sides : maps[side][name] = u[side][name]
      BY <2>2 DEF MapsOK
    <3>2. maps.min[name] = u.min[name]
      BY <3>1 DEF Sides
    <3> QED
      BY <2>2, <3>2
  <2>3. ASSUME NEW name \in DOMAIN maps.min, m = Len(maps.min[name]), name \notin DOMAIN u.min
        PROVE  m = 1
    <3>1. PICK x \in AllInputs : \A side \in Sides : maps[side][name] = <<ImplicitDims(x, ImplicitValue[side])>>
      BY <2>3 DEF MapsOK
    <3>2. maps.min[name] = <<ImplicitDims(x, ImplicitValue["min"])>>
      BY <3>1 DEF Sides
    <3> PICK e : e = ImplicitDims(x, ImplicitValue["min"])
      OBVIOUS
    <3>3. Len(<<e>>) = 1
      OBVIOUS
    <3> QED
      BY <2>3, <3>2, <3>3
  <2> QED
    BY <2>1, <2>2, <2>3
<1>2. CASE ~IsExplicit(maps)
  BY <1>2
<1> QED
  BY <1>1, <1>2

\* One dimension of one input, in one of them.
LEMMA ShapeIs ==
  ASSUME InputsTyped, ProfilesFit, NEW o \in CompileOptions, NEW maps, MapsOK(UserShapes(o), maps),
         NEW m, m \in {0, 1} \/ \E name \in DOMAIN UserShapes(o).min : m = Len(UserShapes(o).min[name]),
         NEW i \in 1 .. m, NEW x \in AllInputs, x.name \in DOMAIN maps.min,
         NEW d \in DOMAIN x.dims, x.dims[d] = Dynamic, NEW side \in Sides
  PROVE  ShapeAt(maps[side], x.name, i, d)
           = IF HasProfile(UserShapes(o), x.name) THEN UserShapes(o)[side][x.name][i][d] ELSE ImplicitValue[side]
<1> PICK u : u = UserShapes(o)
  OBVIOUS
<1>0. \A t \in Sides : u[t] \in [DOMAIN u.min -> Seq(Seq(Int)) \ {<<>>}]
  BY DEF ProfilesFit
<1>1. \A t \in Sides : \A name, other \in DOMAIN u.min : Len(u[t][name]) = Len(u.min[other])
  BY DEF ProfilesFit
<1>2. HasProfile(u, x.name) <=> x.name \in DOMAIN u.min
  <2>1. \A t \in Sides : DOMAIN u[t] = DOMAIN u.min
    BY <1>0
  <2> QED
    BY <2>1 DEF HasProfile, Sides
<1>3. CASE x.name \in DOMAIN u.min
  <2> PICK list : list = u[side][x.name]
    OBVIOUS
  <2>1. maps[side][x.name] = list
    BY <1>3 DEF MapsOK
  <2>2. list \in Seq(Seq(Int)) /\ list # <<>>
    BY <1>0, <1>3
  <2>3. Len(list) \in Nat /\ Len(list) >= 1 /\ DOMAIN list = 1 .. Len(list)
    BY ONLY <2>2, LenProperties, EmptySeq
  <2>4. m \in {0, 1} \/ m = Len(list)
    <3>1. ASSUME NEW name \in DOMAIN u.min, m = Len(u.min[name]) PROVE m = Len(list)
      BY <1>1, <1>3, <3>1
    <3> QED
      BY <3>1
  <2>5. i \in DOMAIN list
    BY ONLY <2>3, <2>4, i \in 1 .. m
  <2>6. list[i] \in ToSet(list)
    BY <2>5 DEF ToSet
  <2>7. d \in DOMAIN list[i]
    BY <1>3, <2>6 DEF ProfilesFit
  <2> QED
    BY <1>2, <1>3, <2>1, <2>5, <2>7 DEF ShapeAt
<1>4. CASE x.name \notin DOMAIN u.min
  <2>1. m \in {0, 1}
    <3>1. HasDynamicDim(x)
      BY DEF HasDynamicDim
    <3>2. \A name \in DOMAIN u.min : Len(u.min[name]) = 1
      BY <1>4, <3>1 DEF ProfilesFit
    <3> QED
      BY <3>2
  <2>2. i = 1
    BY <2>1
  <2>3. PICK y \in AllInputs : y.name = x.name /\ \A t \in Sides : maps[t][x.name] = <<ImplicitDims(y, ImplicitValue[t])>>
    BY <1>4 DEF MapsOK
  <2>4. y.dims = x.dims
    BY <2>3 DEF InputsTyped
  <2> PICK value : value = ImplicitValue[side]
    OBVIOUS
  <2> PICK e : e = ImplicitDims(y, value)
    OBVIOUS
  <2>5. maps[side][x.name] = <<e>>
    BY <2>3
  <2>6. e = [k \in DOMAIN x.dims |-> IF x.dims[k] = Dynamic THEN value ELSE x.dims[k]]
    BY ONLY <2>4, e = ImplicitDims(y, value) DEF ImplicitDims
  <2>7. d \in DOMAIN e /\ e[d] = value
    BY <2>6
  <2>8. 1 \in DOMAIN <<e>> /\ <<e>>[1] = e
    OBVIOUS
  <2>9. ShapeAt(maps[side], x.name, i, d) = value
    BY ONLY <2>2, <2>5, <2>7, <2>8 DEF ShapeAt
  <2> QED
    BY <1>2, <1>4, <2>9
<1> QED
  BY <1>3, <1>4

\* One dimension of one input, in the profile made of the maps.
DimIn(profile, name, side, d) == profile[name][side][d]
NoShapeTensors(inputs) == \A k \in DOMAIN inputs : inputs[k].shape_tensor = FALSE
LEMMA ProfileSays ==
  ASSUME NEW maps, NEW inputs, Agree(inputs), NoShapeTensors(inputs),
         NEW i, NEW j \in DOMAIN inputs, NEW x, x = inputs[j], NEW side \in Sides, NEW map, map = maps[side],
         NEW d \in DOMAIN x.dims
  PROVE  DimIn(ProfileOf(maps, inputs, i), x.name, side, d) = DimAt(map, x, i, d)
<1> PICK y : y = First(inputs, x.name)
  OBVIOUS
<1>1. y.shape_tensor = FALSE /\ y.name = x.name /\ y.dims = x.dims
  <2>1. Len(inputs) \in Nat /\ DOMAIN inputs = 1 .. Len(inputs)
    BY DEF Agree
  <2>2. PICK k \in DOMAIN inputs : First(inputs, inputs[j].name) = inputs[k] /\ inputs[k].name = inputs[j].name
    BY <2>1, FirstNamed
  <2> QED
    BY <2>2 DEF Agree, NoShapeTensors
<1>2. ProfileOf(maps, inputs, i)[x.name] = AppliedDims(maps, y, i)
  <2>1. x.name \in {inputs[k].name : k \in DOMAIN inputs}
    OBVIOUS
  <2>2. ProfileOf(maps, inputs, i)[x.name] = AppliedDims(maps, First(inputs, x.name), i)
    BY ONLY <2>1 DEF ProfileOf
  <2> QED
    BY <2>2
<1>3. AppliedDims(maps, y, i)[side][d] = DimAt(maps[side], y, i, d)
  <2>1. d \in DOMAIN y.dims
    BY <1>1
  <2>2. y.shape_tensor = FALSE
    BY <1>1
  <2> QED
    BY ONLY <2>1, <2>2, side \in Sides, AppliedIs
<1>4. DimAt(maps[side], y, i, d) = DimAt(map, x, i, d)
  BY <1>1 DEF DimAt
<1> QED
  BY <1>2, <1>3, <1>4 DEF DimIn

\* What a build makes of the maps.
LEMMA BuiltTrue ==
  ASSUME InputsTyped, ProfilesFit, NEW o \in CompileOptions, NEW maps, MapsOK(UserShapes(o), maps),
         NEW n \in DOMAIN NodeInfo, NEW p \in BuiltProfiles(maps, NodeInfo[n].inputs)
  PROVE  MapsOK(UserShapes(o), p.maps) /\ ProfilesTrue(UserShapes(o), NodeInfo[n].inputs, p.profiles)
<1> PICK u : u = UserShapes(o)
  OBVIOUS
<1> PICK inputs : inputs = NodeInfo[n].inputs
  OBVIOUS
<1> PICK after : after = MapsAfter(maps, inputs, IsExplicit(maps))
  OBVIOUS
<1>1. \/ p = [ok |-> TRUE, maps |-> maps, profiles |-> <<>>]
      \/ \E m \in IF IsExplicit(maps) THEN NumProfiles(maps.min) ELSE {1} : p = BuiltWith(maps, inputs, m)
  BY ONLY p \in BuiltProfiles(maps, NodeInfo[n].inputs), inputs = NodeInfo[n].inputs, BuiltIs
<1>2. CASE p = [ok |-> TRUE, maps |-> maps, profiles |-> <<>>]
  <2>1. DOMAIN p.profiles = {} /\ p.maps = maps
    BY <1>2
  <2> QED
    BY <2>1 DEF ProfilesTrue
<1>3. ASSUME NEW m, m \in IF IsExplicit(maps) THEN NumProfiles(maps.min) ELSE {1}, p = BuiltWith(maps, inputs, m)
      PROVE  MapsOK(u, p.maps) /\ ProfilesTrue(u, inputs, p.profiles)
  <2>0. Agree(inputs) /\ \A i \in DOMAIN inputs : inputs[i] \in AllInputs /\ inputs[i].shape_tensor = FALSE
    BY InputsAgree
  <2>1. after = FilledMaps(maps, inputs, Len(inputs))
    BY <2>0, LoopFills DEF MapsOK
  <2>2. MapsOK(u, after) /\ \A i \in DOMAIN inputs : inputs[i].name \in DOMAIN after.min
    BY <2>1, FilledOK
  <2>3. m \in {0, 1} \/ \E name \in DOMAIN u.min : m = Len(u.min[name])
    BY <1>3, ProfilesCounted
  <2>4. p.maps = after /\ p.profiles = [i \in 1 .. m |-> ProfileOf(after, inputs, i)]
    BY <1>3 DEF BuiltWith
  <2> SUFFICES ASSUME NEW i \in 1 .. m, NEW j \in DOMAIN inputs, NEW d \in DOMAIN inputs[j].dims, NEW side \in Sides
               PROVE  p.profiles[i][inputs[j].name][side][d] =
                        IF inputs[j].dims[d] # Dynamic THEN inputs[j].dims[d]
                        ELSE IF HasProfile(u, inputs[j].name) THEN u[side][inputs[j].name][i][d]
                        ELSE ImplicitValue[side]
    BY <2>2, <2>4 DEF ProfilesTrue
  <2> PICK x : x = inputs[j]
    OBVIOUS
  <2>5. x \in AllInputs /\ d \in DOMAIN x.dims /\ x.name \in DOMAIN after.min
    BY <2>0, <2>2
  <2>6. p.profiles[i][x.name][side][d] = DimAt(after[side], x, i, d)
    <3>1. p.profiles[i] = ProfileOf(after, inputs, i)
      BY <2>4
    <3>2. Agree(inputs) /\ NoShapeTensors(inputs)
      BY <2>0 DEF NoShapeTensors
    <3> PICK map : map = after[side]
      OBVIOUS
    <3>3. DimIn(ProfileOf(after, inputs, i), x.name, side, d) = DimAt(map, x, i, d)
      <4>1. d \in DOMAIN x.dims
        BY <2>5
      <4> QED
        BY ONLY <3>2, <4>1, j \in DOMAIN inputs, x = inputs[j], side \in Sides, map = after[side], ProfileSays
    <3> QED
      BY <3>1, <3>3 DEF DimIn
  <2>7. CASE x.dims[d] # Dynamic
    BY <2>6, <2>7 DEF DimAt
  <2>8. CASE x.dims[d] = Dynamic
    <3>1. ShapeAt(after[side], x.name, i, d) = IF HasProfile(u, x.name) THEN u[side][x.name][i][d] ELSE ImplicitValue[side]
      BY <2>2, <2>3, <2>5, <2>8, ShapeIs
    <3> QED
      BY <2>6, <2>8, <3>1 DEF DimAt
  <2> QED
    BY <2>7, <2>8
<1>4. MapsOK(u, p.maps) /\ ProfilesTrue(u, inputs, p.profiles)
  BY <1>1, <1>2, <1>3
<1> QED
  BY <1>4

-----------------------------------------------------------------------------
(* The profiles of the engines a session built *)

\* Between the profiles of a node and its end.
Between == {"open", "build", "finalize", "deserialize", "export", "context", "end"}
BuildsNext(r, z) ==
  /\ r.pc = "prepare" /\ z.pc = "open" /\ z.at = r.at
  /\ \E p \in BuiltProfiles(r.maps, NodeInfo[Of(r)].inputs) : z.maps = p.maps /\ z.built = Append(r.built, p.profiles)
Moves(r, z) ==
  /\ z.maps = r.maps /\ z.built = r.built
  /\ z.pc \in Between => r.pc \in Between /\ z.at = r.at
  /\ z.pc = "prepare" => r.pc \in Between /\ z.at = r.at + 1
Onward(s) ==
  \E z : /\ sess' = [sess EXCEPT ![s] = z] /\ z.opt = sess[s].opt
         /\ BuildsNext(sess[s], z) \/ Moves(sess[s], z)

\* Profiles are built once for every node, in order.
LEMMA CompilesOnward ==
  ASSUME EpContextAssumption, SessionsOK, NEW s \in Sessions, CompileStep(s)
  PROVE  Onward(s)
<1> PICK r : r = sess[s]
  OBVIOUS
<1>1. Compiles(s, r, files, store)
  <2>1. r.pc \in CompilePcs \ {"context", "failed", "crashed"} \/ IsCompile(s)
    BY DEF CompileStep, ParseNode, InitializeEngineOutput, BuildEngine, FinalizeEngineOutput, DeserializeBuilt,
           CreateEPContextNode, SkipExport, EndNode, Unwind, Publish, At, CompilePcs
  <2> QED
    BY <2>1, Kinds
<1>2. Has(r, CompileFields)
  BY <1>1 DEF Compiles, HelperOK, CompileTypes
<1>3. ASSUME NEW z, sess' = [sess EXCEPT ![s] = z], z.opt = r.opt, BuildsNext(r, z) \/ Moves(r, z)
      PROVE  Onward(s)
  BY <1>3 DEF Onward
<1> HIDE DEF Onward
<1>4. ASSUME FailCompile(s) PROVE Onward(s)
  <2> PICK z : z = [r EXCEPT !.pc = "unwind"]
    OBVIOUS
  <2>1. sess' = [sess EXCEPT ![s] = z]
    BY <1>4 DEF FailCompile
  <2>2. z.opt = r.opt /\ Moves(r, z)
    BY <1>2 DEF Has, CompileFields, Moves, Between
  <2> QED
    BY <1>3, <2>1, <2>2
<1>5. CASE ParseNode(s)
  <2> SUFFICES ASSUME NEW p \in BuiltProfiles(r.maps, NodeInfo[Of(r)].inputs), NEW records,
                      sess' = [sess EXCEPT ![s].pc = "open", ![s].captured = records,
                                           ![s].maps = p.maps, ![s].built = Append(@, p.profiles)]
               PROVE  Onward(s)
    BY <1>4, <1>5 DEF ParseNode, NodeOf, Of
  <2> PICK z : z = [r EXCEPT !.pc = "open", !.captured = records, !.maps = p.maps,
                             !.built = Append(@, p.profiles)]
    OBVIOUS
  <2>1. sess' = [sess EXCEPT ![s] = z]
    OBVIOUS
  <2>2. /\ z.opt = r.opt /\ z.pc = "open" /\ z.at = r.at
        /\ z.maps = p.maps /\ z.built = Append(r.built, p.profiles)
    BY <1>2 DEF Has, CompileFields
  <2>3. r.pc = "prepare"
    BY <1>5 DEF ParseNode, At
  <2>4. BuildsNext(r, z)
    BY <2>2, <2>3 DEF BuildsNext
  <2> QED
    BY <1>3, <2>1, <2>2, <2>4
<1>6. ASSUME NEW z, sess' = [sess EXCEPT ![s] = z], z.opt = r.opt, z.at = r.at, z.maps = r.maps, z.built = r.built,
             r.pc \in Between, z.pc # "prepare"
      PROVE  Onward(s)
  BY <1>3, <1>6 DEF Moves
<1>7. CASE InitializeEngineOutput(s)
  <2>0. r.pc \in Between
    BY <1>7 DEF InitializeEngineOutput, At, Between
  <2>1. ASSUME NEW path, NEW opens, OpenOutput(s, path, opens) PROVE Onward(s)
    <3> PICK z : z = [r EXCEPT !.out = path, !.open = opens, !.pc = "build"]
      OBVIOUS
    <3>1. sess' = [sess EXCEPT ![s] = z]
      BY <2>1 DEF OpenOutput
    <3>2. z.opt = r.opt /\ z.at = r.at /\ z.maps = r.maps /\ z.built = r.built /\ z.pc # "prepare"
      BY <1>2 DEF Has, CompileFields
    <3> QED
      BY <1>6, <2>0, <3>1, <3>2
  <2>2. CASE sess' = [sess EXCEPT ![s].out = InMemory, ![s].pc = "build"]
    <3> PICK z : z = [r EXCEPT !.out = InMemory, !.pc = "build"]
      OBVIOUS
    <3>1. sess' = [sess EXCEPT ![s] = z]
      BY <2>2
    <3>2. z.opt = r.opt /\ z.at = r.at /\ z.maps = r.maps /\ z.built = r.built /\ z.pc # "prepare"
      BY <1>2 DEF Has, CompileFields
    <3> QED
      BY <1>6, <2>0, <3>1, <3>2
  <2> QED
    BY <1>7, <2>1, <2>2 DEF InitializeEngineOutput
<1>8. ASSUME NEW pc, pc # "prepare", r.pc \in Between, sess' = [sess EXCEPT ![s].pc = pc] PROVE Onward(s)
  <2> PICK z : z = [r EXCEPT !.pc = pc]
    OBVIOUS
  <2>1. sess' = [sess EXCEPT ![s] = z]
    BY <1>8
  <2>2. z.opt = r.opt /\ z.at = r.at /\ z.maps = r.maps /\ z.built = r.built /\ z.pc # "prepare"
    BY <1>2, <1>8 DEF Has, CompileFields
  <2> QED
    BY <1>6, <1>8, <2>1, <2>2
<1>9. CASE BuildEngine(s)
  <2>0. r.pc \in Between
    BY <1>9 DEF BuildEngine, At, Between
  <2> PICK b : b = EngineBytes(NodeOf(s), sess[s].opt.stripped, TRUE)
    OBVIOUS
  <2>1. CASE sess' = [sess EXCEPT ![s].bytes = b, ![s].pc = "finalize"]
    <3> PICK z : z = [r EXCEPT !.bytes = b, !.pc = "finalize"]
      OBVIOUS
    <3>1. sess' = [sess EXCEPT ![s] = z]
      BY <2>1
    <3>2. z.opt = r.opt /\ z.at = r.at /\ z.maps = r.maps /\ z.built = r.built /\ z.pc # "prepare"
      BY <1>2 DEF Has, CompileFields
    <3> QED
      BY <1>6, <2>0, <3>1, <3>2
  <2>2. CASE sess' = [sess EXCEPT ![s].pc = "finalize"]
    BY <1>8, <2>0, <2>2
  <2> QED
    BY <1>4, <1>9, <2>1, <2>2 DEF BuildEngine
<1>10. CASE FinalizeEngineOutput(s) \/ (IsCompile(s) /\ CreateBuiltContext(s)) \/ SkipExport(s)
  <2>0. r.pc \in Between
    BY <1>10 DEF FinalizeEngineOutput, CreateBuiltContext, SkipExport, At, Between
  <2>1. \/ FailCompile(s)
        \/ \E pc \in {"export", "deserialize", "end", "context"} : sess' = [sess EXCEPT ![s].pc = pc]
    BY <1>10 DEF FinalizeEngineOutput, CreateBuiltContext, SkipExport, AfterExport
  <2> QED
    BY <1>4, <1>8, <2>0, <2>1
<1>11. CASE DeserializeBuilt(s)
  <2>0. r.pc \in Between
    BY <1>11 DEF DeserializeBuilt, At, Between
  <2> PICK b : b = OutputBytes(s)
    OBVIOUS
  <2> PICK e : e = Deserialized(b)
    OBVIOUS
  <2> PICK w : w = WeightBytes(b)
    OBVIOUS
  <2>1. CASE sess' = [sess EXCEPT ![s].bytes = b, ![s].engine = e, ![s].memory = w, ![s].pc = "export"]
    <3> PICK z : z = [r EXCEPT !.bytes = b, !.engine = e, !.memory = w, !.pc = "export"]
      OBVIOUS
    <3>1. sess' = [sess EXCEPT ![s] = z]
      BY <2>1
    <3>2. z.opt = r.opt /\ z.at = r.at /\ z.maps = r.maps /\ z.built = r.built /\ z.pc # "prepare"
      BY <1>2 DEF Has, CompileFields
    <3> QED
      BY <1>6, <2>0, <3>1, <3>2
  <2> QED
    BY <1>4, <1>11, <2>1 DEF DeserializeBuilt
<1>12. CASE CreateEPContextNode(s)
  <2>0. r.pc \in Between
    BY <1>12 DEF CreateEPContextNode, At, Between
  <2>1. CASE FailCompile(s)
    BY <1>4, <2>1
  <2>2. ASSUME NEW node, sess' = [sess EXCEPT ![s].pc = AfterExport(sess[s].opt), ![s].exported = Append(@, node),
                                              ![s].preserved = sess[s].out = CachePath(s)]
        PROVE  Onward(s)
    <3> PICK kept : kept = (sess[s].out = CachePath(s))
      OBVIOUS
    <3> PICK z : z = [r EXCEPT !.pc = AfterExport(r.opt), !.exported = Append(@, node), !.preserved = kept]
      OBVIOUS
    <3>1. sess' = [sess EXCEPT ![s] = z]
      BY <2>2
    <3>2. z.opt = r.opt /\ z.at = r.at /\ z.maps = r.maps /\ z.built = r.built /\ z.pc # "prepare"
      BY <1>2 DEF Has, CompileFields, AfterExport
    <3> QED
      BY <1>6, <2>0, <3>1, <3>2
  <2> QED
    BY <1>12, <2>1, <2>2 DEF CreateEPContextNode
<1>13. CASE EndNode(s)
  <2> PICK pc : pc = (IF sess[s].at = Len(Nodes) THEN "publish" ELSE "prepare")
    OBVIOUS
  <2> PICK at : at = (IF r.at = Len(Nodes) THEN r.at ELSE r.at + 1)
    OBVIOUS
  <2> PICK z : z = [r EXCEPT !.pc = pc, !.at = at, !.out = Nowhere, !.open = FALSE, !.preserved = FALSE,
                             !.bytes = NoFile, !.engine = NoEngine, !.memory = <<>>]
    OBVIOUS
  <2>1. sess' = [sess EXCEPT ![s] = z]
    BY <1>13 DEF EndNode
  <2>2. z.opt = r.opt /\ z.at = at /\ z.maps = r.maps /\ z.built = r.built /\ z.pc = pc
    BY <1>2 DEF Has, CompileFields
  <2>3. r.pc \in Between
    BY <1>13 DEF EndNode, At, Between
  <2>4. Moves(r, z)
    BY <2>2, <2>3 DEF Moves, Between
  <2> QED
    BY <1>3, <2>1, <2>2, <2>4
<1>14. CASE Unwind(s)
  <2> PICK z : z = [r EXCEPT !.pc = "failed", !.out = Nowhere, !.exported = <<>>]
    OBVIOUS
  <2>1. sess' = [sess EXCEPT ![s] = z]
    BY <1>14 DEF Unwind
  <2>2. z.opt = r.opt /\ Moves(r, z)
    BY <1>2 DEF Has, CompileFields, Moves, Between
  <2> QED
    BY <1>3, <2>1, <2>2
<1>15. CASE Publish(s)
  <2> PICK z : z = [r EXCEPT !.pc = "compiled"]
    OBVIOUS
  <2>1. sess' = [sess EXCEPT ![s] = z]
    BY <1>15 DEF Publish
  <2>2. z.opt = r.opt /\ Moves(r, z)
    BY <1>2 DEF Has, CompileFields, Moves, Between
  <2> QED
    BY <1>3, <2>1, <2>2
<1> QED
  BY <1>5, <1>7, <1>9, <1>10, <1>11, <1>12, <1>13, <1>14, <1>15 DEF CompileStep

\* The profiles a session built, one list per node begun, are right.
BuiltRight(r) ==
  /\ MapsOK(UserShapes(r.opt), r.maps) /\ IsSeq(r.built)
  /\ r.pc = "prepare" => Len(r.built) = r.at - 1
  /\ r.pc \in Between => Len(r.built) = r.at
  /\ \A k \in DOMAIN r.built : ProfilesTrue(UserShapes(r.opt), NodeInfo[Nodes[k]].inputs, r.built[k])
AllBuiltRight == \A s \in Sessions : IsCompile(s) => BuiltRight(sess[s])

\* A new session has the user's maps.
LEMMA NewBuiltRight ==
  ASSUME ProfilesFit, NEW o \in CompileOptions
  PROVE  BuiltRight(NewCompile(o))
<1> PICK z : z = NewCompile(o)
  OBVIOUS
<1>1. z.pc = "prepare" /\ z.at = 1 /\ z.built = <<>> /\ z.opt = o /\ z.maps = UserShapes(o)
  BY DEF NewCompile, UserShapes
<1>2. MapsOK(UserShapes(z.opt), z.maps)
  BY <1>1, UserMaps
<1>3. IsSeq(<<>>) /\ Len(<<>>) = 0 /\ DOMAIN <<>> = {}
  BY DEF IsSeq, ToSet
<1> QED
  BY <1>1, <1>2, <1>3 DEF BuiltRight, Between

\* A compile goes on with them right.
LEMMA OnwardRight ==
  ASSUME InputsTyped, ProfilesFit, NEW r, NEW z, r.opt \in CompileOptions, r.at \in Nat,
         Of(r) \in DOMAIN NodeInfo, BuiltRight(r), z.opt = r.opt, BuildsNext(r, z) \/ Moves(r, z)
  PROVE  BuiltRight(z)
<1> PICK u : u = UserShapes(r.opt)
  OBVIOUS
<1>1. /\ MapsOK(u, r.maps) /\ IsSeq(r.built)
      /\ \A k \in DOMAIN r.built : ProfilesTrue(u, NodeInfo[Nodes[k]].inputs, r.built[k])
  BY DEF BuiltRight
<1>2. CASE Moves(r, z)
  <2>1. z.maps = r.maps /\ z.built = r.built
    BY <1>2 DEF Moves
  <2>2. z.pc = "prepare" => Len(z.built) = z.at - 1
    BY <1>2, <2>1 DEF Moves, BuiltRight
  <2>3. z.pc \in Between => Len(z.built) = z.at
    BY <1>2, <2>1 DEF Moves, BuiltRight
  <2> QED
    BY <1>1, <2>1, <2>2, <2>3 DEF BuiltRight
<1>3. CASE BuildsNext(r, z)
  <2>1. PICK p \in BuiltProfiles(r.maps, NodeInfo[Of(r)].inputs) : z.maps = p.maps /\ z.built = Append(r.built, p.profiles)
    BY <1>3 DEF BuildsNext
  <2> PICK n : n = Of(r)
    OBVIOUS
  <2>2. MapsOK(u, p.maps) /\ ProfilesTrue(u, NodeInfo[n].inputs, p.profiles)
    BY <1>1, BuiltTrue
  <2> PICK q : q = r.built
    OBVIOUS
  <2> PICK x : x = p.profiles
    OBVIOUS
  <2>3. /\ IsSeq(Append(q, x)) /\ Len(q) \in Nat /\ Len(Append(q, x)) = Len(q) + 1
        /\ \A i \in 1 .. Len(q) : Append(q, x)[i] = q[i]
        /\ Append(q, x)[Len(q) + 1] = x
    BY <1>1, Appended
  <2>4. Len(q) = r.at - 1 /\ z.pc = "open" /\ z.at = r.at
    BY <1>3 DEF BuildsNext, BuiltRight
  <2> PICK b : b = Append(q, x)
    OBVIOUS
  <2>5. z.built = b
    BY <2>1
  <2>6. DOMAIN b = 1 .. r.at /\ DOMAIN q = 1 .. r.at - 1 /\ Len(b) = r.at
    <3>1. DOMAIN q = 1 .. Len(q) /\ DOMAIN b = 1 .. Len(b)
      BY <1>1, <2>3, LenProperties DEF IsSeq
    <3> QED
      BY <2>3, <2>4, <3>1
  <2>7. ASSUME NEW k \in DOMAIN b PROVE ProfilesTrue(u, NodeInfo[Nodes[k]].inputs, b[k])
    <3>1. CASE k = r.at
      <4>1. b[k] = x /\ Nodes[k] = n
        BY <2>3, <2>4, <3>1 DEF Of
      <4> QED
        BY <2>2, <4>1
    <3>2. CASE k # r.at
      <4>1. k \in DOMAIN q /\ b[k] = q[k]
        BY <2>3, <2>4, <2>6, <3>2
      <4> QED
        BY <1>1, <4>1
    <3> QED
      BY <3>1, <3>2
  <2>8. MapsOK(u, z.maps) /\ IsSeq(b)
    BY <2>1, <2>2, <2>3
  <2>9. z.pc # "prepare" /\ (z.pc \in Between => Len(b) = z.at)
    BY <2>4, <2>6
  <2> QED
    BY <2>5, <2>7, <2>8, <2>9 DEF BuiltRight
<1> QED
  BY <1>2, <1>3

\* A session's step keeps them right.
LEMMA BuiltStep ==
  ASSUME EpContextAssumption, OwnDirectories, InputsTyped, ProfilesFit, SessionsOK, AllBuiltRight, NEW s \in Sessions,
         StartCompile(s) \/ StartLoad(s) \/ Step(s)
  PROVE  AllBuiltRight'
<1>1. sess' = [t \in Sessions |-> sess'[t]] /\ \A t \in Sessions : t # s => sess'[t] = sess[t]
  BY ModelsGrow
<1> SUFFICES ASSUME NEW t \in Sessions, "at" \in DOMAIN sess'[t] PROVE BuiltRight(sess'[t])
  BY DEF AllBuiltRight, IsCompile
<1>2. CASE t # s
  <2>1. sess'[t] = sess[t]
    BY <1>1, <1>2
  <2> QED
    BY <2>1 DEF AllBuiltRight, IsCompile
<1>3. CASE t = s /\ StartCompile(s)
  <2>1. PICK o \in CompileOptions : sess' = [sess EXCEPT ![s] = NewCompile(o)]
    BY <1>3 DEF StartCompile
  <2>2. sess'[s] = NewCompile(o)
    BY <2>1 DEF SessionsOK
  <2> QED
    BY <1>3, <2>2, NewBuiltRight
<1>4. CASE t = s /\ StartLoad(s)
  <2>1. PICK o \in LoadOptions, m \in models : sess' = [sess EXCEPT ![s] = NewLoad(o, m)]
    BY <1>4 DEF StartLoad
  <2>2. sess'[s] = NewLoad(o, m)
    BY <2>1 DEF SessionsOK
  <2> QED
    BY <1>4, <2>2 DEF NewLoad
<1>5. CASE t = s /\ CompileStep(s)
  <2>1. PICK z : /\ sess' = [sess EXCEPT ![s] = z] /\ z.opt = sess[s].opt
                 /\ BuildsNext(sess[s], z) \/ Moves(sess[s], z)
    BY <1>5, CompilesOnward DEF Onward
  <2> PICK r : r = sess[s]
    OBVIOUS
  <2>2. sess'[s] = z
    BY <2>1 DEF SessionsOK
  <2>3. Compiles(s, r, files, store) /\ IsCompile(s)
    <3>1. r.pc \in CompilePcs \ {"context", "failed", "crashed"} \/ IsCompile(s)
      BY <1>5 DEF CompileStep, ParseNode, InitializeEngineOutput, BuildEngine, FinalizeEngineOutput, DeserializeBuilt,
             CreateEPContextNode, SkipExport, EndNode, Unwind, Publish, At, CompilePcs
    <3> QED
      BY <3>1, Kinds
  <2>4. r.opt \in CompileOptions /\ r.at \in DOMAIN Nodes
    BY <2>3 DEF Compiles, HelperOK, CompileTypes
  <2>5. r.at \in Nat /\ Of(r) \in DOMAIN NodeInfo
    <3>1. Nodes \in Seq(DOMAIN NodeInfo)
      BY DEF EpContextAssumption
    <3> QED
      BY <2>4, <3>1, LenProperties, ElementOfSeq DEF Of
  <2>6. BuiltRight(r)
    BY <2>3 DEF AllBuiltRight
  <2>7. BuiltRight(z)
    BY <2>1, <2>4, <2>5, <2>6, OnwardRight
  <2> QED
    BY <1>5, <2>2, <2>7
<1>6. CASE t = s /\ LoadStep(s)
  <2>1. PICK z : sess' = [sess EXCEPT ![s] = z] /\ Loads(z)
    BY <1>6, LoadsBecome
  <2>2. sess'[s] = z
    BY <2>1 DEF SessionsOK
  <2> QED
    BY <1>6, <2>1, <2>2 DEF Loads, Has, LoadFields
<1> QED
  BY <1>2, <1>3, <1>4, <1>5, <1>6 DEF Step

\* So does a crash.
LEMMA BuiltCrash ==
  ASSUME SessionsOK, AllBuiltRight, Crash
  PROVE  AllBuiltRight'
<1> SUFFICES ASSUME NEW s \in Sessions, "at" \in DOMAIN sess'[s] PROVE BuiltRight(sess'[s])
  BY DEF AllBuiltRight, IsCompile
<1>1. sess'[s] = IF Running(s) THEN [sess[s] EXCEPT !.pc = "crashed"] ELSE sess[s]
  BY DEF Crash
<1>2. IsCompile(s)
  BY <1>1 DEF IsCompile
<1>3. Has(sess[s], CompileFields) /\ BuiltRight(sess[s])
  BY <1>2, Kinds DEF AllBuiltRight, Compiles, HelperOK, CompileTypes
<1> PICK r : r = sess[s]
  OBVIOUS
<1>4. CASE sess'[s] = [r EXCEPT !.pc = "crashed"]
  <2> PICK z : z = [r EXCEPT !.pc = "crashed"]
    OBVIOUS
  <2>1. z.pc = "crashed" /\ z.opt = r.opt /\ z.maps = r.maps /\ z.built = r.built
    BY <1>3 DEF Has, CompileFields
  <2>2. BuiltRight(z)
    BY <1>3, <2>1 DEF BuiltRight, Between
  <2> QED
    BY <1>4, <2>2
<1> QED
  BY <1>1, <1>3, <1>4

(***************************************************************************)
(* ProfilesMatchInputs holds in every behaviour, for any nodes, inputs and *)
(* options: the implicit entries an earlier node left in the maps are      *)
(* those a later node would make for an input of that name, as long as the *)
(* name says the shape and an input without entries of the user's meets    *)
(* one profile only.                                                       *)
(***************************************************************************)
THEOREM ProfilesMatch ==
  ASSUME OwnDirectories, InputsTyped, ProfilesFit
  PROVE  Spec => []ProfilesMatchInputs
<1> USE EpContextAssumption
<1> DEFINE Inv == EnginesInv /\ AllBuiltRight
<1>1. Init => Inv
  BY EnginesInit DEF Init, AllBuiltRight, IsCompile, Idle
<1>2. Inv /\ [Next]_vars => Inv'
  <2> SUFFICES ASSUME EnginesInv, AllBuiltRight, [Next]_vars PROVE Inv'
    OBVIOUS
  <2>0. SessionsOK
    BY DEF EnginesInv
  <2>1. CASE UNCHANGED vars
    <3>1. UNCHANGED <<files, store, models, sess>>
      BY <2>1 DEF vars
    <3>2. EnginesInv'
      BY <3>1 DEF EnginesInv, SessionsOK, SessionOK, Attributed, LeftOwned, Exported, IsCompile, Partial
    <3>3. AllBuiltRight'
      BY <3>1 DEF AllBuiltRight, IsCompile
    <3> QED
      BY <3>2, <3>3
  <2>2. ASSUME NEW s \in Sessions, StartCompile(s) \/ StartLoad(s) \/ Step(s) PROVE Inv'
    <3>1. StepOK(s)
      BY <2>0, <2>2, EveryStepOK
    <3>2. EnginesInv'
      BY <3>1, EnginesStep
    <3>3. AllBuiltRight'
      BY <2>0, <2>2, BuiltStep
    <3> QED
      BY <3>2, <3>3
  <2>3. CASE Crash
    <3>1. EnginesInv'
      BY <2>3, EnginesCrash
    <3>2. AllBuiltRight'
      BY <2>0, <2>3, BuiltCrash
    <3> QED
      BY <3>1, <3>2
  <2> QED
    BY <2>1, <2>2, <2>3 DEF Next
<1>3. Inv => ProfilesMatchInputs
  <2> SUFFICES ASSUME AllBuiltRight PROVE ProfilesMatchInputs
    OBVIOUS
  <2>1. ASSUME NEW s \in Sessions, IsCompile(s), NEW k \in DOMAIN sess[s].built
        PROVE  ProfilesTrue(UserShapes(sess[s].opt), NodeInfo[Nodes[k]].inputs, sess[s].built[k])
    BY <2>1 DEF AllBuiltRight, BuiltRight
  <2> QED
    BY <2>1, Zenon DEF ProfilesMatchInputs, ProfilesTrue, Sides
<1> QED
  BY <1>1, <1>2, <1>3, PTL DEF Spec

=============================================================================
