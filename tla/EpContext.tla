------------------------------ MODULE EpContext ------------------------------
(***************************************************************************)
(* Engines: sessions that compile fused nodes (CompileImpl, CreateNode-    *)
(* ComputeInfoFromGraph, EPContextNodeHelper) and sessions that load the   *)
(* EPContext models such a compile exported (CreateNodeComputeInfoFrom-    *)
(* PrecompiledEngine, EPContextNodeReader), over one file system and one   *)
(* process-wide API lock.  Files are truncated, written and removed in     *)
(* steps of their own, any step that can fail may fail, and the process    *)
(* may crash and be restarted between any two.                             *)
(*                                                                         *)
(* An engine's bytes are [node, stripped, whole]: which fused node they    *)
(* were built from, whether the weights were stripped, and whether all of  *)
(* them are there.  ONNX Runtime writes the EPContext model only when the  *)
(* whole Compile call succeeded (Publish).                                 *)
(***************************************************************************)
EXTENDS WeightlessRefit, EngineProfiles, StreamReader

CONSTANTS
    Sessions,
    Nodes,            \* the fused nodes of the model, in the order of Compile
    NodeInfo,         \* per node: records, refittable, data, kept, inputs, plan
    CompileOptions,   \* the settings compiling sessions are created with
    LoadOptions,      \* the settings loading sessions are created with
    CacheRoot,        \* per session, the directory of its engine files
    InitialFiles, InitialStore, InitialModels,
    MayCrash,
    NoOne, NoFile,
    StreamingThreshold    \* kEngineStreamingThresholdBytes

\* ONNX Runtime names the fused nodes of a model apart; a plan is at least its
\* header.
NodeTypes(info) ==
    /\ info.records \in Seq(WeightlessRefitRecord)
    /\ info.refittable \subseteq STRING /\ info.kept \subseteq STRING
    /\ info.plan \in Seq(Nat) \ {<<>>}

ASSUME EpContextAssumption ==
    /\ NoOne \notin Sessions
    /\ MayCrash \in BOOLEAN
    /\ ReaderAccepted
    /\ Nodes \in Seq(DOMAIN NodeInfo) \ {<<>>}
    /\ \A i, j \in DOMAIN Nodes : Nodes[i] = Nodes[j] => i = j
    /\ \A n \in DOMAIN NodeInfo : NodeTypes(NodeInfo[n])
    /\ NoFile \notin [node : DOMAIN NodeInfo, stripped : BOOLEAN, whole : BOOLEAN]
    /\ \A o \in CompileOptions :
          {o.compileOnly, o.dump, o.embed, o.callbacks, o.stripped} \subseteq BOOLEAN
    /\ \A o \in LoadOptions : {o.stripped, o.callbacks, o.budget} \subseteq BOOLEAN

VARIABLES
    files,     \* path -> engine bytes
    store,     \* what the application's write callback was given: path -> bytes
    models,    \* the EPContext nodes of published models
    lock,      \* the holder of GetApiLock, or NoOne
    sess       \* per session, the execution provider and its call in progress

vars == <<files, store, models, lock, sess>>

-----------------------------------------------------------------------------
(* Engines and files *)

Exists(path) == path \in DOMAIN files
Written(fs, path, bytes) ==
    [p \in DOMAIN fs \cup {path} |-> IF p = path THEN bytes ELSE fs[p]]
Removed(fs, path) == Restrict(fs, DOMAIN fs \ {path})

EngineBytes(n, stripped, whole) == [node |-> n, stripped |-> stripped, whole |-> whole]

Plan(bytes) ==
    IF bytes.whole THEN NodeInfo[bytes.node].plan
    ELSE SubSeq(NodeInfo[bytes.node].plan, 1, 1)
\* The first byte of a plan is its header, the rest are its weights.
WeightBytes(bytes) == Tail(Plan(bytes))

Unset == [by |-> -1, of |-> <<>>]
TrueWeights(n) ==
    LET info == NodeInfo[n]
        used == FilterRefitRecordsToEngine(info.records, info.refittable)
    IN  [w \in info.refittable |->
            RecordValue(used[SelectLastInSeq(used, LAMBDA r : r.trt_name = w)], info.data)]

NoEngine == [node |-> NoOne, weights |-> <<>>]
\* deserializeCudaEngine: a stripped engine comes up with nothing set.
Deserialized(bytes) ==
    [node |-> bytes.node,
     weights |-> IF bytes.stripped
                 THEN [w \in NodeInfo[bytes.node].refittable |-> Unset]
                 ELSE TrueWeights(bytes.node)]

-----------------------------------------------------------------------------
(* The sessions *)

Idle == [pc |-> "idle"]
Nowhere == <<"nowhere">>
InMemory == <<"memory">>

\* What the constructor takes from the options: the profiles, and embed mode
\* and the cache directory only matter when a context model is dumped.
NewCompile(o) ==
    [pc |-> "prepare", opt |-> o, at |-> 1, out |-> Nowhere, open |-> FALSE,
     preserved |-> FALSE, bytes |-> NoFile, captured |-> <<>>, engine |-> NoEngine,
     memory |-> <<>>, exported |-> <<>>, built |-> <<>>,
     maps |-> ProfilesFromOptions(o.min, o.max, o.opt)]

NewLoad(o, m) ==
    [pc |-> "locate", opt |-> o, model |-> m, from |-> NoFile, refit |-> o.stripped,
     complete |-> FALSE, bytes |-> NoFile, engine |-> NoEngine, memory |-> <<>>,
     reader |-> NewReader(0), wanted |-> 0, why |-> "none"]

Running(s) == sess[s].pc \notin {"idle", "ready", "compiled", "failed", "crashed"}
IsCompile(s) == "at" \in DOMAIN sess[s]
IsLoad(s) == "model" \in DOMAIN sess[s]
NodeOf(s) == Nodes[sess[s].at]
At(s, pc) == sess[s].pc = pc

Unlocked(s) == IF lock = s THEN NoOne ELSE lock

\* A compile that returns an error: locks are released, then the helper of
\* the node in progress is destroyed (Unwind).
FailCompile(s) ==
    /\ sess' = [sess EXCEPT ![s].pc = "unwind"]
    /\ lock' = Unlocked(s)

FailLoad(s, why) == sess' = [sess EXCEPT ![s].pc = "failed", ![s].why = why]

StartCompile(s) ==
    /\ At(s, "idle")
    /\ \E o \in CompileOptions : sess' = [sess EXCEPT ![s] = NewCompile(o)]
    /\ UNCHANGED <<files, store, models, lock>>

StartLoad(s) ==
    /\ At(s, "idle")
    /\ \E o \in LoadOptions, m \in models : sess' = [sess EXCEPT ![s] = NewLoad(o, m)]
    /\ UNCHANGED <<files, store, models, lock>>

-----------------------------------------------------------------------------
(* Compiling a node *)

CachePath(s) == <<CacheRoot[s], NodeOf(s), "engine">>
TempPath(s) == <<"temp", s, NodeOf(s)>>

\* can_stream_to_final_cache
StreamsToCache(o) == o.dump /\ ~o.embed /\ ~o.callbacks

\* InitializeEngineOutput: opening the file truncates it.  Nothing checks that
\* the cache file could be opened; without a temporary directory the engine is
\* built in memory.
OpenOutput(s, path, opens) ==
    /\ files' = IF opens THEN Written(files, path, EngineBytes(NodeOf(s), FALSE, FALSE))
                ELSE files
    /\ sess' = [sess EXCEPT ![s].out = path, ![s].open = opens, ![s].pc = "build"]

InitializeEngineOutput(s) ==
    /\ At(s, "open")
    /\ IF StreamsToCache(sess[s].opt)
       THEN \E opens \in BOOLEAN : OpenOutput(s, CachePath(s), opens)
       ELSE \/ OpenOutput(s, TempPath(s), TRUE)
            \/ /\ sess' = [sess EXCEPT ![s].out = InMemory, ![s].pc = "build"]
               /\ UNCHANGED files
    /\ UNCHANGED <<store, models, lock>>

\* WeightlessRefitCaptureObserver: the parser's records, or none at all when
\* copying one failed.
Captured(s) ==
    IF sess[s].opt.stripped THEN {NodeInfo[NodeOf(s)].records, Corrupt} ELSE {<<>>}

\* The parse, the profiles and the builder flags.
ParseNode(s) ==
    /\ At(s, "prepare")
    /\ \/ \E p \in BuiltProfiles(sess[s].maps, NodeInfo[NodeOf(s)].inputs),
             records \in Captured(s) :
            /\ p.ok
            /\ sess' = [sess EXCEPT ![s].pc = "open", ![s].captured = records,
                                    ![s].maps = p.maps,
                                    ![s].built = Append(@, p.profiles)]
            /\ UNCHANGED lock
       \/ FailCompile(s)
    /\ UNCHANGED <<files, store, models>>

\* buildSerializedNetwork(ToStream) under the API lock; a build that fails
\* leaves what it wrote.
BuildEngine(s) ==
    /\ At(s, "build")
    /\ lock = NoOne
    /\ LET bytes == EngineBytes(NodeOf(s), sess[s].opt.stripped, TRUE) IN
       \/ /\ sess[s].out = InMemory
          /\ sess' = [sess EXCEPT ![s].bytes = bytes, ![s].pc = "finalize"]
          /\ lock' = s
          /\ UNCHANGED files
       \/ /\ sess[s].out # InMemory /\ sess[s].open
          /\ files' = Written(files, sess[s].out, bytes)
          /\ sess' = [sess EXCEPT ![s].pc = "finalize"]
          /\ lock' = s
       \/ FailCompile(s) /\ UNCHANGED files
    /\ UNCHANGED <<store, models>>

\* What the helper's output holds; GetEngineData reads it once and keeps it.
OutputBytes(s) ==
    IF sess[s].bytes # NoFile THEN sess[s].bytes
    ELSE IF Exists(sess[s].out) THEN files[sess[s].out] ELSE NoFile
OutputWhole(s) == OutputBytes(s) # NoFile /\ OutputBytes(s).whole

\* FinalizeEngineOutput and the header check: a size and a header, which a part
\* of an engine has too.
FinalizeEngineOutput(s) ==
    /\ At(s, "finalize")
    /\ \/ /\ OutputBytes(s) # NoFile
          /\ sess' = [sess EXCEPT ![s].pc =
                          IF sess[s].opt.compileOnly THEN "export" ELSE "deserialize"]
          /\ UNCHANGED lock
       \/ FailCompile(s)
    /\ UNCHANGED <<files, store, models>>

\* The session's own engine, still under the lock; a stripped one is not refitted.
DeserializeBuilt(s) ==
    /\ At(s, "deserialize")
    /\ \/ /\ OutputWhole(s)
          /\ sess' = [sess EXCEPT ![s].bytes = OutputBytes(s),
                                  ![s].engine = Deserialized(OutputBytes(s)),
                                  ![s].memory = WeightBytes(OutputBytes(s)),
                                  ![s].pc = "export"]
          /\ UNCHANGED lock
       \/ FailCompile(s)
    /\ UNCHANGED <<files, store, models>>

-----------------------------------------------------------------------------
(* Exporting the EPContext node *)

\* The initializers still among the fused node's inputs: partitioning drops
\* them unless the weight-stripped option is set.
SurvivingInputs(o, n) == IF o.stripped THEN NodeInfo[n].kept ELSE {}

\* The sources of the first record only.
KeptInputsOfFirst(o, n, records) ==
    IF records = <<>> THEN {}
    ELSE SourceNames(<<Head(records)>>) \cap SurvivingInputs(o, n)

\* The refit sources CreateEPContextNode keeps as inputs of the node.
KeptInputs(o, n, records) == SourceNames(records) \cap SurvivingInputs(o, n)

MissingSources(o, n, records) == SourceNames(records) \ KeptInputs(o, n, records)
WithoutMissing(records, missing) ==
    Picked(records, {i \in DOMAIN records :
                        ToSet(records[i].source_onnx_names) \cap missing = {}})

\* What is to be exported: the parser's records, filtered against the engine
\* when one was deserialized and a refitter could be made for it.
RefitRecords(s, filtered) ==
    IF filtered
    THEN FilterRefitRecordsToEngine(sess[s].captured, NodeInfo[NodeOf(s)].refittable)
    ELSE sess[s].captured

\* The table of the node: what has lost a source is left out.
ExportedRecords(s, filtered) ==
    LET records == RefitRecords(s, filtered)
    IN  WithoutMissing(records, MissingSources(sess[s].opt, NodeOf(s), records))

\* The inputs are collected for the records before any is left out.  The path is
\* that of the engine: a load joins what export made relative to the directory of
\* the context model, given that this directory is absolute (the engines are
\* always under it) or the current one.
ExportedNode(s, filtered) ==
    LET records == ExportedRecords(s, filtered)
        o       == sess[s].opt
    IN  [node |-> NodeOf(s), safe |-> TRUE, embed |-> o.embed,
         path |-> IF o.embed THEN <<>> ELSE CachePath(s),
         stored |-> ~o.embed /\ o.callbacks,
         bytes |-> IF o.embed THEN OutputBytes(s) ELSE NoFile,
         table |-> IF o.stripped \/ records # <<>>
                   THEN SerializeWeightlessRefitTable(records) ELSE NoTable,
         inputs |-> KeptInputs(o, NodeOf(s), RefitRecords(s, filtered)),
         records |-> records,
         filtered |-> filtered]

\* Why CreateEPContextNode, or the table's capture, refuses to export.
ExportRefused(s, filtered) ==
    \/ sess[s].captured = Corrupt
    \/ /\ filtered
       /\ MissingSources(sess[s].opt, NodeOf(s), RefitRecords(s, filtered)) # {}
    \/ sess[s].opt.stripped /\ ExportedNode(s, filtered).table = NoTable

MayFilter(s) ==
    IF sess[s].opt.stripped /\ sess[s].engine # NoEngine THEN BOOLEAN ELSE {FALSE}

AfterExport(o) == IF o.compileOnly THEN "end" ELSE "context"

CreateEPContextNode(s) ==
    /\ At(s, "export")
    /\ sess[s].opt.dump
    /\ \E filtered \in MayFilter(s), written \in BOOLEAN :
          LET node == ExportedNode(s, filtered) IN
          /\ written => ~ExportRefused(s, filtered) /\ (node.stored \/ node.embed => OutputWhole(s))
          /\ store' = IF written /\ node.stored
                      THEN Written(store, node.path, OutputBytes(s)) ELSE store
          /\ \/ /\ written
                /\ lock' = NoOne
                /\ sess' = [sess EXCEPT ![s].pc = AfterExport(sess[s].opt),
                                        ![s].exported = Append(@, node),
                                        ![s].preserved = sess[s].out = CachePath(s)]
             \/ FailCompile(s)
    /\ UNCHANGED <<files, models>>

\* A session that does not dump leaves the locked block here.
SkipExport(s) ==
    /\ At(s, "export")
    /\ ~sess[s].opt.dump
    /\ lock' = NoOne
    /\ sess' = [sess EXCEPT ![s].pc = AfterExport(sess[s].opt)]
    /\ UNCHANGED <<files, store, models>>

\* CreateOwnedExecutionContext and the compute state.
CreateBuiltContext(s) ==
    /\ At(s, "context")
    /\ \/ sess' = [sess EXCEPT ![s].pc = "end"] /\ UNCHANGED lock
       \/ FailCompile(s)
    /\ UNCHANGED <<files, store, models>>

\* A destructor that was never told the output is in use.
DiscardsAlways(s) == sess[s].out \notin {Nowhere, InMemory}

\* A destructor that keeps what it wrote to the cache directory.
DiscardsTemporary(s) == sess[s].out = TempPath(s)

\* ~EPContextNodeHelper: the output goes unless the exported node refers to it.
Discards(s) == sess[s].out \notin {Nowhere, InMemory} /\ ~sess[s].preserved

FilesAfterHelper(s) == IF Discards(s) THEN Removed(files, sess[s].out) ELSE files

\* The next fused node of CompileImpl's loop, or the end of the call.
EndNode(s) ==
    /\ At(s, "end")
    /\ files' = FilesAfterHelper(s)
    /\ sess' = [sess EXCEPT ![s].pc = IF sess[s].at = Len(Nodes) THEN "publish" ELSE "prepare",
                            ![s].at = IF @ = Len(Nodes) THEN @ ELSE @ + 1,
                            ![s].out = Nowhere, ![s].open = FALSE, ![s].preserved = FALSE,
                            ![s].bytes = NoFile, ![s].engine = NoEngine, ![s].memory = <<>>]
    /\ UNCHANGED <<store, models, lock>>

Unwind(s) ==
    /\ At(s, "unwind")
    /\ files' = FilesAfterHelper(s)
    /\ sess' = [sess EXCEPT ![s].pc = "failed", ![s].out = Nowhere, ![s].exported = <<>>]
    /\ UNCHANGED <<store, models, lock>>

\* ONNX Runtime writes the context model; the session then runs, or is dropped.
Publish(s) ==
    /\ At(s, "publish")
    /\ models' = models \cup ToSet(sess[s].exported)
    /\ sess' = [sess EXCEPT ![s].pc = "compiled"]
    /\ UNCHANGED <<files, store, lock>>

-----------------------------------------------------------------------------
(* Loading an EPContext node *)

\* IsWeightStrippedEngineCache and GetWeightRefittedEnginePath
IsStrippedName(path) == path[3] = "stripped.engine"
RefittedPath(path) == <<path[1], path[2], "engine">>

NeedsRefit(s) == sess[s].refit \/ IsStrippedName(sess[s].model.path)

\* An already refitted engine beside a stripped one is used in its place.
UsesRefittedCache(s) ==
    /\ NeedsRefit(s)
    /\ IsStrippedName(sess[s].model.path)
    /\ Exists(RefittedPath(sess[s].model.path))

LocateEmbedded(s) ==
    sess' = [sess EXCEPT ![s].bytes = sess[s].model.bytes, ![s].pc = "read"]

\* The read callback is asked for the path of the attribute.
LocateFile(s) ==
    LET m    == sess[s].model
        used == UsesRefittedCache(s)
        from == IF used THEN RefittedPath(m.path) ELSE m.path
        next == [sess[s] EXCEPT !.from = from, !.refit = NeedsRefit(s) /\ ~used,
                                !.complete = used, !.pc = "read"]
    IN  IF ~m.safe THEN FailLoad(s, "path")
        ELSE IF sess[s].opt.callbacks
        THEN IF m.path \in DOMAIN store
             THEN sess' = [sess EXCEPT ![s] = [next EXCEPT !.bytes = store[m.path]]]
             ELSE FailLoad(s, "callback")
        ELSE IF Exists(from) THEN sess' = [sess EXCEPT ![s] = next]
        ELSE FailLoad(s, "missing")

LocateEngine(s) ==
    /\ At(s, "locate")
    /\ IF sess[s].model.embed THEN LocateEmbedded(s) ELSE LocateFile(s)
    /\ UNCHANGED <<files, store, models, lock>>

\* Large engine files are streamed, and their weights left for later unless
\* they are to be refitted or streamed under a budget.
Streams(s, bytes) == sess[s].bytes = NoFile /\ Len(Plan(bytes)) >= StreamingThreshold
DefersWeights(s, bytes) == Streams(s, bytes) /\ ~sess[s].opt.budget /\ ~sess[s].refit

\* Deserialization, under the API lock from start to end.
ReadEngine(s) ==
    /\ At(s, "read")
    /\ lock = NoOne
    /\ LET bytes == IF sess[s].bytes # NoFile THEN sess[s].bytes
                    ELSE IF Exists(sess[s].from) THEN files[sess[s].from] ELSE NoFile
       IN IF bytes = NoFile THEN FailLoad(s, "missing")
          ELSE IF ~bytes.whole THEN FailLoad(s, "not an engine")
          ELSE sess' = [sess EXCEPT
                  ![s].engine = Deserialized(bytes),
                  ![s].bytes = bytes,
                  ![s].reader = NewReader(IF DefersWeights(s, bytes)
                                          THEN Len(Plan(bytes)) ELSE 0),
                  ![s].memory =
                      IF DefersWeights(s, bytes)
                      THEN [i \in DOMAIN WeightBytes(bytes) |-> NoByte]
                      ELSE IF Streams(s, bytes)
                      THEN Tail(HostBytes(NewReader(Len(Plan(bytes))), Plan(bytes),
                                          Len(Plan(bytes))))
                      ELSE WeightBytes(bytes),
                  ![s].pc = "refit"]
    /\ UNCHANGED <<files, store, models, lock>>

\* The weights supplied to the node: its initializers, unless partitioning
\* dropped them because the option is not set at load.
SuppliedWeights(s) ==
    [x \in (IF sess[s].opt.stripped THEN sess[s].model.inputs ELSE {}) |->
        NodeInfo[sess[s].model.node].data[x]]

\* TryWeightlessRefit and what GetEpContextFromGraph makes of its result.
RefitFromTable(s) ==
    LET records == DeserializeWeightlessRefitTable(sess[s].model.table)
        result  == WeightlessRefitEngineImpl(records, SuppliedWeights(s),
                       NodeInfo[sess[s].model.node].refittable)
    IN  IF records = Corrupt THEN FailLoad(s, "corrupt table")
        ELSE IF result.status # "ok" THEN FailLoad(s, result.status)
        ELSE sess' = [sess EXCEPT ![s].engine.weights = result.weights,
                                  ![s].pc = "context"]

RefitEngine(s) ==
    /\ At(s, "refit")
    /\ IF sess[s].complete THEN sess' = [sess EXCEPT ![s].pc = "context"]
       ELSE IF sess[s].model.table # NoTable
       THEN RefitFromTable(s) \/ FailLoad(s, "refitter")
       ELSE IF sess[s].refit THEN FailLoad(s, "no table")
       ELSE sess' = [sess EXCEPT ![s].pc = "context"]
    /\ UNCHANGED <<files, store, models, lock>>

CreateLoadedContext(s) ==
    /\ At(s, "context")
    /\ IsLoad(s)
    /\ sess' = [sess EXCEPT ![s].pc = "upload"] \/ FailLoad(s, "context")
    /\ UNCHANGED <<files, store, models, lock>>

-----------------------------------------------------------------------------
(* Deferred weights: TensorRT drives the reader, then the stream is drained *)

WithReader(s, r) == sess' = [sess EXCEPT ![s].reader = r]

\* loadWeightsAsync seeks past the header, in any of the three ways.
SeekWeights(s) ==
    /\ At(s, "upload")
    /\ sess[s].reader.size > 0 /\ sess[s].reader.position = 0
    /\ \E move \in {<<1, "set">>, <<1, "cur">>, <<1 - sess[s].reader.size, "end">>} :
          LET position == Seek(sess[s].reader, move[1], move[2]) IN
          IF position = -1 THEN FailLoad(s, "seek")
          ELSE WithReader(s, [sess[s].reader EXCEPT !.position = position])
    /\ UNCHANGED <<files, store, models, lock>>

RequestWeights(s) ==
    /\ At(s, "upload")
    /\ sess[s].reader.position > 0 /\ sess[s].wanted = 0
    /\ ~sess[s].reader.error
    /\ \E n \in 1..Available(sess[s].reader) : sess' = [sess EXCEPT ![s].wanted = n]
    /\ UNCHANGED <<files, store, models, lock>>

\* The file as it is now, or as it was opened when its name is gone.
OpenFile(s) == IF Exists(sess[s].from) THEN files[sess[s].from] ELSE sess[s].bytes

ReadWeights(s) ==
    /\ At(s, "upload")
    /\ sess[s].wanted > 0
    /\ ~sess[s].reader.error
    /\ \E r \in {FailedRead(sess[s].reader)} \cup
                IF CanUseSlot(sess[s].reader)
                THEN ChunkReads(sess[s].reader, Plan(OpenFile(s)), sess[s].wanted,
                                sess[s].reader.position - 1)
                ELSE {} :
          sess' = [sess EXCEPT ![s].reader = r, ![s].wanted = @ - Payload(@)]
    /\ UNCHANGED <<files, store, models, lock>>

\* The stream runs the oldest upload whenever it likes.
RunUpload(s) ==
    /\ At(s, "upload")
    /\ sess[s].reader.queue # <<>>
    /\ sess' = [sess EXCEPT ![s].memory = UploadHead(sess[s].reader, @),
                            ![s].reader.queue = Tail(@)]
    /\ UNCHANGED <<files, store, models, lock>>

\* A read failed, or TensorRT or the stream did: the reader is destroyed.
FailUpload(s) ==
    /\ At(s, "upload")
    /\ sess[s].reader.size > 0
    /\ MayCleanUp(sess[s].reader)
    /\ FailLoad(s, "upload")
    /\ UNCHANGED <<files, store, models, lock>>

\* cudaStreamSynchronize
Synchronized(s) == sess[s].reader.queue = <<>>

LoadDeferredWeights(s) ==
    /\ At(s, "upload")
    /\ sess[s].reader.position = sess[s].reader.size
    /\ ~sess[s].reader.error
    /\ Synchronized(s)
    /\ sess' = [sess EXCEPT ![s].pc = "ready", ![s].reader = NewReader(0)]
    /\ UNCHANGED <<files, store, models, lock>>

-----------------------------------------------------------------------------
(* The process *)

\* The process dies: every session in it, and the lock, but not the files.
Crash ==
    /\ MayCrash
    /\ \E s \in Sessions : Running(s)
    /\ sess' = [s \in Sessions |->
                    IF Running(s) THEN [sess[s] EXCEPT !.pc = "crashed"] ELSE sess[s]]
    /\ lock' = NoOne
    /\ UNCHANGED <<files, store, models>>

Init ==
    /\ files = InitialFiles
    /\ store = InitialStore
    /\ models = InitialModels
    /\ lock = NoOne
    /\ sess = [s \in Sessions |-> Idle]

CompileStep(s) ==
    \/ ParseNode(s) \/ InitializeEngineOutput(s) \/ BuildEngine(s)
    \/ FinalizeEngineOutput(s) \/ DeserializeBuilt(s)
    \/ CreateEPContextNode(s) \/ SkipExport(s)
    \/ (IsCompile(s) /\ CreateBuiltContext(s))
    \/ EndNode(s) \/ Unwind(s) \/ Publish(s)

LoadStep(s) ==
    \/ LocateEngine(s) \/ ReadEngine(s) \/ RefitEngine(s) \/ CreateLoadedContext(s)
    \/ SeekWeights(s) \/ RequestWeights(s) \/ ReadWeights(s)
    \/ RunUpload(s) \/ FailUpload(s) \/ LoadDeferredWeights(s)

Step(s) == CompileStep(s) \/ LoadStep(s)

Next ==
    \/ \E s \in Sessions : StartCompile(s) \/ StartLoad(s)
    \/ \E s \in Sessions : Step(s)
    \/ Crash

Spec == Init /\ [][Next]_vars

=============================================================================
