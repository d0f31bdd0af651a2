------------------------- MODULE EpContextProperties -------------------------
(* What exporting and loading EPContext models must guarantee. *)
EXTENDS EpContext

Exported == models \ InitialModels

(***************************************************************************)
(* Hypothesis on the instance, which the program does not enforce:         *)
(* sessions write their engines to different directories.  Two compiles of *)
(* one model into one directory overwrite each other's engines.            *)
(***************************************************************************)
OwnDirectories ==
    /\ \A s, t \in Sessions : CacheRoot[s] = CacheRoot[t] => s = t
    /\ \A s \in Sessions : CacheRoot[s] # "temp"

\* Hypotheses on the parser.  A refit can use its records, given the model's
\* weights; one that is computed from nothing has no sources.
UsableRecords ==
    \A n \in DOMAIN NodeInfo : \A r \in ToSet(NodeInfo[n].records) :
        /\ IsConstantKind(r.kind) => r.source_onnx_names = <<>>
        /\ r.trt_name \in NodeInfo[n].refittable => RecordUsable(r, NodeInfo[n].data)

\* It does not report one weight in two ways.
WeightsNamedOnce ==
    \A n \in DOMAIN NodeInfo : \A r, t \in ToSet(NodeInfo[n].records) :
        r.trt_name = t.trt_name => r = t

\* Hypotheses on networks and options.  No input is a shape tensor, and what
\* has one name in two fused nodes has one shape.
AllInputs == UNION {ToSet(NodeInfo[n].inputs) : n \in DOMAIN NodeInfo}
InputsTyped ==
    /\ \A n \in DOMAIN NodeInfo : NodeInfo[n].inputs \in
          Seq([name : STRING, dims : Seq(Int), shape_tensor : {FALSE}])
    /\ \A x, y \in AllInputs : x.name = y.name => x.dims = y.dims

\* The three lists of the user are kept together, with shapes of the inputs'
\* ranks and equally many profiles for every input they name; with several
\* profiles they name every dynamic input.
Sides == {"min", "opt", "max"}
UserShapes(o) == ProfilesFromOptions(o.min, o.max, o.opt)
ProfilesFit ==
    \A o \in CompileOptions :
        LET user  == UserShapes(o)
            named == DOMAIN user.min
        IN  /\ \A side \in Sides :
                  /\ user[side] \in [named -> Seq(Seq(Int)) \ {<<>>}]
                  /\ \A name, other \in named :
                        Len(user[side][name]) = Len(user.min[other])
                  /\ \A x \in AllInputs : x.name \in named =>
                        \A shape \in ToSet(user[side][x.name]) :
                            DOMAIN x.dims \subseteq DOMAIN shape
            /\ \/ \A name \in named : Len(user.min[name]) = 1
               \/ \A x \in AllInputs : HasDynamicDim(x) => x.name \in named

\* Hypothesis on what is there before: the models of an older tool lie apart
\* from the sessions' directories; each names its engine, in a file or with the
\* application's callback, and a stripped one has the name that says so; nothing
\* else is asked of them.
OlderEngine(engines, path, n, stripped) ==
    path \in DOMAIN engines =>
        /\ engines[path] # NoFile
        /\ engines[path].whole =>
              engines[path].node = n /\ (engines[path].stripped => stripped)
OlderModels ==
    /\ \A m \in InitialModels :
          /\ m.node \in DOMAIN NodeInfo /\ ~m.embed /\ m.table = NoTable
          /\ m.path[1] # "temp" /\ \A s \in Sessions : m.path[1] # CacheRoot[s]
          /\ OlderEngine(InitialFiles, m.path, m.node, IsStrippedName(m.path))
          /\ OlderEngine(InitialStore, m.path, m.node, IsStrippedName(m.path))
          /\ IsStrippedName(m.path) =>
                OlderEngine(InitialFiles, RefittedPath(m.path), m.node, FALSE)
    /\ \A path \in DOMAIN InitialFiles \cup DOMAIN InitialStore, s \in Sessions :
          path[1] # CacheRoot[s]

\* Where a load will find the engine of a published node.
EngineOf(m) ==
    IF m.embed THEN m.bytes
    ELSE IF m.stored THEN IF m.path \in DOMAIN store THEN store[m.path] ELSE NoFile
    ELSE IF Exists(m.path) THEN files[m.path] ELSE NoFile

(***************************************************************************)
(* A published EPContext node refers to an engine that is there, complete, *)
(* built from that node, and that comes with a refit table exactly when    *)
(* its weights were stripped - whatever builds, failures and crashes       *)
(* follow (EPContextNodeHelper, preserve_serialized_engine_on_destroy_).   *)
(***************************************************************************)
PublishedEnginesComplete ==
    \A m \in Exported :
        /\ EngineOf(m) # NoFile
        /\ EngineOf(m).whole
        /\ EngineOf(m).node = m.node
        /\ EngineOf(m).stripped = (m.table # NoTable)

(***************************************************************************)
(* A temporary engine file, or one that is only partly written, exists     *)
(* only while the compile that is writing it runs, or after a crash of the *)
(* process that was (~EPContextNodeHelper).                                *)
(***************************************************************************)
NothingLeftBehind ==
    \A path \in DOMAIN files \ DOMAIN InitialFiles :
        path[1] = "temp" \/ ~files[path].whole =>
            \E s \in Sessions : /\ IsCompile(s)
                                /\ sess[s].out = path
                                /\ sess[s].pc # "failed"

\* The one load whose refit is not done: the refitted file that exists beside
\* the named engine was taken for what is loaded, but the engine came from the
\* read callback, which is asked for the name in the model, and is stripped.
RefitSkipped(s) == sess[s].opt.callbacks /\ sess[s].complete /\ sess[s].bytes.stripped

(***************************************************************************)
(* A session that loaded an EPContext node runs an engine with every       *)
(* refittable weight set from its own source - except in the load of       *)
(* RefitSkipped, where the code leaves them unset - and with the very      *)
(* bytes of the plan's weights on the device: after the refit, the choice  *)
(* of an already refitted file, and the asynchronous upload through the    *)
(* staging ring (GetEpContextFromGraph, WeightlessRefitEngineImpl,         *)
(* DirectCudaStreamReader, LoadDeferredWeights).                           *)
(***************************************************************************)
LoadedEnginesWhole ==
    \A s \in Sessions :
        IsLoad(s) /\ At(s, "ready") =>
            LET n == sess[s].model.node IN
            /\ sess[s].engine.weights = TrueWeights(n) \/ RefitSkipped(s)
            /\ sess[s].memory = Tail(NodeInfo[n].plan)

(***************************************************************************)
(* A load with the weight-stripped option set is refused for what the      *)
(* table or its sources lack only when the parser did not name a weight of *)
(* the engine or a source it needs was already pruned at export: export    *)
(* drops and filters nothing a load needs (CreateEPContextNode,            *)
(* FilterRefitRecordsToEngine, CollectWeightlessRefitSourceNames).         *)
(***************************************************************************)
NeededRecords(n) == FilterRefitRecordsToEngine(NodeInfo[n].records, NodeInfo[n].refittable)
Refittable(n) ==
    /\ Covers(NeededRecords(n), NodeInfo[n].refittable)
    /\ SourceNames(NeededRecords(n)) \subseteq NodeInfo[n].kept
ExportedTablesSuffice ==
    \A s \in Sessions :
        /\ IsLoad(s) /\ At(s, "failed")
        /\ sess[s].why \in {"uncovered", "unusable record"}
        /\ sess[s].model \in Exported
        /\ sess[s].opt.stripped
        => ~Refittable(sess[s].model.node)

(***************************************************************************)
(* The table stored in a published node reads back as the records that     *)
(* were exported, and neither a part of it nor a longer blob is accepted   *)
(* (Serialize- and DeserializeWeightlessRefitTable).                       *)
(***************************************************************************)
TableRoundTrips ==
    \A m \in Exported :
        m.table # NoTable =>
            /\ DeserializeWeightlessRefitTable(m.table) = m.records
            /\ DeserializeWeightlessRefitTable(Append(m.table, 0)) = Corrupt
            /\ \A n \in 0 .. Len(m.table) - 1 :
                  DeserializeWeightlessRefitTable(SubSeq(m.table, 1, n)) = Corrupt

(***************************************************************************)
(* Every dynamic dimension of every input gets, in every profile of every  *)
(* fused node's engine, the range the user gave for that input or the      *)
(* implicit one, and never an index past a profile list, although implicit *)
(* entries are stored into the maps later nodes take for the user's        *)
(* (CreateNodeComputeInfoFromGraph).                                       *)
(***************************************************************************)
ImplicitValue == [min |-> 0, opt |-> 1, max |-> MaxDim]
ProfilesMatchInputs ==
    \A s \in Sessions : IsCompile(s) =>
        \A k \in DOMAIN sess[s].built : \A i \in DOMAIN sess[s].built[k] :
            \A j \in DOMAIN NodeInfo[Nodes[k]].inputs :
                LET input == NodeInfo[Nodes[k]].inputs[j]
                    user  == UserShapes(sess[s].opt)
                IN  \A d \in DOMAIN input.dims : \A side \in Sides :
                        sess[s].built[k][i][input.name][side][d] =
                            IF input.dims[d] # Dynamic THEN input.dims[d]
                            ELSE IF HasProfile(user, input.name)
                            THEN user[side][input.name][i][d]
                            ELSE ImplicitValue[side]
=============================================================================
