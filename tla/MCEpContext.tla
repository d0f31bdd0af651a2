---------------------------- MODULE MCEpContext ------------------------------
(***************************************************************************)
(* Two sessions over a model of two fused nodes.  The plan of `a' is large *)
(* enough to be streamed; its weights come from an initializer, a batch    *)
(* normalization and a constant, and the parser also names one the builder *)
(* folded away.  A source of `b' is pruned before its node is exported.    *)
(***************************************************************************)
EXTENDS EpContextProperties, TLC

CONSTANTS s1, s2

\* The theorems' hypotheses hold here.
ASSUME OwnDirectories /\ UsableRecords /\ WeightsNamedOnce /\ OlderModels
ASSUME InputsTyped /\ ProfilesFit

Record(kind, name, sources, count, data) ==
    [kind |-> kind, onnx_dtype |-> 1, trt_dtype |-> "float", count |-> count,
     epsilon |-> 0, trt_name |-> name, source_onnx_names |-> sources,
     fixed_data |-> data]
Source(x, bytes) == [bytes |-> bytes, value |-> x]

MCNodes == <<"a", "b">>
Batch == <<"scale", "bias", "mean", "var">>
MCNodeInfo ==
    [a |-> [records |-> << Record(Identity, "conv", <<"x">>, 2, <<>>),
                           Record(FoldBias, "bn", Batch, 1, <<>>),
                           Record(Identity, "folded", <<"y">>, 1, <<>>),
                           Record(ConstantNode, "one", <<>>, 1, <<0, 0, 0, 1>>) >>,
            refittable |-> {"conv", "bn", "one"},
            data |-> [n \in {"x"} \cup ToSet(Batch) |->
                        Source(n, IF n = "x" THEN 8 ELSE 4)],
            kept |-> {"x"} \cup ToSet(Batch),
            inputs |-> <<[name |-> "in", dims |-> <<Dynamic, 3>>, shape_tensor |-> FALSE]>>,
            plan |-> <<10, 11, 12, 13, 14, 15>>],
     b |-> [records |-> << Record(DoubleToFloat, "gain", <<"z">>, 1, <<>>) >>,
            refittable |-> {"gain"},
            data |-> [n \in {"z"} |-> Source(n, 8)],
            kept |-> {},
            inputs |-> <<[name |-> "mid", dims |-> <<3, Dynamic>>, shape_tensor |-> FALSE],
                         [name |-> "in", dims |-> <<Dynamic, 3>>, shape_tensor |-> FALSE]>>,
            plan |-> <<20, 21>>]]

Pair(name, dims) == [name |-> name, dims |-> dims]
NoList == <<>>
OneProfile(v) == <<Pair("in", <<v, 3>>)>>
TwoProfiles(v) == <<Pair("in", <<v, 3>>), Pair("mid", <<3, v>>),
                    Pair("in", <<v + 1, 3>>), Pair("mid", <<3, v + 1>>)>>

Compile(compileOnly, dump, embed, callbacks, stripped, min, opt, max) ==
    [compileOnly |-> compileOnly, dump |-> dump, embed |-> embed,
     callbacks |-> callbacks, stripped |-> stripped,
     min |-> min, opt |-> opt, max |-> max]

\* To a file; into the model, stripped; through the callback, stripped; to a
\* file from a session that goes on to run, stripped; no export at all.
MCCompileOptions ==
    { Compile(TRUE, TRUE, FALSE, FALSE, FALSE, NoList, NoList, NoList),
      Compile(TRUE, TRUE, TRUE, FALSE, TRUE, OneProfile(1), OneProfile(2), OneProfile(4)),
      Compile(TRUE, TRUE, FALSE, TRUE, TRUE, NoList, NoList, NoList),
      Compile(FALSE, TRUE, FALSE, FALSE, TRUE, TwoProfiles(1), TwoProfiles(3), TwoProfiles(5)),
      Compile(FALSE, FALSE, FALSE, FALSE, FALSE, NoList, OneProfile(2), OneProfile(2)) }

Load(stripped, callbacks, budget) ==
    [stripped |-> stripped, callbacks |-> callbacks, budget |-> budget]
MCLoadOptions ==
    {Load(FALSE, FALSE, FALSE), Load(TRUE, FALSE, FALSE), Load(TRUE, TRUE, FALSE),
     Load(FALSE, FALSE, TRUE)}

MCCacheRoot == [s \in Sessions |-> s]
Symmetry == Permutations(Sessions)

\* Models of an older tool: a stripped engine, with the refitted one beside it
\* in `old' and without it in `bare'; the callback has the stripped ones too.
Old(root, n, name) ==
    [node |-> n, safe |-> TRUE, embed |-> FALSE, path |-> <<root, n, name>>, stored |-> FALSE,
     bytes |-> NoFile, table |-> NoTable, inputs |-> {}, records |-> <<>>, filtered |-> FALSE]
MCModels ==
    {Old("old", "a", "stripped.engine"), Old("bare", "b", "stripped.engine"),
     [Old("old", "a", "engine") EXCEPT !.safe = FALSE]}
MCFiles ==
    (<<"old", "a", "stripped.engine">> :> EngineBytes("a", TRUE, TRUE))
      @@ (<<"old", "a", "engine">> :> EngineBytes("a", FALSE, TRUE))
      @@ (<<"bare", "b", "stripped.engine">> :> EngineBytes("b", TRUE, TRUE))
MCStore ==
    (<<"old", "a", "stripped.engine">> :> EngineBytes("a", TRUE, TRUE))
      @@ (<<"bare", "b", "stripped.engine">> :> EngineBytes("b", TRUE, TRUE))

=============================================================================
