------------------------- MODULE SessionProperties -------------------------
(***************************************************************************)
(* What a session's compute path and its weight-streaming budget must      *)
(* guarantee, and a comment of the code about them that does not hold.      *)
(***************************************************************************)
EXTENDS WeightStreaming

MaybeTensors == [data : {t.data : t \in Tensors} \cup {None}, dims : Shapes \cup {None}]
Dims == [Inputs -> Shapes \cup {None}]
Stages == {"idle", "profile", "decide", "bind_in", "bind_out", "memory", "enqueue", "finish"}
Sources == {"none", "kept", "mempool", "arena"}

Contexts ==
  [live : BOOLEAN, profile : Profiles, in : [Inputs -> MaybeTensors],
   out : [Outputs -> Buffers \cup {None, Deferred}], memory : Nat]
TensorParams == [data : Buffers \cup {None}, dims : Dims \cup {Scalar, Deferred}]
ComputeStates ==
  [is_first_run : BOOLEAN, skip_io_binding_allowed : BOOLEAN,
   input_tensors : [Inputs -> MaybeTensors], output_tensors : [Outputs -> TensorParams],
   execution_context_memory : Nat]
Calls ==
  [pc : Stages, node : Nodes \cup {None}, in : [Inputs -> MaybeTensors],
   out : [Outputs -> Buffers \cup {None}], rebind : BOOLEAN,
   asked : [Outputs -> Dims \cup {Scalar, Deferred, None}], source : Sources]
Updates ==
  [pc : {"idle", "apply", "revert", "undo"}, target : Budgets, engines : SUBSET Nodes,
   applied : SUBSET Nodes, lost : SUBSET Nodes, previous : [Nodes -> Budgets]]
Outcomes == [told : {"nothing", "applied", "restored", "damaged"}, budget : Budgets, lost : BOOLEAN]

(* Types of the state (tensorrt_rtx_execution_provider.h:341-505).         *)
TypeOK ==
  /\ session \in [external : BOOLEAN, persistent : BOOLEAN] /\ mempool_active \in BOOLEAN
  /\ trt_profile_index \in Profiles
  /\ budget \in [Nodes -> Budgets]
  /\ context \in [Nodes -> Contexts]
  /\ state \in [Nodes -> ComputeStates]
  /\ call \in Calls
  /\ inflight \in [Nodes -> SUBSET Sources]
  /\ rejected \subseteq Nodes
  /\ update \in Updates
  /\ outcome \in [Nodes -> Outcomes]

\* The context is bound to the tensors of the run, and the run got its outputs
\* from ORT with the shapes the engine is going to write.
BoundToRun ==
  /\ Mine.in = call.in
  /\ \A o \in Outputs : Mine.out[o] = OutputBinding(o)
  /\ \A o \in Outputs \ DDSOutputs : call.asked[o] = RunDims

(* "we can skip binding if input tensors are the same as before" (line     *)
(* 6041): while nothing failed in making a context and in binding on it,   *)
(* an inference is enqueued on the tensors of its own run and in its       *)
(* profile, however runs repeat, change shapes, move outputs or switch     *)
(* profiles, and however often the context is recreated.                   *)
BindingsFresh ==
  At("enqueue") /\ call.node \notin rejected => BoundToRun /\ Mine.profile = trt_profile_index

(* An inference has context memory of the size its shapes and its engine's *)
(* budget need: for memory of its own always, for memory that is kept      *)
(* (nv_persistent_context_memory) as long as the budget was not touched,   *)
(* whatever shapes ran before (lines 6343-6393).                           *)
ContextMemoryCovers ==
  At("enqueue") /\ (session.persistent => outcome[call.node].told = "nothing")
    => Mine.memory >= ShapeBytes(call.node)

(* A context is destroyed only when the work enqueued with it has run,     *)
(* also on a stream of the user's (line 4423).                             *)
ContextOutlivesWork == \A n \in Nodes : inflight[n] # {} => context[n].live

(* "setWeightStreamingBudgetV2 requires every context for that engine to   *)
(* be destroyed first" (line 4479): on every path, the rollbacks included. *)
BudgetOnlyWithoutContext ==
  [][\A n \in Nodes : budget'[n] # budget[n] => ~context[n].live]_allVars

(* Between updates an engine has a context and the budget that the last    *)
(* update left it with according to its status: the requested one, or the  *)
(* previous one; unless that status said that the previous budget or       *)
(* context "could not be fully restored" (lines 4520, 4546).  Of one       *)
(* engine the status does not tell the truth, and the property excepts it: *)
(* the budget of a lost engine was set and the message about it could not  *)
(* be logged (line 513), so it is not counted among those to undo (line    *)
(* 4496), and keeps the requested budget under a status that says nothing  *)
(* of it.                                                                  *)
UpdateReportsTruth ==
  Stage("idle") =>
    \A n \in Nodes : outcome[n].told # "damaged"
                       => /\ context[n].live
                          /\ ~outcome[n].lost => budget[n] = outcome[n].budget

-----------------------------------------------------------------------------
(* "we can skip binding if input tensors are the same as before" (line     *)
(* 6041), said without a condition: an inference never runs on the tensors *)
(* of an earlier run.                                                      *)
RunsOnItsTensors == At("enqueue") /\ Complete(Mine) => BoundToRun
=============================================================================
