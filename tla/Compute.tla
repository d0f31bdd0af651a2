------------------------------ MODULE Compute ------------------------------
(***************************************************************************)
(* The compute path of a session (src/tensorrt_rtx_execution_provider.cc): *)
(* ComputeImpl and its twin for EPContext nodes, which run one inference   *)
(* of a fused node on the session's stream.  A call holds tensorrt_mu_, so *)
(* one call is in progress at a time; its stages are steps of their own    *)
(* because the stream runs on meanwhile and because each may fail and      *)
(* leave behind what the stages before it have changed.                    *)
(*                                                                         *)
(* A tensor is where it is (data) and its shape (dims).  The shape of an   *)
(* output follows from the shapes of the inputs that are bound: it is      *)
(* represented by these.  Memory is measured in units that only Need and   *)
(* EngineNeed compare.                                                     *)
(***************************************************************************)
EXTENDS Integers, FiniteSets

CONSTANTS
  Nodes,          \* fused nodes, each with an engine and an execution context
  Inputs,
  Outputs,
  ShapeInputs,    \* inputs whose values are shapes, read on the host
  DDSOutputs,     \* outputs with data-dependent shapes
  Tensors,        \* what a run may pass as an input
  Buffers,        \* addresses a run's outputs may have
  Shapes,
  Profiles,
  DefaultProfile, \* the profile of a new execution context
  Budgets,        \* weight-streaming budgets
  Need,           \* context memory for shapes of the inputs and a budget
  EngineNeed,     \* context memory for any shapes and a budget
  Sessions,       \* combinations of options
  None,           \* no address, no shape
  Scalar,         \* the dims of a TensorParams that was never written
  Deferred        \* dims.nbDims = -1: TensorRT asks an OutputAllocator

ASSUME ComputeConstants ==
  /\ ShapeInputs \subseteq Inputs /\ DDSOutputs \subseteq Outputs
  /\ \A t \in Tensors : /\ t = [data |-> t.data, dims |-> t.dims]
                        /\ t.dims \in Shapes /\ t.data # None
  /\ DefaultProfile \in Profiles /\ Sessions \subseteq [external : BOOLEAN, persistent : BOOLEAN]
  /\ Need \in [[Inputs -> Shapes \cup {None}] -> [Budgets -> Nat]]
  /\ EngineNeed \in [Budgets -> Nat]
  /\ \A d \in DOMAIN Need, b \in Budgets : Need[d][b] <= EngineNeed[b]
  /\ None \notin Buffers \cup Shapes /\ Deferred \notin Buffers
  /\ {None, Scalar, Deferred} \cap [Inputs -> Shapes \cup {None}] = {}
  /\ Scalar # Deferred /\ None # Deferred /\ None # Scalar

VARIABLES
  session,            \* options: a stream of the user's? context memory kept?
  mempool_active,     \* GetActiveMempoolForDevice finds one
  trt_profile_index,
  budget,             \* each engine's weight-streaming budget
  context,            \* each node's IExecutionContext
  state,              \* each node's compute state
  call,               \* the ComputeImpl in progress, and its locals
  inflight,           \* kinds of context memory that unfinished runs use
  rejected            \* history: the context's making or a binding on it failed

options == <<session, mempool_active>>
vars == <<options, trt_profile_index, budget, context, state, call, inflight, rejected>>

Blank == [data |-> None, dims |-> None]
NewContext ==
  [live |-> TRUE, profile |-> DefaultProfile, in |-> [i \in Inputs |-> Blank],
   out |-> [o \in Outputs |-> None], memory |-> 0]

\* execution_context_memory is the size of the block that is kept, 0 if none.
NewState ==
  [is_first_run |-> TRUE, skip_io_binding_allowed |-> FALSE,
   input_tensors |-> [i \in Inputs |-> Blank],
   output_tensors |-> [o \in Outputs |-> [data |-> None, dims |-> Scalar]],
   execution_context_memory |-> 0]

\* asked: the dims with which this run has called GetOutput so far.
Idle ==
  [pc |-> "idle", node |-> None, in |-> [i \in Inputs |-> Blank],
   out |-> [o \in Outputs |-> None], rebind |-> FALSE,
   asked |-> [o \in Outputs |-> None], source |-> "none"]

Init ==
  /\ session \in Sessions
  /\ mempool_active \in BOOLEAN
  /\ trt_profile_index = DefaultProfile
  /\ \E b \in Budgets : budget = [n \in Nodes |-> b]
  /\ context = [n \in Nodes |-> NewContext]
  /\ state = [n \in Nodes |-> NewState]
  /\ call = Idle
  /\ inflight = [n \in Nodes |-> {}]
  /\ rejected = {}

-----------------------------------------------------------------------------
At(pc) == call.pc = pc
Goto(pc) == call' = [call EXCEPT !.pc = pc]
Return == call' = Idle
Mine == context[call.node]
Cached == state[call.node]

\* Shapes of the outputs, as the context infers them and as the run expects.
InferredDims(c) == [i \in Inputs |-> c.in[i].dims]
RunDims == [i \in Inputs |-> call.in[i].dims]

\* The stream has run everything enqueued so far.
Drained == inflight' = [n \in Nodes |-> {}]

StreamProgress ==
  /\ inflight # [n \in Nodes |-> {}]
  /\ Drained
  /\ UNCHANGED <<options, trt_profile_index, budget, context, state, call, rejected>>

\* OnRunStart: ORT runs a session's inferences one after another.
SelectProfile(p) ==
  /\ At("idle")
  /\ trt_profile_index' = p
  /\ UNCHANGED <<options, budget, context, state, call, inflight, rejected>>

\* Without an execution context ComputeImpl returns an error at once.  The
\* values a shape input was bound to were locals of the call before.
BeginCompute(n, in, out) ==
  /\ At("idle")
  /\ context[n].live
  /\ context' = [context EXCEPT ![n].in =
                   [i \in Inputs |-> IF i \in ShapeInputs THEN [@[i] EXCEPT !.data = None] ELSE @[i]]]
  /\ call' = [Idle EXCEPT !.pc = "profile", !.node = n, !.in = in,
                       !.out = [o \in Outputs |-> IF o \in DDSOutputs THEN None ELSE out[o]]]
  /\ UNCHANGED <<options, trt_profile_index, budget, state, inflight, rejected>>

\* setOptimizationProfileAsync makes the context forget its input shapes.
SwitchProfile ==
  /\ At("profile")
  /\ Mine.profile # trt_profile_index
  /\ context' = [context EXCEPT ![call.node].profile = trt_profile_index,
                                ![call.node].in = [i \in Inputs |-> [Mine.in[i] EXCEPT !.dims = None]]]
  /\ call' = [call EXCEPT !.pc = "decide", !.rebind = TRUE]
  /\ UNCHANGED <<options, trt_profile_index, budget, state, inflight, rejected>>

SwitchProfileFails ==
  /\ At("profile")
  /\ Mine.profile # trt_profile_index
  /\ Return
  /\ UNCHANGED <<options, trt_profile_index, budget, context, state, inflight, rejected>>

KeepProfile ==
  /\ At("profile")
  /\ Mine.profile = trt_profile_index
  /\ Goto("decide")
  /\ UNCHANGED <<options, trt_profile_index, budget, context, state, inflight, rejected>>

-----------------------------------------------------------------------------
(* IsIOBindingRequired.                                                    *)

FirstRun ==
  /\ At("decide")
  /\ Cached.is_first_run
  /\ state' = [state EXCEPT ![call.node].is_first_run = FALSE,
                            ![call.node].input_tensors = call.in]
  /\ Goto("bind_in")
  /\ UNCHANGED <<options, trt_profile_index, budget, context, inflight, rejected>>

AlwaysBind ==
  /\ At("decide")
  /\ ~Cached.is_first_run /\ ~Cached.skip_io_binding_allowed
  /\ Goto("bind_in")
  /\ UNCHANGED <<options, trt_profile_index, budget, context, state, inflight, rejected>>

MayCompare ==
  /\ At("decide")
  /\ ~Cached.is_first_run /\ Cached.skip_io_binding_allowed

\* (mutant) the cache keeps the inputs of the first run
InputsChangedUncached ==
  /\ MayCompare
  /\ Cached.input_tensors # call.in
  /\ Goto("bind_in")
  /\ UNCHANGED <<options, trt_profile_index, budget, context, state, inflight, rejected>>

InputsChanged ==
  /\ MayCompare
  /\ Cached.input_tensors # call.in
  /\ state' = [state EXCEPT ![call.node].input_tensors = call.in]
  /\ Goto("bind_in")
  /\ UNCHANGED <<options, trt_profile_index, budget, context, inflight, rejected>>

\* What this run's output is bound to: its address, or an OutputAllocator.
OutputBinding(o) == IF o \in DDSOutputs THEN Deferred ELSE call.out[o]

\* Outputs are asked for with the dims of the last binding.
Comparable == {o \in Outputs : Cached.output_tensors[o].dims # Deferred}
Moved == {o \in Comparable : Cached.output_tensors[o].data # OutputBinding(o)}
AskedFor(os, dims) == [o \in Outputs |-> IF o \in os THEN dims[o] ELSE call.asked[o]]
CachedDims == [o \in Outputs |-> Cached.output_tensors[o].dims]

InputsSame == MayCompare /\ Cached.input_tensors = call.in

OutputsSame ==
  /\ InputsSame
  /\ Moved = {}
  /\ call' = [call EXCEPT !.asked = AskedFor(Comparable, CachedDims),
                          !.pc = IF call.rebind THEN "bind_in" ELSE "memory"]
  /\ UNCHANGED <<options, trt_profile_index, budget, context, state, inflight, rejected>>

\* The loop stops at the first output that has moved.
OutputsMoved ==
  /\ InputsSame
  /\ \E o \in Moved, os \in SUBSET (Comparable \ Moved) :
       call' = [call EXCEPT !.asked = AskedFor(os \cup {o}, CachedDims), !.pc = "bind_in"]
  /\ UNCHANGED <<options, trt_profile_index, budget, context, state, inflight, rejected>>

-----------------------------------------------------------------------------
(* Binding.                                                                *)

WithInputs(is) == [i \in Inputs |-> IF i \in is THEN call.in[i] ELSE Mine.in[i]]

BindInputs ==
  /\ At("bind_in")
  /\ context' = [context EXCEPT ![call.node].in = call.in]
  /\ state' = [state EXCEPT ![call.node].skip_io_binding_allowed = (ShapeInputs = {})]
  /\ Goto("bind_out")
  /\ UNCHANGED <<options, trt_profile_index, budget, inflight, rejected>>

\* BindContextInput fails for input i: refused by the context before or after
\* its shape is set, or its address cannot be resolved.
BindInputsFails ==
  /\ At("bind_in")
  /\ \E i \in Inputs, is \in SUBSET Inputs :
       /\ i \notin is
       /\ \/ context' = [context EXCEPT ![call.node].in = WithInputs(is)]
          \/ context' = [context EXCEPT ![call.node].in =
                           [WithInputs(is) EXCEPT ![i].dims = call.in[i].dims]]
  /\ rejected' = rejected \cup {call.node}
  /\ Return
  /\ UNCHANGED <<options, trt_profile_index, budget, state, inflight>>

\* ORT gives a run one tensor per output: asking again with other dims fails.
GetOutput(o, dims) == call.asked[o] \in {None, dims}
Obtainable(os) == \A o \in os \ DDSOutputs : GetOutput(o, InferredDims(Mine))

OutputParams(o) ==
  IF o \in DDSOutputs THEN [data |-> None, dims |-> Deferred]
                      ELSE [data |-> call.out[o], dims |-> InferredDims(Mine)]

\* BindContextOutput for the outputs in os, in the context and in the cache.
BindContextOutputs(os) ==
  /\ context' = [context EXCEPT ![call.node].out =
                   [o \in Outputs |-> IF o \in os THEN OutputBinding(o) ELSE Mine.out[o]]]
  /\ state' = [state EXCEPT ![call.node].output_tensors =
                 [o \in Outputs |-> IF o \in os THEN OutputParams(o) ELSE Cached.output_tensors[o]]]

BindOutputs ==
  /\ At("bind_out")
  /\ Obtainable(Outputs)
  /\ BindContextOutputs(Outputs)
  /\ call' = [call EXCEPT !.pc = "memory",
                          !.asked = AskedFor(Outputs \ DDSOutputs,
                                             [o \in Outputs |-> InferredDims(Mine)])]
  /\ UNCHANGED <<options, trt_profile_index, budget, inflight, rejected>>

BindOutputsFails ==
  /\ At("bind_out")
  /\ \E o \in Outputs, os \in SUBSET Outputs :
       /\ o \notin os
       /\ Obtainable(os)
       /\ BindContextOutputs(os)
  /\ rejected' = rejected \cup {call.node}
  /\ Return
  /\ UNCHANGED <<options, trt_profile_index, budget, inflight>>

-----------------------------------------------------------------------------
(* Context memory.                                                         *)

\* getDeviceMemorySizeV2, which follows the engine's budget, and
\* updateDeviceMemorySizeForShapes, which follows the bound shapes too.
EngineBytes(n) == EngineNeed[budget[n]]
ShapeBytes(n) == Need[InferredDims(context[n])][budget[n]]

Kept == IF session.persistent THEN Cached.execution_context_memory ELSE 0
MustAllocate == At("memory") /\ ShapeBytes(call.node) > 0 /\ Kept = 0
\* (mutant) memory to be kept is sized for this run only
BlockSizeOfRun == ShapeBytes(call.node)
BlockSize == IF session.persistent THEN EngineBytes(call.node) ELSE ShapeBytes(call.node)

UseKeptMemory ==
  /\ At("memory")
  /\ ShapeBytes(call.node) = 0 \/ Kept > 0
  /\ context' = IF ShapeBytes(call.node) = 0 THEN context
                ELSE [context EXCEPT ![call.node].memory = Kept]
  /\ call' = [call EXCEPT !.pc = "enqueue",
                          !.source = IF ShapeBytes(call.node) = 0 THEN "none" ELSE "kept"]
  /\ UNCHANGED <<options, trt_profile_index, budget, state, inflight, rejected>>

\* setDeviceMemoryV2 with a block of its own, kept if the session says so.
UseNewBlock(source) ==
  /\ context' = [context EXCEPT ![call.node].memory = BlockSize]
  /\ state' = IF session.persistent
              THEN [state EXCEPT ![call.node].execution_context_memory = BlockSize]
              ELSE state
  /\ call' = [call EXCEPT !.pc = "enqueue",
                          !.source = IF session.persistent THEN "kept" ELSE source]

AllocFromMempool ==
  /\ MustAllocate
  /\ mempool_active
  /\ UseNewBlock("mempool")
  /\ UNCHANGED <<options, trt_profile_index, budget, inflight, rejected>>

\* No mempool, or it has just failed, which gives it up for good
\* (NoteAsyncMempoolFailure).
AllocFromArena ==
  /\ MustAllocate
  /\ UseNewBlock("arena")
  /\ mempool_active' = FALSE
  /\ UNCHANGED <<session, trt_profile_index, budget, inflight, rejected>>

AllocFails ==
  /\ MustAllocate
  /\ mempool_active' = FALSE
  /\ Return
  /\ UNCHANGED <<session, trt_profile_index, budget, context, state, inflight, rejected>>

-----------------------------------------------------------------------------
(* enqueueV3, and what follows it.                                         *)

Complete(c) ==
  /\ \A i \in Inputs : c.in[i].data # None /\ c.in[i].dims # None
  /\ \A o \in Outputs : c.out[o] # None

Enqueue ==
  /\ At("enqueue")
  /\ Complete(Mine)
  /\ inflight' = [inflight EXCEPT ![call.node] = @ \cup {call.source}]
  /\ Goto("finish")
  /\ UNCHANGED <<options, trt_profile_index, budget, context, state, rejected>>

\* In particular when a binding is missing.
EnqueueFails ==
  /\ At("enqueue")
  /\ Return
  /\ UNCHANGED <<options, trt_profile_index, budget, context, state, inflight, rejected>>

\* The stream is synchronised unless it is the user's; data-dependent outputs
\* are copied in stream order; a transient block goes back to where it came from.
Finish ==
  /\ At("finish")
  /\ IF session.external THEN UNCHANGED inflight ELSE Drained
  /\ Return
  /\ UNCHANGED <<options, trt_profile_index, budget, context, state, rejected>>

ComputeStep ==
  \/ \E n \in Nodes, in \in [Inputs -> Tensors], out \in [Outputs \ DDSOutputs -> Buffers] :
       BeginCompute(n, in, out)
  \/ SwitchProfile \/ SwitchProfileFails \/ KeepProfile
  \/ FirstRun \/ AlwaysBind \/ InputsChanged \/ OutputsSame \/ OutputsMoved
  \/ BindInputs \/ BindInputsFails \/ BindOutputs \/ BindOutputsFails
  \/ UseKeptMemory \/ AllocFromMempool \/ AllocFromArena \/ AllocFails
  \/ Enqueue \/ EnqueueFails \/ Finish
=============================================================================
