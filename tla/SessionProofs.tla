--------------------------- MODULE SessionProofs ---------------------------
(***************************************************************************)
(* Proofs about a session's compute path and weight-streaming budget, for  *)
(* any number of engines, tensors, shapes, profiles and budgets.           *)
(***************************************************************************)
EXTENDS SessionProperties, TLAPS

Busy == {"profile", "decide", "bind_in", "bind_out", "memory", "enqueue", "finish"}

(* Where the session is: a call has a node, whose context it uses; an      *)
(* update excludes calls, and works on engines that have no context.       *)
PlaceInv ==
  /\ call.pc \in Busy => call.node \in Nodes /\ context[call.node].live
  /\ update.pc # "idle" => call.pc = "idle"
  /\ update.pc \in {"apply", "undo"} => \A n \in update.engines : ~context[n].live
  /\ \A n \in Nodes : inflight[n] # {} => context[n].live /\ update.pc = "idle"

(* What an update owes its caller: engines it has not reached have their   *)
(* previous budgets, the others its target, a lost engine excepted.        *)
UpdateInv ==
  /\ update.applied \subseteq update.engines
  /\ update.pc = "idle" => update.engines = {}
  /\ update.pc = "revert" => update.applied = update.engines
  /\ update.lost \subseteq update.engines \ update.applied
  /\ update.lost # {} => update.pc = "undo"
  /\ \A n \in update.engines \ (update.applied \cup update.lost) : budget[n] = update.previous[n]
  /\ \A n \in update.applied : budget[n] = update.target
  /\ \A n \in Nodes \ update.engines :
       outcome[n].told # "damaged"
         => context[n].live /\ (~outcome[n].lost => budget[n] = outcome[n].budget)

InputDims(n) == [i \in Inputs |-> state[n].input_tensors[i].dims]
Serves(n, pcs) == call.node = n /\ call.pc \in pcs

(* If node n may compare tensors, its caches describe the bindings of its  *)
(* context, except while a call is rebinding them.                         *)
CachesDescribe(n) ==
  /\ state[n].skip_io_binding_allowed => ShapeInputs = {}
  /\ ~state[n].is_first_run /\ ~Serves(n, {"bind_in"})
       => state[n].skip_io_binding_allowed = (ShapeInputs = {})
  /\ state[n].skip_io_binding_allowed /\ ~state[n].is_first_run /\ ~Serves(n, {"bind_in"})
       /\ ~(Serves(n, {"decide"}) /\ call.rebind)
       => context[n].in = state[n].input_tensors
  /\ state[n].skip_io_binding_allowed /\ ~state[n].is_first_run
       /\ ~Serves(n, {"bind_in", "bind_out"})
       => /\ \A o \in DDSOutputs : /\ context[n].out[o] = Deferred
                                   /\ state[n].output_tensors[o].dims = Deferred
          /\ \A o \in Outputs \ DDSOutputs :
               /\ context[n].out[o] = state[n].output_tensors[o].data
               /\ state[n].output_tensors[o].dims = InputDims(n)

(* What a call of node n has established at each of its stages.            *)
CallOnCourse(n) ==
  /\ Serves(n, Busy \ {"profile"}) => context[n].profile = trt_profile_index
  /\ Serves(n, Busy \ {"profile", "decide"}) => ~state[n].is_first_run
  /\ Serves(n, {"bind_in", "bind_out"}) /\ ShapeInputs = {}
       => state[n].input_tensors = call.in
  /\ Serves(n, {"bind_out"}) => context[n].in = call.in
  /\ Serves(n, {"memory", "enqueue"}) => BoundToRun
  /\ Serves(n, {"profile", "decide"}) => call.asked = [o \in Outputs |-> None]

BindInv == \A n \in Nodes \ rejected : CachesDescribe(n) /\ CallOnCourse(n)

(* Memory that is kept has the size for the budget it was allocated with.  *)
MemoryInv ==
  /\ \A n \in Nodes \ update.engines :
       outcome[n].told = "nothing"
         => state[n].execution_context_memory \in {0, EngineNeed[budget[n]]}
  /\ ContextMemoryCovers
-----------------------------------------------------------------------------
(* Types.                                                                  *)

\* What an action of the compute path may rely on.
CallOK == call.pc # "idle" => call.node \in Nodes
Types == TypeOK /\ CallOK

LEMMA Constructors ==
  /\ NewContext \in Contexts
  /\ NewState \in ComputeStates
  /\ Idle \in Calls /\ Idle.pc = "idle"
  /\ NoUpdate \in Updates
<1> USE ComputeConstants, AutomaticBudget
<1>1. Blank \in MaybeTensors
  BY DEF Blank, MaybeTensors
<1>2. NewContext \in Contexts
  BY <1>1 DEF NewContext, Contexts
<1>3. NewState \in ComputeStates
  BY <1>1 DEF NewState, ComputeStates, TensorParams
<1>4. Idle \in Calls /\ Idle.pc = "idle"
  BY <1>1 DEF Idle, Calls, Stages, Sources
<1>5. NoUpdate \in Updates
  BY DEF NoUpdate, Updates
<1> QED
  BY <1>2, <1>3, <1>4, <1>5

LEMMA Forgetting ==
  \A t \in MaybeTensors : /\ [t EXCEPT !.data = None] \in MaybeTensors
                          /\ [t EXCEPT !.dims = None] \in MaybeTensors
BY DEF MaybeTensors

LEMMA ContextFields ==
  ASSUME NEW n \in Nodes, context \in [Nodes -> Contexts]
  PROVE  /\ \A p \in Profiles, in \in [Inputs -> MaybeTensors] :
              [context EXCEPT ![n].profile = p, ![n].in = in] \in [Nodes -> Contexts]
         /\ \A in \in [Inputs -> MaybeTensors] : [context EXCEPT ![n].in = in] \in [Nodes -> Contexts]
         /\ \A out \in [Outputs -> Buffers \cup {None, Deferred}] :
              [context EXCEPT ![n].out = out] \in [Nodes -> Contexts]
         /\ \A m \in Nat : [context EXCEPT ![n].memory = m] \in [Nodes -> Contexts]
<1>1. /\ \A p \in Profiles, in \in [Inputs -> MaybeTensors] :
           [context[n] EXCEPT !.profile = p, !.in = in] \in Contexts
      /\ \A in \in [Inputs -> MaybeTensors] : [context[n] EXCEPT !.in = in] \in Contexts
      /\ \A out \in [Outputs -> Buffers \cup {None, Deferred}] :
           [context[n] EXCEPT !.out = out] \in Contexts
      /\ \A m \in Nat : [context[n] EXCEPT !.memory = m] \in Contexts
  BY DEF Contexts
<1> QED
  BY <1>1

LEMMA StateFields ==
  ASSUME NEW n \in Nodes, state \in [Nodes -> ComputeStates]
  PROVE  /\ \A in \in [Inputs -> MaybeTensors] :
              /\ [state EXCEPT ![n].is_first_run = FALSE, ![n].input_tensors = in]
                   \in [Nodes -> ComputeStates]
              /\ [state EXCEPT ![n].input_tensors = in] \in [Nodes -> ComputeStates]
         /\ \A b \in BOOLEAN : [state EXCEPT ![n].skip_io_binding_allowed = b] \in [Nodes -> ComputeStates]
         /\ \A out \in [Outputs -> TensorParams] :
              [state EXCEPT ![n].output_tensors = out] \in [Nodes -> ComputeStates]
         /\ \A m \in Nat : [state EXCEPT ![n].execution_context_memory = m] \in [Nodes -> ComputeStates]
<1>1. /\ \A in \in [Inputs -> MaybeTensors] :
           /\ [state[n] EXCEPT !.is_first_run = FALSE, !.input_tensors = in] \in ComputeStates
           /\ [state[n] EXCEPT !.input_tensors = in] \in ComputeStates
      /\ \A b \in BOOLEAN : [state[n] EXCEPT !.skip_io_binding_allowed = b] \in ComputeStates
      /\ \A out \in [Outputs -> TensorParams] : [state[n] EXCEPT !.output_tensors = out] \in ComputeStates
      /\ \A m \in Nat : [state[n] EXCEPT !.execution_context_memory = m] \in ComputeStates
  BY DEF ComputeStates
<1> QED
  BY <1>1

LEMMA InitTypes == InitSession => Types
<1> SUFFICES ASSUME InitSession PROVE Types
  OBVIOUS
<1>1. budget \in [Nodes -> Budgets] /\ session \in [external : BOOLEAN, persistent : BOOLEAN]
  BY ComputeConstants DEF InitSession, Init
<1>2. outcome \in [Nodes -> Outcomes]
  BY <1>1 DEF InitSession, Outcomes
<1>3. trt_profile_index \in Profiles /\ mempool_active \in BOOLEAN /\ rejected \subseteq Nodes
  BY ComputeConstants DEF InitSession, Init
<1>4. /\ context \in [Nodes -> Contexts] /\ state \in [Nodes -> ComputeStates]
      /\ call \in Calls /\ call.pc = "idle" /\ update \in Updates
  BY Constructors DEF InitSession, Init
<1>5. inflight \in [Nodes -> SUBSET Sources]
  BY DEF InitSession, Init
<1> QED
  BY <1>1, <1>2, <1>3, <1>4, <1>5 DEF Types, TypeOK, CallOK

LEMMA ComputeTypes ==
  ASSUME Types, ComputeStep, UNCHANGED <<update, outcome>>
  PROVE  Types'
<1> USE ComputeConstants DEF Types, TypeOK, CallOK, options
<1>1. ASSUME NEW n \in Nodes, NEW in \in [Inputs -> Tensors],
             NEW out \in [Outputs \ DDSOutputs -> Buffers], BeginCompute(n, in, out)
      PROVE  Types'
  <2>1. in \in [Inputs -> MaybeTensors]
    BY DEF MaybeTensors
  <2>2. context' \in [Nodes -> Contexts]
    <3>1. [i \in Inputs |-> IF i \in ShapeInputs THEN [context[n].in[i] EXCEPT !.data = None]
                            ELSE context[n].in[i]] \in [Inputs -> MaybeTensors]
      <4>1. context[n].in \in [Inputs -> MaybeTensors]
        BY DEF Contexts
      <4> QED
        BY <4>1, Forgetting
    <3> QED
      BY <1>1, <3>1, ContextFields DEF BeginCompute
  <2>3. call' \in Calls /\ call'.node \in Nodes
    BY <1>1, <2>1, Constructors DEF BeginCompute, Calls, Stages
  <2> QED
    BY <1>1, <2>2, <2>3 DEF BeginCompute
<1>2. CASE SwitchProfile
  <2>1. context' \in [Nodes -> Contexts]
    <3>1. call.node \in Nodes
      BY <1>2 DEF SwitchProfile, At
    <3>2. [i \in Inputs |-> [Mine.in[i] EXCEPT !.dims = None]] \in [Inputs -> MaybeTensors]
      <4>1. Mine.in \in [Inputs -> MaybeTensors]
        BY <3>1 DEF Mine, Contexts
      <4> QED
        BY <4>1, Forgetting
    <3> QED
      BY <1>2, <3>1, <3>2, ContextFields DEF SwitchProfile
  <2>2. call' \in Calls /\ call'.node \in Nodes
    BY <1>2 DEF SwitchProfile, At, Calls, Stages
  <2> QED
    BY <1>2, <2>1, <2>2 DEF SwitchProfile
<1>3. CASE SwitchProfileFails \/ AllocFails \/ EnqueueFails \/ Finish
  <2>1. call' \in Calls /\ call'.pc = "idle"
    BY <1>3, Constructors DEF SwitchProfileFails, AllocFails, EnqueueFails, Finish, Return
  <2> QED
    BY <1>3, <2>1 DEF SwitchProfileFails, AllocFails, EnqueueFails, Finish, Drained
<1>4. CASE KeepProfile \/ AlwaysBind
  <2>1. call' \in Calls /\ call'.node \in Nodes
    BY <1>4 DEF KeepProfile, AlwaysBind, At, Goto, Calls, Stages
  <2> QED
    BY <1>4, <2>1 DEF KeepProfile, AlwaysBind
<1>5. CASE FirstRun \/ InputsChanged
  <2>1. call' = [call EXCEPT !.pc = "bind_in"] /\ call.node \in Nodes
    BY <1>5 DEF FirstRun, InputsChanged, MayCompare, At, Goto
  <2>2. call' \in Calls /\ call'.node \in Nodes
    BY <2>1 DEF Calls, Stages
  <2>3. state' \in [Nodes -> ComputeStates]
    <3>1. call.in \in [Inputs -> MaybeTensors]
      BY DEF Calls
    <3> QED
      <4>1. CASE FirstRun
        BY <2>1, <3>1, <4>1, StateFields DEF FirstRun
      <4>2. CASE InputsChanged
        BY <2>1, <3>1, <4>2, StateFields DEF InputsChanged
      <4> QED
        BY <1>5, <4>1, <4>2
  <2> QED
    BY <1>5, <2>2, <2>3 DEF FirstRun, InputsChanged
<1>6. CASE OutputsSame \/ OutputsMoved
  <2>1. ASSUME NEW os, MayCompare PROVE AskedFor(os, CachedDims) \in [Outputs -> Dims \cup {Scalar, Deferred, None}]
    BY <2>1 DEF AskedFor, CachedDims, Cached, MayCompare, At, Calls, ComputeStates, TensorParams
  <2>2. call' \in Calls /\ call'.node \in Nodes
    <3>1. MayCompare
      BY <1>6 DEF OutputsSame, OutputsMoved, InputsSame
    <3>2. CASE OutputsSame
      BY <2>1, <3>1, <3>2 DEF OutputsSame, MayCompare, At, Calls, Stages
    <3>3. CASE OutputsMoved
      <4>1. PICK os : call' = [call EXCEPT !.asked = AskedFor(os, CachedDims), !.pc = "bind_in"]
        BY <3>3 DEF OutputsMoved
      <4> QED
        BY <2>1, <3>1, <4>1 DEF MayCompare, At, Calls, Stages
    <3> QED
      BY <1>6, <3>2, <3>3
  <2> QED
    BY <1>6, <2>2 DEF OutputsSame, OutputsMoved
<1>7. CASE BindInputs
  <2>0. call.node \in Nodes /\ call.in \in [Inputs -> MaybeTensors]
    BY <1>7 DEF BindInputs, At, Calls
  <2>1. context' \in [Nodes -> Contexts]
    BY <1>7, <2>0, ContextFields DEF BindInputs
  <2>2. state' \in [Nodes -> ComputeStates]
    BY <1>7, <2>0, StateFields DEF BindInputs
  <2>3. call' \in Calls /\ call'.node \in Nodes
    BY <1>7 DEF BindInputs, At, Goto, Calls, Stages
  <2> QED
    BY <1>7, <2>1, <2>2, <2>3 DEF BindInputs
<1>8. CASE BindInputsFails
  <2>0. call.node \in Nodes
    BY <1>8 DEF BindInputsFails, At
  <2>1. ASSUME NEW is \in SUBSET Inputs PROVE WithInputs(is) \in [Inputs -> MaybeTensors]
    BY <2>0 DEF WithInputs, Mine, Contexts, Calls
  <2>2. ASSUME NEW is \in SUBSET Inputs, NEW i \in Inputs
        PROVE [WithInputs(is) EXCEPT ![i].dims = call.in[i].dims] \in [Inputs -> MaybeTensors]
    <3>1. call.in[i] \in MaybeTensors /\ WithInputs(is)[i] \in MaybeTensors
      BY <2>1 DEF Calls
    <3>2. [WithInputs(is)[i] EXCEPT !.dims = call.in[i].dims] \in MaybeTensors
      BY <3>1 DEF MaybeTensors
    <3> QED
      BY <2>1, <3>2
  <2>3. context' \in [Nodes -> Contexts]
    <3>1. PICK in \in [Inputs -> MaybeTensors] : context' = [context EXCEPT ![call.node].in = in]
      BY <1>8, <2>1, <2>2 DEF BindInputsFails
    <3> QED
      BY <2>0, <3>1, ContextFields
  <2>4. call' \in Calls /\ call'.pc = "idle"
    BY <1>8, Constructors DEF BindInputsFails, Return
  <2> QED
    BY <1>8, <2>0, <2>3, <2>4 DEF BindInputsFails
<1>9. CASE BindOutputs \/ BindOutputsFails
  <2>0. call.node \in Nodes /\ InferredDims(Mine) \in Dims
    BY <1>9 DEF BindOutputs, BindOutputsFails, At, InferredDims, Mine, Dims, Contexts, MaybeTensors
  <2>1. ASSUME NEW os, BindContextOutputs(os)
        PROVE  context' \in [Nodes -> Contexts] /\ state' \in [Nodes -> ComputeStates]
    <3>1. ASSUME NEW o \in Outputs
          PROVE OutputBinding(o) \in Buffers \cup {None, Deferred} /\ OutputParams(o) \in TensorParams
      BY <2>0 DEF OutputBinding, OutputParams, Calls, TensorParams
    <3>2. [o \in Outputs |-> IF o \in os THEN OutputBinding(o) ELSE Mine.out[o]]
            \in [Outputs -> Buffers \cup {None, Deferred}]
      BY <2>0, <3>1 DEF Mine, Contexts
    <3>3. [o \in Outputs |-> IF o \in os THEN OutputParams(o) ELSE Cached.output_tensors[o]]
            \in [Outputs -> TensorParams]
      BY <2>0, <3>1 DEF Cached, ComputeStates
    <3>4. context' \in [Nodes -> Contexts]
      BY <2>0, <2>1, <3>2, ContextFields DEF BindContextOutputs
    <3> QED
      BY <2>0, <2>1, <3>3, <3>4, StateFields DEF BindContextOutputs
  <2>2. CASE BindOutputs
    <3>1. AskedFor(Outputs \ DDSOutputs, [o \in Outputs |-> InferredDims(Mine)])
            \in [Outputs -> Dims \cup {Scalar, Deferred, None}]
      BY <2>0 DEF AskedFor, Calls
    <3>2. call' \in Calls /\ call'.node \in Nodes
      BY <2>0, <2>2, <3>1 DEF BindOutputs, Calls, Stages
    <3> QED
      BY <2>1, <2>2, <3>2 DEF BindOutputs
  <2>3. CASE BindOutputsFails
    <3>1. call' \in Calls /\ call'.pc = "idle"
      BY <2>3, Constructors DEF BindOutputsFails, Return
    <3>2. context' \in [Nodes -> Contexts] /\ state' \in [Nodes -> ComputeStates]
      BY <2>1, <2>3 DEF BindOutputsFails
    <3> QED
      BY <2>0, <2>3, <3>1, <3>2 DEF BindOutputsFails
  <2> QED
    BY <1>9, <2>2, <2>3
<1>10. CASE UseKeptMemory
  <2>0. call.node \in Nodes /\ Kept \in Nat
    BY <1>10 DEF UseKeptMemory, At, Kept, Cached, ComputeStates
  <2>1. context' \in [Nodes -> Contexts]
    BY <1>10, <2>0, ContextFields DEF UseKeptMemory
  <2>2. call' \in Calls /\ call'.node \in Nodes
    BY <1>10, <2>0 DEF UseKeptMemory, Calls, Stages, Sources
  <2> QED
    BY <1>10, <2>1, <2>2 DEF UseKeptMemory
<1>11. CASE AllocFromMempool \/ AllocFromArena
  <2>0. call.node \in Nodes /\ BlockSize \in Nat
    <3>1. call.node \in Nodes /\ EngineBytes(call.node) \in Nat
      BY <1>11 DEF AllocFromMempool, AllocFromArena, MustAllocate, At, EngineBytes
    <3>2. InferredDims(context[call.node]) \in [Inputs -> Shapes \cup {None}]
      BY <3>1 DEF InferredDims, Contexts, MaybeTensors
    <3>3. ShapeBytes(call.node) \in Nat
      BY <3>1, <3>2 DEF ShapeBytes
    <3> QED
      BY <3>1, <3>3 DEF BlockSize
  <2>1. PICK source \in Sources : UseNewBlock(source)
    BY <1>11 DEF AllocFromMempool, AllocFromArena, Sources
  <2>2. context' \in [Nodes -> Contexts] /\ state' \in [Nodes -> ComputeStates]
    BY <2>0, <2>1, ContextFields, StateFields DEF UseNewBlock
  <2>3. call' \in Calls /\ call'.node \in Nodes
    BY <2>0, <2>1 DEF UseNewBlock, Calls, Stages, Sources
  <2> QED
    BY <1>11, <2>2, <2>3 DEF AllocFromMempool, AllocFromArena
<1>12. CASE Enqueue
  <2>1. call' \in Calls /\ call'.node \in Nodes
    BY <1>12 DEF Enqueue, At, Goto, Calls, Stages
  <2>2. inflight' \in [Nodes -> SUBSET Sources]
    BY <1>12 DEF Enqueue, Calls
  <2> QED
    BY <1>12, <2>1, <2>2 DEF Enqueue
<1> QED
  BY <1>1, <1>2, <1>3, <1>4, <1>5, <1>6, <1>7, <1>8, <1>9, <1>10, <1>11, <1>12 DEF ComputeStep

LEMMA UpdateTypes ==
  ASSUME Types, UpdateStep
  PROVE  Types'
<1> USE ComputeConstants, AutomaticBudget DEF Types, TypeOK, CallOK, options, vars
<1>1. ASSUME NEW engines \in SUBSET Nodes
      PROVE  [n \in Nodes |-> IF n \in engines THEN [context[n] EXCEPT !.live = FALSE] ELSE context[n]]
               \in [Nodes -> Contexts]
  <2>1. \A c \in Contexts : [c EXCEPT !.live = FALSE] \in Contexts
    BY DEF Contexts
  <2> QED
    BY <2>1
<1>2. ASSUME NEW failing \in SUBSET update.engines, NEW half \in SUBSET update.engines,
             RecreateContexts(failing, half)
      PROVE  /\ context' \in [Nodes -> Contexts] /\ state' \in [Nodes -> ComputeStates]
             /\ rejected' \subseteq Nodes
  <2>1. \A s \in ComputeStates :
          [s EXCEPT !.is_first_run = TRUE, !.skip_io_binding_allowed = FALSE] \in ComputeStates
    BY DEF ComputeStates
  <2>2. half \subseteq Nodes
    BY DEF Updates
  <2>3. context' \in [Nodes -> Contexts]
    BY <1>2, Constructors DEF RecreateContexts
  <2> QED
    BY <1>2, <2>1, <2>2, <2>3 DEF RecreateContexts
<1>3. ASSUME NEW what \in {"applied", "restored", "damaged"}, NEW amount \in [Nodes -> Budgets],
             Tell(what, amount)
      PROVE  outcome' \in [Nodes -> Outcomes]
  BY <1>3 DEF Tell, Outcomes
<1>4. ASSUME NEW b \in Budgets, NEW automatic \in BOOLEAN, BeginUpdate(b, automatic)
      PROVE  Types'
  <2>1. context' \in [Nodes -> Contexts]
    BY <1>1, <1>4 DEF BeginUpdate
  <2>2. update' \in Updates
    BY <1>4 DEF BeginUpdate, Updates
  <2> QED
    BY <1>4, <2>1, <2>2 DEF BeginUpdate, Drained
<1>5. ASSUME NEW n \in Nodes, ApplyBudget(n)
      PROVE  Types'
  <2>1. budget' \in [Nodes -> Budgets] /\ update' \in Updates
    BY <1>5 DEF ApplyBudget, Updates
  <2> QED
    BY <1>5, <2>1 DEF ApplyBudget
<1>5a. ASSUME NEW n \in Nodes, ApplyBudgetUnlogged(n)
      PROVE  Types'
  <2>1. budget' \in [Nodes -> Budgets] /\ update' \in Updates
    BY <1>5a DEF ApplyBudgetUnlogged, Updates
  <2> QED
    BY <1>5a, <2>1 DEF ApplyBudgetUnlogged
<1>6. CASE ApplyBudgetFails
  <2>1. update' \in Updates
    BY <1>6 DEF ApplyBudgetFails, Updates
  <2> QED
    BY <1>6, <2>1 DEF ApplyBudgetFails
<1>7. CASE RecreateSucceeds
  <2>1. outcome' \in [Nodes -> Outcomes]
    BY <1>3, <1>7 DEF RecreateSucceeds, Updates
  <2> QED
    BY <1>2, <1>7, <2>1, Constructors DEF RecreateSucceeds
<1>8. CASE RecreateFails
  <2>1. update' \in Updates
    BY <1>8 DEF RecreateFails, Updates
  <2>2. PICK failing, half \in SUBSET update.engines : RecreateContexts(failing, half)
    BY <1>8 DEF RecreateFails
  <2> QED
    BY <1>2, <1>8, <2>1, <2>2 DEF RecreateFails
<1>9. CASE ResetContexts
  <2>1. update' \in Updates /\ update.engines \in SUBSET Nodes
    BY <1>9 DEF ResetContexts, Updates
  <2>2. context' \in [Nodes -> Contexts]
    BY <1>1, <1>9, <2>1 DEF ResetContexts
  <2> QED
    BY <1>9, <2>1, <2>2 DEF ResetContexts
<1>10. CASE Undo
  <2>1. PICK stuck \in SUBSET update.applied, failing, half \in SUBSET update.engines :
          /\ budget' = [n \in Nodes |-> IF n \in update.applied \ stuck THEN update.previous[n]
                                        ELSE budget[n]]
          /\ RecreateContexts(failing, half)
          /\ Tell(IF stuck \cup failing \cup half = {} THEN "restored" ELSE "damaged", update.previous)
    BY <1>10 DEF Undo
  <2>2. update.previous \in [Nodes -> Budgets]
    BY DEF Updates
  <2>3. budget' \in [Nodes -> Budgets]
    BY <2>1, <2>2
  <2>4. outcome' \in [Nodes -> Outcomes]
    BY <1>3, <2>1, <2>2
  <2> QED
    BY <1>2, <1>10, <2>1, <2>3, <2>4, Constructors DEF Undo
<1> QED
  BY <1>4, <1>5, <1>5a, <1>6, <1>7, <1>8, <1>9, <1>10 DEF UpdateStep

LEMMA StepTypes == Types /\ [Next]_allVars => Types'
<1> SUFFICES ASSUME Types, [Next]_allVars PROVE Types'
  OBVIOUS
<1>1. CASE StreamProgress /\ UNCHANGED <<update, outcome>>
  BY <1>1 DEF StreamProgress, Drained, Types, TypeOK, CallOK, options
<1>2. ASSUME NEW p \in Profiles, SelectProfile(p), UNCHANGED <<update, outcome>>
      PROVE  Types'
  BY <1>2 DEF SelectProfile, Types, TypeOK, CallOK, options
<1>3. CASE UNCHANGED allVars
  BY <1>3 DEF allVars, vars, Types, TypeOK, CallOK, options
<1> QED
  BY <1>1, <1>2, <1>3, ComputeTypes, UpdateTypes DEF Next

(* The state of a session has its types (tensorrt_rtx_execution_provider.h *)
(* 341-505), for any engines, tensors and budgets.                         *)
THEOREM TypeCorrect == Spec => []TypeOK
<1>1. Types => TypeOK
  BY DEF Types
<1> QED
  BY <1>1, InitTypes, StepTypes, PTL DEF Spec

-----------------------------------------------------------------------------
(* Contexts, work and budgets.                                             *)

\* What no step of a call does: make or destroy a context, change a budget,
\* pass to another node, or enqueue work for any node but its own.
LEMMA ComputeFrame ==
  ASSUME Types, ComputeStep
  PROVE  /\ \A n \in Nodes : context'[n].live = context[n].live
         /\ UNCHANGED budget
         /\ call.pc = "idle" /\ call'.pc # "idle" => call'.node \in Nodes /\ context[call'.node].live
         /\ call.pc # "idle" => call'.pc = "idle" \/ call'.node = call.node
         /\ \A n \in Nodes : inflight'[n] # {} => inflight[n] # {} \/ Serves(n, {"enqueue"})
<1> USE DEF Types, TypeOK, CallOK, Serves
<1>1. ASSUME NEW n \in Nodes, NEW in, NEW out, BeginCompute(n, in, out)
      PROVE  /\ \A k \in Nodes : context'[k].live = context[k].live
             /\ call'.node = n /\ context[n].live
  BY <1>1 DEF BeginCompute, At, Contexts
<1>2. ASSUME call.pc # "idle"
      PROVE  /\ \A n \in Nodes : context'[n].live = context[n].live
             /\ call'.pc = "idle" \/ call'.node = call.node
  <2> call.node \in Nodes
    BY <1>2
  <2>1. CASE SwitchProfileFails \/ AllocFails \/ EnqueueFails \/ Finish
    BY <2>1 DEF SwitchProfileFails, AllocFails, EnqueueFails, Finish, Return, Idle
  <2>2. CASE KeepProfile \/ FirstRun \/ AlwaysBind \/ InputsChanged \/ Enqueue
    BY <2>2 DEF KeepProfile, FirstRun, AlwaysBind, InputsChanged, Enqueue, Goto, Calls
  <2>3. CASE OutputsSame \/ OutputsMoved
    BY <2>3 DEF OutputsSame, OutputsMoved, Calls
  <2>4. CASE SwitchProfile \/ BindInputs
    <3>1. call'.node = call.node
      BY <2>4 DEF SwitchProfile, BindInputs, Goto, Calls
    <3>2. CASE SwitchProfile
      BY <3>1, <3>2 DEF SwitchProfile, Contexts
    <3>3. CASE BindInputs
      BY <3>1, <3>3 DEF BindInputs, Contexts
    <3> QED
      BY <2>4, <3>2, <3>3
  <2>5. CASE BindInputsFails
    <3>1. \E in : context' = [context EXCEPT ![call.node].in = in]
      BY <2>5 DEF BindInputsFails
    <3> QED
      BY <2>5, <3>1 DEF BindInputsFails, Return, Idle, Contexts
  <2>6. CASE BindOutputs \/ BindOutputsFails
    <3>1. \E out : context' = [context EXCEPT ![call.node].out = out]
      BY <2>6 DEF BindOutputs, BindOutputsFails, BindContextOutputs
    <3>2. call'.pc = "idle" \/ call'.node = call.node
      <4>1. CASE BindOutputs
        BY <4>1 DEF BindOutputs, Calls
      <4>2. CASE BindOutputsFails
        BY <4>2 DEF BindOutputsFails, Return, Idle
      <4> QED
        BY <2>6, <4>1, <4>2
    <3> QED
      BY <3>1, <3>2 DEF Contexts
  <2>7. CASE UseKeptMemory
    BY <2>7 DEF UseKeptMemory, Calls, Contexts
  <2>8. CASE AllocFromMempool \/ AllocFromArena
    <3>1. PICK source : UseNewBlock(source)
      BY <2>8 DEF AllocFromMempool, AllocFromArena
    <3> QED
      BY <3>1 DEF UseNewBlock, Calls, Contexts
  <2> QED
    BY <1>2, <2>1, <2>2, <2>3, <2>4, <2>5, <2>6, <2>7, <2>8 DEF ComputeStep, BeginCompute, At
<1>4. UNCHANGED inflight \/ inflight' = [n \in Nodes |-> {}] \/ Enqueue
  BY DEF ComputeStep, BeginCompute, SwitchProfile, SwitchProfileFails, KeepProfile, FirstRun,
         AlwaysBind, InputsChanged, OutputsSame, OutputsMoved, BindInputs,
         BindInputsFails, BindOutputs, BindOutputsFails, UseKeptMemory, AllocFromMempool, AllocFromArena,
         AllocFails, EnqueueFails, Finish, Drained
<1>5. \A n \in Nodes : inflight'[n] # {} => inflight[n] # {} \/ (call.node = n /\ call.pc = "enqueue")
  BY <1>4 DEF Enqueue, At
<1>6. UNCHANGED budget
  BY DEF ComputeStep, BeginCompute, SwitchProfile, SwitchProfileFails, KeepProfile, FirstRun,
         AlwaysBind, InputsChanged, OutputsSame, OutputsMoved, BindInputs,
         BindInputsFails, BindOutputs, BindOutputsFails, UseKeptMemory, AllocFromMempool, AllocFromArena,
         AllocFails, Enqueue, EnqueueFails, Finish
<1>7. call.pc = "idle" => \E n \in Nodes : \E in, out : BeginCompute(n, in, out)
  BY DEF ComputeStep, SwitchProfile, SwitchProfileFails, KeepProfile, FirstRun,
         AlwaysBind, InputsChanged, MayCompare, OutputsSame, OutputsMoved, InputsSame, BindInputs,
         BindInputsFails, BindOutputs, BindOutputsFails, UseKeptMemory, AllocFromMempool, AllocFromArena,
         AllocFails, MustAllocate, Enqueue, EnqueueFails, Finish, At
<1> QED
  BY <1>1, <1>2, <1>5, <1>6, <1>7

LEMMA PlaceStep ==
  ASSUME Types, PlaceInv, [Next]_allVars
  PROVE  PlaceInv'
<1> USE DEF Types, TypeOK, CallOK, PlaceInv, Stage, At
<1>1. CASE Stage("idle") /\ ComputeStep /\ UNCHANGED <<update, outcome>>
  BY <1>1, ComputeFrame DEF Serves, Busy, Calls, Stages
<1>2. CASE StreamProgress /\ UNCHANGED <<update, outcome>>
  BY <1>2 DEF StreamProgress, Drained
<1>3. ASSUME NEW p \in Profiles, SelectProfile(p), UNCHANGED <<update, outcome>>
      PROVE  PlaceInv'
  BY <1>3 DEF SelectProfile
<1>4. ASSUME NEW b \in Budgets, NEW automatic \in BOOLEAN, BeginUpdate(b, automatic)
      PROVE  PlaceInv'
  BY <1>4 DEF BeginUpdate, Drained, Contexts, Busy
<1>5. ASSUME NEW n \in Nodes, ApplyBudget(n)
      PROVE  PlaceInv'
  BY <1>5 DEF ApplyBudget, Updates, Busy
<1>5a. ASSUME NEW n \in Nodes, ApplyBudgetUnlogged(n)
      PROVE  PlaceInv'
  BY <1>5a DEF ApplyBudgetUnlogged, Updates, Busy
<1>6. CASE ApplyBudgetFails
  BY <1>6 DEF ApplyBudgetFails, vars, Updates, Busy
<1>7. CASE RecreateSucceeds
  BY <1>7 DEF RecreateSucceeds, NoUpdate, Busy
<1>8. CASE RecreateFails
  BY <1>8 DEF RecreateFails, Updates, Busy
<1>9. CASE ResetContexts
  BY <1>9 DEF ResetContexts, Updates, Contexts, Busy
<1>10. CASE Undo
  BY <1>10 DEF Undo, NoUpdate, Busy
<1>11. CASE UNCHANGED allVars
  BY <1>11 DEF allVars, vars
<1> QED
  BY <1>1, <1>2, <1>3, <1>4, <1>5, <1>5a, <1>6, <1>7, <1>8, <1>9, <1>10, <1>11 DEF Next, UpdateStep

LEMMA PlaceInit == InitSession => PlaceInv
BY DEF InitSession, Init, Idle, NoUpdate, PlaceInv, Busy

(* A context is destroyed only when the work enqueued with it has run      *)
(* (ApplyRuntimeWeightStreamingBudget, line 4423).                         *)
THEOREM ContextsOutliveWork == Spec => []ContextOutlivesWork
<1>1. InitSession => Types /\ PlaceInv
  BY InitTypes, PlaceInit
<1>2. Types /\ PlaceInv /\ [Next]_allVars => (Types /\ PlaceInv)'
  BY StepTypes, PlaceStep
<1>3. PlaceInv => ContextOutlivesWork
  BY DEF PlaceInv, ContextOutlivesWork
<1> QED
  BY <1>1, <1>2, <1>3, PTL DEF Spec

LEMMA UpdateInit == InitSession => UpdateInv
BY DEF InitSession, Init, NoUpdate, NewContext, UpdateInv

LEMMA OutcomeFields ==
  ASSUME NEW told, NEW amount, NEW lost
  PROVE  /\ [told |-> told, budget |-> amount, lost |-> lost].told = told
         /\ [told |-> told, budget |-> amount, lost |-> lost].budget = amount
         /\ [told |-> told, budget |-> amount, lost |-> lost].lost = lost
OBVIOUS

\* What an engine of the update is told, field by field.
LEMMA TellsEach ==
  ASSUME NEW what, NEW amount, Tell(what, amount), NEW n \in Nodes, n \in update.engines
  PROVE  /\ outcome'[n].told = what /\ outcome'[n].budget = amount[n]
         /\ outcome'[n].lost = (n \in update.lost)
<1>1. PICK lost : lost = (n \in update.lost)
  OBVIOUS
<1>2. outcome'[n] = [told |-> what, budget |-> amount[n], lost |-> lost]
  BY <1>1, Zenon DEF Tell
<1> DEFINE r == [told |-> what, budget |-> amount[n], lost |-> lost]
<1>3. r.told = what /\ r.budget = amount[n] /\ r.lost = lost
  BY OutcomeFields
<1>4. outcome'[n] = r
  BY <1>2
<1> HIDE DEF r
<1> QED
  BY ONLY <1>1, <1>3, <1>4, Zenon

LEMMA UpdateStepInv ==
  ASSUME Types, PlaceInv, UpdateInv, [Next]_allVars
  PROVE  UpdateInv'
<1> USE DEF Types, TypeOK, CallOK, UpdateInv, Stage, At
<1>1. CASE Stage("idle") /\ ComputeStep /\ UNCHANGED <<update, outcome>>
  BY <1>1, ComputeFrame DEF Updates
<1>2. CASE (StreamProgress \/ \E p \in Profiles : SelectProfile(p)) /\ UNCHANGED <<update, outcome>>
  BY <1>2 DEF StreamProgress, SelectProfile
<1>3. ASSUME NEW b \in Budgets, NEW automatic \in BOOLEAN, BeginUpdate(b, automatic)
      PROVE  UpdateInv'
  BY <1>3 DEF BeginUpdate, Contexts
<1>4. ASSUME NEW n \in Nodes, ApplyBudget(n)
      PROVE  UpdateInv'
  BY <1>4 DEF ApplyBudget, Updates
<1>4a. ASSUME NEW n \in Nodes, ApplyBudgetUnlogged(n)
      PROVE  UpdateInv'
  BY <1>4a DEF ApplyBudgetUnlogged, Updates
<1>5. CASE ApplyBudgetFails
  BY <1>5 DEF ApplyBudgetFails, vars, Updates
<1>6. CASE RecreateSucceeds
  <2>1. \A n \in Nodes : /\ n \in update.engines => context'[n].live
                         /\ n \notin update.engines => context'[n] = context[n]
    BY <1>6 DEF RecreateSucceeds, RecreateContexts, NewContext
  <2>2. /\ update'.engines = {} /\ update'.applied = {} /\ update'.lost = {} /\ update'.pc = "idle"
        /\ UNCHANGED budget
    BY <1>6 DEF RecreateSucceeds, NoUpdate
  <2>3. \A n \in Nodes \ update.engines : outcome'[n] = outcome[n]
    BY <1>6 DEF RecreateSucceeds, Tell
  <2>4. update.applied = update.engines
    BY <1>6 DEF RecreateSucceeds
  <2>5. ASSUME NEW n \in Nodes, outcome'[n].told # "damaged"
        PROVE  context'[n].live /\ (~outcome'[n].lost => budget'[n] = outcome'[n].budget)
    <3>1. CASE n \in update.engines
      <4>1. outcome'[n].budget = update.target
        BY <1>6, <3>1, TellsEach DEF RecreateSucceeds
      <4>2. context'[n].live /\ budget'[n] = update.target
        BY <2>1, <2>2, <2>4, <3>1
      <4> QED
        BY <4>1, <4>2
    <3>2. CASE n \notin update.engines
      BY <2>1, <2>2, <2>3, <2>5, <3>2
    <3> QED
      BY <3>1, <3>2
  <2> QED
    BY <2>2, <2>5
<1>7. CASE RecreateFails
  BY <1>7 DEF RecreateFails, RecreateContexts, Updates
<1>8. CASE ResetContexts
  BY <1>8 DEF ResetContexts, Updates
<1>9. CASE Undo
  <2>1. PICK stuck \in SUBSET update.applied, failing, half \in SUBSET update.engines :
          /\ budget' = [n \in Nodes |-> IF n \in update.applied \ stuck THEN update.previous[n]
                                        ELSE budget[n]]
          /\ RecreateContexts(failing, half)
          /\ Tell(IF stuck \cup failing \cup half = {} THEN "restored" ELSE "damaged", update.previous)
    BY <1>9 DEF Undo
  <2>2. update'.engines = {} /\ update'.applied = {} /\ update'.lost = {} /\ update'.pc = "idle"
    BY <1>9 DEF Undo, NoUpdate
  <2>3. \A n \in Nodes : /\ n \notin update.engines => context'[n] = context[n]
                         /\ n \in update.engines \ failing => context'[n].live
    BY <2>1 DEF RecreateContexts, NewContext
  <2>4. CASE stuck \cup failing \cup half = {}
    <3>1. \A n \in update.engines \ update.lost : budget'[n] = update.previous[n]
      BY <2>1, <2>4 DEF Updates
    <3>2. \A n \in Nodes \ update.engines : outcome'[n] = outcome[n]
      BY <2>1, <2>4 DEF Tell
    <3>3. \A n \in Nodes \ update.engines : budget'[n] = budget[n]
      BY <2>1
    <3>4. ASSUME NEW n \in Nodes, outcome'[n].told # "damaged"
          PROVE  context'[n].live /\ (~outcome'[n].lost => budget'[n] = outcome'[n].budget)
      <4>1. CASE n \in update.engines
        <5>1. n \in update.engines \ failing
          BY <2>4, <4>1
        <5>2. context'[n].live /\ (n \notin update.lost => budget'[n] = update.previous[n])
          BY <2>3, <3>1, <5>1
        <5>3. outcome'[n].budget = update.previous[n] /\ outcome'[n].lost = (n \in update.lost)
          BY ONLY <2>1, <4>1, <2>4, TellsEach, <3>4
        <5> QED
          BY <5>2, <5>3
      <4>2. CASE n \notin update.engines
        BY <2>3, <3>2, <3>3, <3>4, <4>2
      <4> QED
        BY <4>1, <4>2
    <3> QED
      BY <2>2, <3>4
  <2>5. CASE stuck \cup failing \cup half # {}
    <3>1. \A n \in Nodes \ update.engines : outcome'[n] = outcome[n]
      BY <2>1, <2>5 DEF Tell
    <3>2. \A n \in Nodes \ update.engines : budget'[n] = budget[n]
      BY <2>1
    <3>3. ASSUME NEW n \in Nodes, outcome'[n].told # "damaged"
          PROVE  context'[n].live /\ (~outcome'[n].lost => budget'[n] = outcome'[n].budget)
      <4>1. n \notin update.engines /\ outcome'[n] = outcome[n]
        <5>1. CASE n \in update.engines
          <6>1. outcome'[n].told = "damaged"
            BY <2>1, <2>5, <5>1, TellsEach
          <6> QED
            BY <3>3, <6>1
        <5>2. CASE n \notin update.engines
          BY <3>1, <5>2
        <5> QED
          BY <5>1, <5>2
      <4> QED
        BY <2>3, <3>2, <3>3, <4>1
    <3> QED
      BY <2>2, <3>3
  <2> QED
    BY <2>4, <2>5
<1>10. CASE UNCHANGED allVars
  BY <1>10 DEF allVars, vars
<1> QED
  BY <1>1, <1>2, <1>3, <1>4, <1>4a, <1>5, <1>6, <1>7, <1>8, <1>9, <1>10 DEF Next, UpdateStep

(* A weight-streaming update leaves every engine with the budget and the   *)
(* context its status promises (ApplyRuntimeWeightStreamingBudget, lines   *)
(* 4408-4556), whichever of its stages fails, but for the budget of an     *)
(* engine that was set and could not be logged (line 513).                 *)
THEOREM UpdatesReportTruth == Spec => []UpdateReportsTruth
<1> DEFINE Inv == Types /\ PlaceInv /\ UpdateInv
<1>1. InitSession => Inv
  BY InitTypes, PlaceInit, UpdateInit
<1>2. Inv /\ [Next]_allVars => Inv'
  BY StepTypes, PlaceStep, UpdateStepInv
<1>3. Inv => UpdateReportsTruth
  BY DEF UpdateInv, UpdateReportsTruth, Stage
<1> QED
  BY <1>1, <1>2, <1>3, PTL DEF Spec

(* Every context of an engine is gone when its budget is changed, also     *)
(* when it is changed back (line 4479).                                    *)
THEOREM BudgetsWithoutContext == Spec => BudgetOnlyWithoutContext
<1> DEFINE Inv == Types /\ PlaceInv /\ UpdateInv
<1>1. InitSession => Inv
  BY InitTypes, PlaceInit, UpdateInit
<1>2. Inv /\ [Next]_allVars => Inv'
  BY StepTypes, PlaceStep, UpdateStepInv
<1>3. ASSUME Inv, [Next]_allVars
      PROVE  [\A n \in Nodes : budget'[n] # budget[n] => ~context[n].live]_allVars
  <2> USE <1>3 DEF Types, TypeOK
  <2>1. CASE ComputeStep
    BY <2>1, ComputeFrame
  <2>2. ASSUME NEW n \in Nodes, ApplyBudget(n)
        PROVE  \A k \in Nodes : budget'[k] # budget[k] => ~context[k].live
    BY <2>2 DEF ApplyBudget, PlaceInv, Stage
  <2>2a. ASSUME NEW n \in Nodes, ApplyBudgetUnlogged(n)
        PROVE  \A k \in Nodes : budget'[k] # budget[k] => ~context[k].live
    BY <2>2a DEF ApplyBudgetUnlogged, PlaceInv, UpdateInv, Stage
  <2>3. CASE Undo
    BY <2>3 DEF Undo, PlaceInv, UpdateInv, Stage
  <2> QED
    BY <2>1, <2>2, <2>2a, <2>3 DEF Next, UpdateStep, StreamProgress, SelectProfile, BeginUpdate,
       ApplyBudgetFails, RecreateSucceeds, RecreateFails, ResetContexts, allVars, vars
<1> QED
  BY <1>1, <1>2, <1>3, PTL DEF Spec, BudgetOnlyWithoutContext

-----------------------------------------------------------------------------
(* Bindings.                                                               *)

LEMMA BindInit == InitSession => BindInv
BY DEF InitSession, Init, BindInv, CachesDescribe, CallOnCourse, Serves, Busy, NewState, Idle

\* A node that serves no call keeps its invariant as long as nothing of it changes.
LEMMA Bystander ==
  ASSUME NEW k \in Nodes, CachesDescribe(k),
         ~Serves(k, Busy), ~Serves(k, Busy)', state'[k] = state[k],
         context'[k].in = context[k].in, context'[k].out = context[k].out
  PROVE  CachesDescribe(k)' /\ CallOnCourse(k)'
BY DEF CachesDescribe, CallOnCourse, Serves, Busy, InputDims

\* A node whose call ends, with the bindings and caches it had in its last stage.
LEMMA CallEnds ==
  ASSUME NEW k \in Nodes, CachesDescribe(k), call.node = k,
         call.pc \in {"profile", "memory", "enqueue", "finish"}, call'.pc = "idle",
         state'[k] = state[k], context'[k].in = context[k].in, context'[k].out = context[k].out
  PROVE  CachesDescribe(k)' /\ CallOnCourse(k)'
BY DEF CachesDescribe, CallOnCourse, Serves, Busy, InputDims

LEMMA OwnNodeOnly ==
  ASSUME Types, ComputeStep, call.pc # "idle",
         NEW k \in Nodes, k # call.node
  PROVE  context'[k] = context[k] /\ state'[k] = state[k]
<1> USE DEF Types, TypeOK, CallOK
<1>1. CASE UNCHANGED <<context, state>>
  BY <1>1
<1>2. CASE SwitchProfile
  BY <1>2 DEF SwitchProfile
<1>3. CASE FirstRun \/ InputsChanged
  BY <1>3 DEF FirstRun, InputsChanged
<1>4. CASE BindInputs
  BY <1>4 DEF BindInputs
<1>5. CASE BindInputsFails
  BY <1>5 DEF BindInputsFails
<1>6. CASE BindOutputs \/ BindOutputsFails
  <2>1. \E os : BindContextOutputs(os)
    BY <1>6 DEF BindOutputs, BindOutputsFails
  <2> QED
    BY <2>1 DEF BindContextOutputs
<1>7. CASE UseKeptMemory
  BY <1>7 DEF UseKeptMemory
<1>8. CASE AllocFromMempool \/ AllocFromArena
  <2>1. \E source : UseNewBlock(source)
    BY <1>8 DEF AllocFromMempool, AllocFromArena
  <2> QED
    BY <2>1 DEF UseNewBlock
<1> QED
  BY <1>1, <1>2, <1>3, <1>4, <1>5, <1>6, <1>7, <1>8
     DEF ComputeStep, BeginCompute, At, SwitchProfileFails, KeepProfile, AlwaysBind, OutputsSame,
         OutputsMoved, AllocFails, Enqueue, EnqueueFails, Finish

\* The stages of a call of node k, one by one.
LEMMA CallKeepsBindInv ==
  ASSUME Types, ComputeStep, NEW k \in Nodes \ rejected', Serves(k, Busy),
         CachesDescribe(k), CallOnCourse(k)
  PROVE  CachesDescribe(k)' /\ CallOnCourse(k)'
<1> USE ComputeConstants
<1> DEFINE C == context[k]  S == state[k]
<1>1. k \in Nodes /\ call.node = k /\ call.pc \in Busy /\ C \in Contexts /\ S \in ComputeStates /\ call \in Calls
  BY DEF Serves, Types, TypeOK
<1>2. context \in [Nodes -> Contexts] /\ state \in [Nodes -> ComputeStates]
  BY DEF Types, TypeOK
<1> HIDE DEF C, S
<1>3. CASE SwitchProfile
  <2>1. /\ state' = state /\ trt_profile_index' = trt_profile_index
        /\ call' = [call EXCEPT !.pc = "decide", !.rebind = TRUE] /\ call.pc = "profile"
    BY <1>3 DEF SwitchProfile, At
  <2>2. context'[k].profile = trt_profile_index /\ context'[k].out = context[k].out
    BY <1>1, <1>2, <1>3 DEF SwitchProfile, Contexts
  <2>3. /\ call'.pc = "decide" /\ call'.rebind = TRUE /\ call'.node = k
        /\ call'.asked = call.asked
    BY <1>1, <2>1 DEF Calls
  <2> QED
    BY <1>1, <2>1, <2>2, <2>3 DEF CachesDescribe, CallOnCourse, Serves, Busy, InputDims
<1>4. CASE KeepProfile
  <2>1. /\ UNCHANGED <<state, context, trt_profile_index>> /\ call.pc = "profile"
        /\ context[k].profile = trt_profile_index /\ call' = [call EXCEPT !.pc = "decide"]
    BY <1>1, <1>4 DEF KeepProfile, At, Mine, Goto
  <2>2. call'.pc = "decide" /\ call'.node = k /\ call'.asked = call.asked
    BY <1>1, <2>1 DEF Calls
  <2> QED
    BY <1>1, <2>1, <2>2 DEF CachesDescribe, CallOnCourse, Serves, Busy, InputDims
<1>5. CASE SwitchProfileFails \/ AllocFails \/ EnqueueFails \/ Finish
  <2>1. /\ UNCHANGED <<state, context>> /\ call' = Idle
        /\ call.pc \in {"profile", "memory", "enqueue", "finish"}
    BY <1>5 DEF SwitchProfileFails, AllocFails, EnqueueFails, Finish, Return, At, MustAllocate
  <2> QED
    BY <1>1, <2>1, CallEnds DEF Idle
<1>6. CASE FirstRun \/ InputsChanged
  <2>1. /\ UNCHANGED <<context, trt_profile_index>> /\ call.pc = "decide"
        /\ call' = [call EXCEPT !.pc = "bind_in"]
    BY <1>6 DEF FirstRun, InputsChanged, MayCompare, At, Goto
  <2>2. /\ ~state'[k].is_first_run /\ state'[k].input_tensors = call.in
        /\ state'[k].skip_io_binding_allowed = state[k].skip_io_binding_allowed
    <3>1. CASE FirstRun
      BY <1>1, <1>2, <3>1 DEF FirstRun, ComputeStates
    <3>2. CASE InputsChanged
      BY <1>1, <1>2, <3>2 DEF InputsChanged, MayCompare, Cached, ComputeStates
    <3> QED
      BY <1>6, <3>1, <3>2
  <2>3. call'.pc = "bind_in" /\ call'.node = k /\ call'.in = call.in
    BY <1>1, <2>1 DEF Calls
  <2> QED
    BY <1>1, <2>1, <2>2, <2>3 DEF CachesDescribe, CallOnCourse, Serves, Busy
<1>7. CASE AlwaysBind
  <2>1. /\ UNCHANGED <<context, state, trt_profile_index>> /\ call.pc = "decide"
        /\ ~state[k].is_first_run /\ ~state[k].skip_io_binding_allowed
        /\ call' = [call EXCEPT !.pc = "bind_in"]
    BY <1>1, <1>7 DEF AlwaysBind, At, Cached, Goto
  <2>2. call'.pc = "bind_in" /\ call'.node = k /\ call'.in = call.in
    BY <1>1, <2>1 DEF Calls
  <2>3. ShapeInputs # {}
    BY <1>1, <2>1 DEF CachesDescribe, Serves
  <2> QED
    BY <1>1, <2>1, <2>2, <2>3 DEF CachesDescribe, CallOnCourse, Serves, Busy
<1>8. CASE OutputsMoved
  <2>1. PICK asked : call' = [call EXCEPT !.asked = asked, !.pc = "bind_in"]
    BY <1>8 DEF OutputsMoved
  <2>2. /\ UNCHANGED <<context, state, trt_profile_index>> /\ call.pc = "decide"
        /\ ~state[k].is_first_run /\ state[k].input_tensors = call.in
    BY <1>1, <1>8 DEF OutputsMoved, InputsSame, MayCompare, At, Cached
  <2>3. call'.pc = "bind_in" /\ call'.node = k /\ call'.in = call.in
    BY <1>1, <2>1 DEF Calls
  <2> QED
    BY <1>1, <2>2, <2>3 DEF CachesDescribe, CallOnCourse, Serves, Busy
<1>9. CASE OutputsSame
  <2>1. /\ UNCHANGED <<context, state, trt_profile_index>> /\ call.pc = "decide"
        /\ ~state[k].is_first_run /\ state[k].input_tensors = call.in
        /\ state[k].skip_io_binding_allowed /\ Moved = {}
        /\ call' = [call EXCEPT !.asked = AskedFor(Comparable, CachedDims),
                                !.pc = IF call.rebind THEN "bind_in" ELSE "memory"]
    BY <1>1, <1>9 DEF OutputsSame, InputsSame, MayCompare, At, Cached
  <2>2. /\ call'.pc = IF call.rebind THEN "bind_in" ELSE "memory"
        /\ call'.node = k /\ call'.in = call.in /\ call'.out = call.out
        /\ call'.asked = AskedFor(Comparable, CachedDims)
    BY <1>1, <2>1 DEF Calls
  <2>3. CASE call.rebind
    BY <1>1, <2>1, <2>2, <2>3 DEF CachesDescribe, CallOnCourse, Serves, Busy
  <2>4. CASE ~call.rebind
    <3>1. /\ context[k].in = call.in
          /\ \A o \in DDSOutputs : context[k].out[o] = Deferred
          /\ \A o \in Outputs \ DDSOutputs : /\ context[k].out[o] = state[k].output_tensors[o].data
                                             /\ state[k].output_tensors[o].dims = InputDims(k)
      BY <1>1, <2>1, <2>4 DEF CachesDescribe, Serves
    <3>2. InputDims(k) = RunDims /\ RunDims \in Dims
      BY <1>1, <2>1 DEF InputDims, RunDims, Dims, Calls, MaybeTensors
    <3>3. Deferred \notin Dims
      BY DEF Dims
    <3>4. ASSUME NEW o \in Outputs \ DDSOutputs
          PROVE  state[k].output_tensors[o].data = call.out[o] /\ call'.asked[o] = RunDims
      <4>1. o \in Comparable
        BY <1>1, <3>1, <3>2, <3>3 DEF Comparable, Cached
      <4> QED
        BY <1>1, <2>1, <2>2, <3>1, <3>2, <4>1 DEF Moved, OutputBinding, AskedFor, CachedDims, Cached
    <3>5. BoundToRun'
      BY <1>1, <2>1, <2>2, <3>1, <3>2, <3>4 DEF BoundToRun, Mine, OutputBinding, RunDims
    <3>6. call'.pc = "memory"
      BY <2>2, <2>4
    <3>7. CallOnCourse(k)'
      BY <1>1, <2>1, <2>2, <3>5, <3>6 DEF CallOnCourse, Serves, Busy
    <3>8. CachesDescribe(k)'
      BY <1>1, <2>1, <2>2, <2>4, <3>6, ZenonT(40) DEF CachesDescribe, Serves, InputDims
    <3> QED
      BY <3>7, <3>8
  <2> QED
    BY <2>3, <2>4
<1>10. CASE BindInputs
  <2>1. /\ UNCHANGED trt_profile_index /\ call.pc = "bind_in" /\ call' = [call EXCEPT !.pc = "bind_out"]
    BY <1>10 DEF BindInputs, At, Goto
  <2>2. /\ context'[k].in = call.in /\ context'[k].profile = context[k].profile
        /\ state'[k].skip_io_binding_allowed = (ShapeInputs = {})
        /\ state'[k].is_first_run = state[k].is_first_run
        /\ state'[k].input_tensors = state[k].input_tensors
    BY <1>1, <1>2, <1>10 DEF BindInputs, Contexts, ComputeStates
  <2>3. call'.pc = "bind_out" /\ call'.node = k /\ call'.in = call.in
    BY <1>1, <2>1 DEF Calls
  <2> QED
    BY <1>1, <2>1, <2>2, <2>3 DEF CachesDescribe, CallOnCourse, Serves, Busy
<1>11. CASE BindOutputs
  <2>1. UNCHANGED trt_profile_index /\ call.pc = "bind_out" /\ BindContextOutputs(Outputs)
    BY <1>11 DEF BindOutputs, At
  <2>2. /\ call'.pc = "memory" /\ call'.node = k /\ call'.in = call.in /\ call'.out = call.out
        /\ call'.asked = AskedFor(Outputs \ DDSOutputs, [o \in Outputs |-> InferredDims(Mine)])
    BY <1>1, <1>11 DEF BindOutputs, Calls
  <2>3. /\ context'[k].in = context[k].in /\ context'[k].profile = context[k].profile
        /\ \A o \in Outputs : context'[k].out[o] = OutputBinding(o)
    BY <1>1, <1>2, <2>1 DEF BindContextOutputs, Contexts
  <2>4. /\ state'[k].skip_io_binding_allowed = state[k].skip_io_binding_allowed
        /\ state'[k].is_first_run = state[k].is_first_run
        /\ state'[k].input_tensors = state[k].input_tensors
        /\ \A o \in Outputs : state'[k].output_tensors[o] = OutputParams(o)
    BY <1>1, <1>2, <2>1 DEF BindContextOutputs, ComputeStates
  <2>5. InferredDims(Mine) = RunDims
    BY <1>1, <2>1 DEF CallOnCourse, Serves, InferredDims, RunDims, Mine
  <2>6. BoundToRun'
    BY <1>1, <2>1, <2>2, <2>3, <2>5 DEF BoundToRun, CallOnCourse, Serves, Mine, OutputBinding, RunDims,
       AskedFor
  <2>7. ShapeInputs = {} => InputDims(k)' = RunDims
    BY <1>1, <2>1, <2>4 DEF CallOnCourse, Serves, InputDims, RunDims
  <2>8. \A o \in Outputs \ DDSOutputs :
          context'[k].out[o] = state'[k].output_tensors[o].data /\ state'[k].output_tensors[o].dims = RunDims
    <3>1. ASSUME NEW o \in Outputs \ DDSOutputs
          PROVE  /\ OutputBinding(o) = call.out[o]
                 /\ OutputParams(o) = [data |-> call.out[o], dims |-> InferredDims(Mine)]
      BY DEF OutputBinding, OutputParams
    <3> QED
      BY <2>3, <2>4, <2>5, <3>1
  <2>9. \A o \in DDSOutputs : context'[k].out[o] = Deferred /\ state'[k].output_tensors[o].dims = Deferred
    <3>1. \A o \in DDSOutputs : /\ o \in Outputs /\ OutputBinding(o) = Deferred
                                /\ OutputParams(o) = [data |-> None, dims |-> Deferred]
      BY DEF OutputBinding, OutputParams
    <3> QED
      BY <2>3, <2>4, <3>1
  <2> QED
    BY <1>1, <2>1, <2>2, <2>3, <2>4, <2>6, <2>7, <2>8, <2>9 DEF CachesDescribe, CallOnCourse, Serves, Busy
<1>12. CASE BindInputsFails \/ BindOutputsFails
  BY <1>1, <1>12 DEF BindInputsFails, BindOutputsFails
<1>13. CASE UseKeptMemory \/ AllocFromMempool \/ AllocFromArena \/ Enqueue
  <2>1. /\ UNCHANGED trt_profile_index /\ call.pc \in {"memory", "enqueue"}
        /\ call'.pc \in {"enqueue", "finish"} /\ call'.node = k
        /\ call'.in = call.in /\ call'.out = call.out /\ call'.asked = call.asked
    BY <1>1, <1>13 DEF UseKeptMemory, AllocFromMempool, AllocFromArena, MustAllocate, UseNewBlock,
                       Enqueue, At, Goto, Calls
  <2>2. /\ context'[k].in = context[k].in /\ context'[k].out = context[k].out
        /\ context'[k].profile = context[k].profile
    BY <1>1, <1>2, <1>13 DEF UseKeptMemory, AllocFromMempool, AllocFromArena, UseNewBlock, Enqueue, Contexts
  <2>3. /\ state'[k].skip_io_binding_allowed = state[k].skip_io_binding_allowed
        /\ state'[k].is_first_run = state[k].is_first_run
        /\ state'[k].input_tensors = state[k].input_tensors
        /\ state'[k].output_tensors = state[k].output_tensors
    BY <1>1, <1>2, <1>13 DEF UseKeptMemory, AllocFromMempool, AllocFromArena, UseNewBlock, Enqueue,
                             ComputeStates
  <2>4. BoundToRun'
    BY <1>1, <2>1, <2>2 DEF CallOnCourse, Serves, BoundToRun, Mine, OutputBinding, RunDims
  <2> QED
    BY <1>1, <2>1, <2>2, <2>3, <2>4 DEF CachesDescribe, CallOnCourse, Serves, Busy, InputDims
<1> QED
  BY <1>1, <1>3, <1>4, <1>5, <1>6, <1>7, <1>8, <1>9, <1>10, <1>11, <1>12, <1>13
     DEF ComputeStep, BeginCompute, At, Busy

LEMMA ComputeKeepsBindInv ==
  ASSUME Types, PlaceInv, BindInv, ComputeStep
  PROVE  BindInv'
<1> SUFFICES ASSUME NEW k \in Nodes \ rejected'
             PROVE  CachesDescribe(k)' /\ CallOnCourse(k)'
  BY DEF BindInv
<1>1. k \notin rejected /\ CachesDescribe(k) /\ CallOnCourse(k)
  <2>1. rejected \subseteq rejected'
    BY DEF ComputeStep, BeginCompute, SwitchProfile, SwitchProfileFails, KeepProfile, FirstRun,
         AlwaysBind, InputsChanged, OutputsSame, OutputsMoved, BindInputs, BindInputsFails, BindOutputs,
         BindOutputsFails, UseKeptMemory, AllocFromMempool, AllocFromArena, AllocFails, Enqueue,
         EnqueueFails, Finish
  <2> QED
    BY <2>1 DEF BindInv
<1>2. CASE Serves(k, Busy)
  BY <1>1, <1>2, CallKeepsBindInv
<1>3. ASSUME NEW n \in Nodes, NEW in, NEW out, BeginCompute(n, in, out)
      PROVE  CachesDescribe(k)' /\ CallOnCourse(k)'
  <2>1. /\ call.pc = "idle" /\ call'.pc = "profile" /\ call'.node = n
        /\ call'.asked = [o \in Outputs |-> None] /\ state' = state
    BY <1>3 DEF BeginCompute, At, Idle
  <2>2. context'[k].out = context[k].out
    BY <1>3 DEF BeginCompute, Types, TypeOK, Contexts
  <2>3. ShapeInputs = {} => context'[k].in = context[k].in
    <3>1. context[k].in = [i \in Inputs |-> context[k].in[i]]
      BY DEF Types, TypeOK, Contexts
    <3>2. context \in [Nodes -> Contexts]
      BY DEF Types, TypeOK
    <3>3. CASE k = n /\ ShapeInputs = {}
      <4>1. context'[k].in = [i \in Inputs |-> context[k].in[i]]
        BY <1>3, <3>2, <3>3 DEF BeginCompute, Contexts
      <4> QED
        BY <3>1, <4>1
    <3>4. CASE k # n
      BY <1>3, <3>2, <3>4 DEF BeginCompute
    <3> QED
      BY <3>3, <3>4
  <2>4. CallOnCourse(k)'
    BY <2>1 DEF CallOnCourse, Serves, Busy
  <2>5. CachesDescribe(k)'
    BY <1>1, <2>1, <2>2, <2>3 DEF CachesDescribe, Serves, InputDims
  <2> QED
    BY <2>4, <2>5
<1>4. CASE call.pc # "idle" /\ call.node # k
  <2>1. ~Serves(k, Busy) /\ ~Serves(k, Busy)'
    BY <1>4, ComputeFrame DEF Serves, Busy
  <2> QED
    BY <1>1, <1>4, <2>1, OwnNodeOnly, Bystander
<1>5. call.pc = "idle" => \E n \in Nodes : \E in, out : BeginCompute(n, in, out)
  BY DEF ComputeStep, SwitchProfile, SwitchProfileFails, KeepProfile, FirstRun,
         AlwaysBind, InputsChanged, MayCompare, OutputsSame, OutputsMoved, InputsSame, BindInputs,
         BindInputsFails, BindOutputs, BindOutputsFails, UseKeptMemory, AllocFromMempool, AllocFromArena,
         AllocFails, MustAllocate, Enqueue, EnqueueFails, Finish, At
<1> QED
  BY <1>2, <1>3, <1>4, <1>5 DEF Serves, Busy, Types, TypeOK, Calls, Stages

LEMMA UpdateKeepsBindInv ==
  ASSUME Types, PlaceInv, BindInv, UpdateStep
  PROVE  BindInv'
<1>1. UNCHANGED call /\ call.pc = "idle"
  BY DEF UpdateStep, BeginUpdate, ApplyBudget, ApplyBudgetUnlogged, ApplyBudgetFails,
         RecreateSucceeds, RecreateFails,
         ResetContexts, Undo, PlaceInv, Stage, At, vars
<1>2. \A k \in Nodes : ~Serves(k, Busy) /\ ~Serves(k, Busy)'
  BY <1>1 DEF Serves, Busy
<1>3. CASE UNCHANGED <<state, rejected>> /\ \A k \in Nodes : /\ context'[k].in = context[k].in
                                                             /\ context'[k].out = context[k].out
  BY <1>2, <1>3, Bystander DEF BindInv
<1>4. ASSUME NEW failing \in SUBSET update.engines, NEW half \in SUBSET update.engines,
             RecreateContexts(failing, half)
      PROVE  BindInv'
  <2> SUFFICES ASSUME NEW k \in Nodes \ rejected' PROVE CachesDescribe(k)' /\ CallOnCourse(k)'
    BY DEF BindInv
  <2>1. CallOnCourse(k)'
    BY <1>2 DEF CallOnCourse, Serves, Busy
  <2>2. k \notin half
    BY <1>4 DEF RecreateContexts
  <2>3. CASE k \in update.engines \ failing
    <3>1. state'[k].is_first_run /\ ~state'[k].skip_io_binding_allowed
      BY <1>4, <2>2, <2>3 DEF RecreateContexts, Types, TypeOK, ComputeStates
    <3> QED
      BY <2>1, <3>1 DEF CachesDescribe
  <2>4. CASE k \notin update.engines \ failing
    <3>1. context'[k] = context[k] /\ state'[k] = state[k] /\ k \notin rejected
      BY <1>4, <2>4 DEF RecreateContexts
    <3> QED
      BY <1>2, <3>1, Bystander DEF BindInv
  <2> QED
    BY <2>3, <2>4
<1>5. ASSUME NEW engines \in SUBSET Nodes,
             context' = [n \in Nodes |-> IF n \in engines THEN [context[n] EXCEPT !.live = FALSE]
                                         ELSE context[n]]
      PROVE  \A k \in Nodes : context'[k].in = context[k].in /\ context'[k].out = context[k].out
  BY <1>5 DEF Types, TypeOK, Contexts
<1>6. ASSUME NEW b, NEW automatic, BeginUpdate(b, automatic)
      PROVE  BindInv'
  BY <1>3, <1>5, <1>6 DEF BeginUpdate
<1>7. CASE ApplyBudgetFails \/ \E n \in Nodes : ApplyBudget(n) \/ ApplyBudgetUnlogged(n)
  BY <1>3, <1>7 DEF ApplyBudgetFails, ApplyBudget, ApplyBudgetUnlogged, vars
<1>8. CASE ResetContexts
  BY <1>3, <1>5, <1>8 DEF ResetContexts, Types, TypeOK, Updates
<1>9. CASE RecreateSucceeds \/ RecreateFails \/ Undo
  BY <1>4, <1>9 DEF RecreateSucceeds, RecreateFails, Undo
<1> QED
  BY <1>6, <1>7, <1>8, <1>9 DEF UpdateStep

LEMMA BindStep ==
  ASSUME Types, PlaceInv, BindInv, [Next]_allVars
  PROVE  BindInv'
<1>1. CASE StreamProgress \/ UNCHANGED allVars
  BY <1>1 DEF StreamProgress, allVars, vars, BindInv, CachesDescribe, CallOnCourse, Serves, InputDims,
              BoundToRun, Mine, OutputBinding, RunDims
<1>2. ASSUME NEW p \in Profiles, SelectProfile(p)
      PROVE  BindInv'
  <2>1. \A k \in Nodes : ~Serves(k, Busy) /\ ~Serves(k, Busy)'
    BY <1>2 DEF SelectProfile, At, Serves, Busy
  <2> QED
    BY <1>2, <2>1, Bystander DEF SelectProfile, BindInv
<1> QED
  BY <1>1, <1>2, ComputeKeepsBindInv, UpdateKeepsBindInv DEF Next

(* Skipping the binding is sound: while making its context and binding on  *)
(* it have not failed, a node's inference is enqueued on the tensors of    *)
(* its own run, in its profile (ComputeImpl, lines 6021-6341).             *)
THEOREM BindingsCorrect == Spec => []BindingsFresh
<1> DEFINE Inv == Types /\ PlaceInv /\ BindInv
<1>1. InitSession => Inv
  BY InitTypes, PlaceInit, BindInit
<1>2. Inv /\ [Next]_allVars => Inv'
  BY StepTypes, PlaceStep, BindStep
<1>3. Inv => BindingsFresh
  BY DEF PlaceInv, BindInv, CallOnCourse, Serves, Busy, BindingsFresh, At, Mine
<1> QED
  BY <1>1, <1>2, <1>3, PTL DEF Spec

-----------------------------------------------------------------------------
(* Context memory.                                                         *)

LEMMA NeedsAreSizes ==
  ASSUME Types, NEW n \in Nodes
  PROVE  /\ ShapeBytes(n) \in Nat /\ EngineBytes(n) \in Nat
         /\ ShapeBytes(n) <= EngineBytes(n) /\ EngineBytes(n) = EngineNeed[budget[n]]
<1>1. budget[n] \in Budgets /\ context[n] \in Contexts
  BY DEF Types, TypeOK
<1>2. InferredDims(context[n]) \in [Inputs -> Shapes \cup {None}]
  BY <1>1 DEF InferredDims, Contexts, MaybeTensors
<1> QED
  BY <1>1, <1>2, ComputeConstants DEF ShapeBytes, EngineBytes

LEMMA MemoryInit == InitSession => MemoryInv
BY DEF InitSession, Init, NewState, Idle, NoUpdate, MemoryInv, ContextMemoryCovers, At

\* What is kept changes only by an allocation, which is as large as it must be.
LEMMA ComputeKeepsMemory ==
  ASSUME Types, ComputeStep, NEW n \in Nodes
  PROVE  \/ state'[n].execution_context_memory = state[n].execution_context_memory
         \/ state'[n].execution_context_memory = EngineNeed[budget[n]]
<1> USE DEF Types, TypeOK, CallOK
<1>1. CASE UNCHANGED state
  BY <1>1
<1>2. CASE FirstRun \/ InputsChanged \/ BindInputs
  <2>1. state \in [Nodes -> ComputeStates] /\ call.node \in Nodes
    BY <1>2 DEF FirstRun, InputsChanged, MayCompare, BindInputs, At
  <2>2. CASE FirstRun
    BY <2>1, <2>2 DEF FirstRun, ComputeStates
  <2>3. CASE InputsChanged
    BY <2>1, <2>3 DEF InputsChanged, ComputeStates
  <2>4. CASE BindInputs
    BY <2>1, <2>4 DEF BindInputs, ComputeStates
  <2> QED
    BY <1>2, <2>2, <2>3, <2>4
<1>3. CASE BindOutputs \/ BindOutputsFails
  <2>1. \E out : state' = [state EXCEPT ![call.node].output_tensors = out]
    BY <1>3 DEF BindOutputs, BindOutputsFails, BindContextOutputs
  <2> QED
    BY <2>1 DEF ComputeStates
<1>4. CASE AllocFromMempool \/ AllocFromArena
  <2>1. \E source : UseNewBlock(source)
    BY <1>4 DEF AllocFromMempool, AllocFromArena
  <2> QED
    BY <2>1, NeedsAreSizes DEF UseNewBlock, BlockSize, ComputeStates
<1> QED
  BY <1>1, <1>2, <1>3, <1>4
     DEF ComputeStep, BeginCompute, SwitchProfile, SwitchProfileFails, KeepProfile, AlwaysBind, OutputsSame,
         OutputsMoved, BindInputsFails, UseKeptMemory, AllocFails, Enqueue, EnqueueFails, Finish

\* A call reaches enqueueV3 with memory it has just chosen.
LEMMA ChosenMemoryCovers ==
  ASSUME Types, MemoryInv, update.engines = {}, ComputeStep, UNCHANGED outcome
  PROVE  ContextMemoryCovers'
<1> SUFFICES ASSUME call'.pc = "enqueue",
                    session'.persistent => outcome[call'.node].told = "nothing"
             PROVE  context'[call'.node].memory >= ShapeBytes(call.node)'
  BY DEF ContextMemoryCovers, At, Mine
<1> USE DEF Types, TypeOK, CallOK
<1>1. \/ UseKeptMemory \/ AllocFromMempool \/ AllocFromArena
  <2>1. CASE \/ SwitchProfileFails \/ BindInputsFails \/ BindOutputsFails \/ AllocFails
             \/ EnqueueFails \/ Finish
    BY <2>1 DEF SwitchProfileFails, BindInputsFails, BindOutputsFails, AllocFails, EnqueueFails, Finish,
                Return, Idle
  <2>2. CASE SwitchProfile \/ KeepProfile \/ FirstRun \/ AlwaysBind \/ InputsChanged \/ BindInputs \/ Enqueue
    BY <2>2 DEF SwitchProfile, KeepProfile, FirstRun, AlwaysBind, InputsChanged, BindInputs, Enqueue,
                Goto, Calls
  <2>3. CASE OutputsSame \/ OutputsMoved \/ BindOutputs
    BY <2>3 DEF OutputsSame, OutputsMoved, BindOutputs, Calls
  <2>4. ASSUME NEW n \in Nodes, NEW in, NEW out, BeginCompute(n, in, out)
        PROVE  FALSE
    BY <2>4 DEF BeginCompute, Idle
  <2> QED
    BY <2>1, <2>2, <2>3, <2>4 DEF ComputeStep
<1>2. call.node \in Nodes /\ call'.node = call.node /\ session' = session /\ budget' = budget
  BY <1>1 DEF UseKeptMemory, AllocFromMempool, AllocFromArena, MustAllocate, UseNewBlock, At, Calls, options
<1>3. /\ ShapeBytes(call.node) \in Nat /\ EngineBytes(call.node) \in Nat
      /\ ShapeBytes(call.node) <= EngineBytes(call.node)
      /\ EngineBytes(call.node) = EngineNeed[budget[call.node]]
  BY <1>2, NeedsAreSizes
<1>5. context'[call.node].in = context[call.node].in
  <2>1. CASE UseKeptMemory
    BY <1>2, <2>1 DEF UseKeptMemory, Contexts
  <2>2. CASE \E source : UseNewBlock(source)
    BY <1>2, <2>2 DEF UseNewBlock, Contexts
  <2> QED
    BY <1>1, <2>1, <2>2 DEF AllocFromMempool, AllocFromArena
<1>6. ShapeBytes(call.node)' = ShapeBytes(call.node)
  BY <1>2, <1>5 DEF ShapeBytes, InferredDims
<1>7. CASE UseKeptMemory
  <2>1. CASE ShapeBytes(call.node) = 0
    BY <1>2, <1>6, <1>7, <2>1 DEF UseKeptMemory, Contexts
  <2>2. CASE ShapeBytes(call.node) # 0
    <3>1. Kept > 0 /\ context'[call.node].memory = Kept
      BY <1>2, <1>7, <2>2 DEF UseKeptMemory, Contexts
    <3>2. session.persistent /\ Kept = state[call.node].execution_context_memory
      BY <3>1 DEF Kept, Cached
    <3>3. state[call.node].execution_context_memory = EngineNeed[budget[call.node]]
      BY <1>2, <3>1, <3>2 DEF MemoryInv
    <3> QED
      BY <1>2, <1>3, <1>6, <3>1, <3>2, <3>3
  <2> QED
    BY <2>1, <2>2
<1>8. CASE AllocFromMempool \/ AllocFromArena
  <2>1. context'[call.node].memory = BlockSize
    BY <1>2, <1>8 DEF AllocFromMempool, AllocFromArena, UseNewBlock, Contexts
  <2> QED
    BY <1>2, <1>3, <1>6, <2>1 DEF BlockSize
<1> QED
  BY <1>1, <1>7, <1>8

LEMMA MemoryStep ==
  ASSUME Types, PlaceInv, UpdateInv, MemoryInv, [Next]_allVars
  PROVE  MemoryInv'
<1> USE DEF Types, TypeOK, Stage, At
<1>1. CASE Stage("idle") /\ ComputeStep /\ UNCHANGED <<update, outcome>>
  <2>1. update.engines = {} /\ UNCHANGED budget
    BY <1>1, ComputeFrame DEF UpdateInv
  <2>2. ContextMemoryCovers'
    BY <1>1, <2>1, ChosenMemoryCovers
  <2> QED
    BY <1>1, <2>1, <2>2, ComputeKeepsMemory DEF MemoryInv
<1>2. CASE StreamProgress /\ UNCHANGED <<update, outcome>>
  BY <1>2 DEF StreamProgress, MemoryInv, ContextMemoryCovers, Mine, ShapeBytes, InferredDims, options
<1>3. ASSUME NEW p \in Profiles, SelectProfile(p), UNCHANGED <<update, outcome>>
      PROVE  MemoryInv'
  BY <1>3 DEF SelectProfile, MemoryInv, ContextMemoryCovers
<1>4. CASE UpdateStep
  <2>1. ContextMemoryCovers'
    BY <1>4 DEF UpdateStep, BeginUpdate, ApplyBudget, ApplyBudgetUnlogged, ApplyBudgetFails,
         RecreateSucceeds, RecreateFails,
                ResetContexts, Undo, PlaceInv, vars, ContextMemoryCovers
  <2>2. \A n \in Nodes : state'[n].execution_context_memory = state[n].execution_context_memory
    <3>1. UNCHANGED state \/ \E failing, half : RecreateContexts(failing, half)
      BY <1>4 DEF UpdateStep, BeginUpdate, ApplyBudget, ApplyBudgetUnlogged, ApplyBudgetFails,
         RecreateSucceeds, RecreateFails,
                  ResetContexts, Undo, vars
    <3> QED
      <4>1. \A s \in ComputeStates :
              [s EXCEPT !.is_first_run = TRUE, !.skip_io_binding_allowed = FALSE].execution_context_memory
                = s.execution_context_memory
        BY DEF ComputeStates
      <4> QED
        BY <3>1, <4>1 DEF RecreateContexts
  <2>3. ASSUME NEW n \in Nodes \ update'.engines, outcome'[n].told = "nothing"
        PROVE  n \notin update.engines /\ outcome'[n] = outcome[n] /\ budget'[n] = budget[n]
    <3>1. CASE RecreateSucceeds \/ Undo
      <4>1. \E what \in {"applied", "restored", "damaged"} : \E amount : Tell(what, amount)
        BY <3>1 DEF RecreateSucceeds, Undo
      <4>2. n \notin update.engines /\ outcome'[n] = outcome[n]
        BY <2>3, <4>1 DEF Tell
      <4> QED
        BY <3>1, <4>2 DEF RecreateSucceeds, Undo, UpdateInv
    <3>2. ASSUME NEW b, NEW automatic, BeginUpdate(b, automatic)
          PROVE  n \notin update.engines /\ outcome'[n] = outcome[n] /\ budget'[n] = budget[n]
      BY <3>2 DEF BeginUpdate, UpdateInv
    <3>3. ASSUME NEW k \in Nodes, ApplyBudget(k) \/ ApplyBudgetUnlogged(k)
          PROVE  n \notin update.engines /\ outcome'[n] = outcome[n] /\ budget'[n] = budget[n]
      BY <2>3, <3>3 DEF ApplyBudget, ApplyBudgetUnlogged, Updates
    <3>4. CASE ApplyBudgetFails \/ RecreateFails \/ ResetContexts
      BY <2>3, <3>4 DEF ApplyBudgetFails, RecreateFails, ResetContexts, vars, Updates
    <3> QED
      BY <1>4, <3>1, <3>2, <3>3, <3>4 DEF UpdateStep
  <2> QED
    BY <2>1, <2>2, <2>3 DEF MemoryInv
<1>5. CASE UNCHANGED allVars
  BY <1>5 DEF allVars, vars, MemoryInv, ContextMemoryCovers, Mine, ShapeBytes, InferredDims, options
<1> QED
  BY <1>1, <1>2, <1>3, <1>4, <1>5 DEF Next

(* An inference has the context memory its shapes and budget need          *)
(* (ComputeImpl, lines 6343-6393), whatever shapes ran before.             *)
THEOREM MemoryCovers == Spec => []ContextMemoryCovers
<1> DEFINE Inv == Types /\ PlaceInv /\ UpdateInv /\ MemoryInv
<1>1. InitSession => Inv
  BY InitTypes, PlaceInit, UpdateInit, MemoryInit
<1>2. Inv /\ [Next]_allVars => Inv'
  BY StepTypes, PlaceStep, UpdateStepInv, MemoryStep
<1>3. Inv => ContextMemoryCovers
  BY DEF MemoryInv
<1> QED
  BY <1>1, <1>2, <1>3, PTL DEF Spec
=============================================================================
