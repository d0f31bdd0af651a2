-------------------------- MODULE WeightStreaming --------------------------
(***************************************************************************)
(* ApplyRuntimeWeightStreamingBudget                                       *)
(* (src/tensorrt_rtx_execution_provider.cc): a dynamic option changes the  *)
(* weight-streaming budget of a session's engines.  It takes the mutex of  *)
(* the compute path, so it runs between calls of Compute; its own stages   *)
(* are steps because any of them may fail and the earlier ones are then    *)
(* undone.  All engines are capable of weight streaming: otherwise the     *)
(* code refuses the request before it changes anything.                    *)
(***************************************************************************)
EXTENDS Compute

CONSTANT Automatic    \* what getWeightStreamingAutomaticBudget answers

ASSUME AutomaticBudget == Automatic \in Budgets

VARIABLES
  update,    \* the update in progress, and its locals
  outcome    \* history: what the last update told the caller of each engine

allVars == <<vars, update, outcome>>

NoUpdate == [pc |-> "idle", target |-> Automatic, engines |-> {}, applied |-> {}, lost |-> {},
             previous |-> [n \in Nodes |-> Automatic]]

InitSession ==
  /\ Init
  /\ update = NoUpdate
  /\ outcome = [n \in Nodes |-> [told |-> "nothing", budget |-> budget[n], lost |-> FALSE]]

Stage(pc) == update.pc = pc

\* (mutant) the stream is not synchronised
BeginUpdateAtOnce(b, automatic) ==
  LET engines == {n \in Nodes : automatic \/ budget[n] # b}
  IN  /\ Stage("idle") /\ At("idle")
      /\ automatic => b = Automatic
      /\ engines # {}
      /\ \A n \in engines : context[n].live
      /\ context' = [n \in Nodes |-> IF n \in engines THEN [context[n] EXCEPT !.live = FALSE]
                                     ELSE context[n]]
      /\ update' = [pc |-> "apply", target |-> b, engines |-> engines, applied |-> {},
                    lost |-> {}, previous |-> budget]
      /\ UNCHANGED <<options, trt_profile_index, budget, state, call, inflight, rejected, outcome>>

\* The stream is synchronised and the contexts of the engines whose budget
\* differs are destroyed; an automatic budget is always applied again.
BeginUpdate(b, automatic) ==
  LET engines == {n \in Nodes : automatic \/ budget[n] # b}
  IN  /\ Stage("idle") /\ At("idle")
      /\ automatic => b = Automatic
      /\ engines # {}
      /\ \A n \in engines : context[n].live
      /\ Drained
      /\ context' = [n \in Nodes |-> IF n \in engines THEN [context[n] EXCEPT !.live = FALSE]
                                     ELSE context[n]]
      /\ update' = [pc |-> "apply", target |-> b, engines |-> engines, applied |-> {},
                    lost |-> {}, previous |-> budget]
      /\ UNCHANGED <<options, trt_profile_index, budget, state, call, rejected, outcome>>

ApplyBudget(n) ==
  /\ Stage("apply")
  /\ n \in update.engines \ update.applied
  /\ budget' = [budget EXCEPT ![n] = update.target]
  /\ update' = [update EXCEPT !.applied = @ \cup {n}]
  /\ UNCHANGED <<options, trt_profile_index, context, state, call, inflight, rejected, outcome>>

\* An engine refuses: the engines before it are to get their budgets back.
ApplyBudgetFails ==
  /\ Stage("apply")
  /\ update.applied # update.engines
  /\ update' = [update EXCEPT !.pc = "undo"]
  /\ UNCHANGED <<vars, outcome>>

\* An engine took its budget and the message of it could not be logged: the
\* error makes it an engine that refused, so it is not among those to undo.
ApplyBudgetUnlogged(n) ==
  /\ Stage("apply")
  /\ n \in update.engines \ update.applied
  /\ budget' = [budget EXCEPT ![n] = update.target]
  /\ update' = [update EXCEPT !.pc = "undo", !.lost = {n}]
  /\ UNCHANGED <<options, trt_profile_index, context, state, call, inflight, rejected, outcome>>

\* RecreateWeightStreamingContexts, which cannot make those in failing.  If the
\* auxiliary streams of one cannot be had it throws, before the compute state is
\* reset: half is that engine, if any.
RecreateContexts(failing, half) ==
  LET made == update.engines \ failing
  IN  /\ half \subseteq made /\ Cardinality(half) <= 1
      /\ context' = [n \in Nodes |-> IF n \in made THEN NewContext ELSE context[n]]
      /\ state' = [n \in Nodes |->
                     IF n \in made \ half
                     THEN [state[n] EXCEPT !.is_first_run = TRUE, !.skip_io_binding_allowed = FALSE]
                     ELSE state[n]]
      /\ rejected' = (rejected \ made) \cup half

Tell(what, amount) ==
  outcome' = [n \in Nodes |->
                IF n \in update.engines
                THEN [told |-> what, budget |-> amount[n], lost |-> n \in update.lost]
                ELSE outcome[n]]

RecreateSucceeds ==
  /\ Stage("apply")
  /\ update.applied = update.engines
  /\ RecreateContexts({}, {})
  /\ Tell("applied", [n \in Nodes |-> update.target])
  /\ update' = NoUpdate
  /\ UNCHANGED <<options, trt_profile_index, budget, call, inflight>>

RecreateFails ==
  /\ Stage("apply")
  /\ update.applied = update.engines
  /\ \E failing, half \in SUBSET update.engines :
       failing \cup half # {} /\ RecreateContexts(failing, half)
  /\ update' = [update EXCEPT !.pc = "revert"]
  /\ UNCHANGED <<options, trt_profile_index, budget, call, inflight, outcome>>

\* (mutant) the contexts that could be made stay while budgets are set back
ResetNoContexts ==
  /\ Stage("revert")
  /\ update' = [update EXCEPT !.pc = "undo"]
  /\ UNCHANGED <<vars, outcome>>

\* The contexts that could be made are destroyed again.
ResetContexts ==
  /\ Stage("revert")
  /\ context' = [n \in Nodes |-> IF n \in update.engines THEN [context[n] EXCEPT !.live = FALSE]
                                 ELSE context[n]]
  /\ update' = [update EXCEPT !.pc = "undo"]
  /\ UNCHANGED <<options, trt_profile_index, budget, state, call, inflight, rejected, outcome>>

\* (mutant) a budget that cannot be set back is not reported
UndoUnreported ==
  /\ Stage("undo")
  /\ \E stuck \in SUBSET update.applied, failing, half \in SUBSET update.engines :
       /\ budget' = [n \in Nodes |-> IF n \in update.applied \ stuck THEN update.previous[n]
                                     ELSE budget[n]]
       /\ RecreateContexts(failing, half)
       /\ Tell(IF failing \cup half = {} THEN "restored" ELSE "damaged", update.previous)
  /\ update' = NoUpdate
  /\ UNCHANGED <<options, trt_profile_index, call, inflight>>

\* rollback_budgets, which cannot set back those in stuck, and the contexts.
Undo ==
  /\ Stage("undo")
  /\ \E stuck \in SUBSET update.applied, failing, half \in SUBSET update.engines :
       /\ budget' = [n \in Nodes |-> IF n \in update.applied \ stuck THEN update.previous[n]
                                     ELSE budget[n]]
       /\ RecreateContexts(failing, half)
       /\ Tell(IF stuck \cup failing \cup half = {} THEN "restored" ELSE "damaged", update.previous)
  /\ update' = NoUpdate
  /\ UNCHANGED <<options, trt_profile_index, call, inflight>>

UpdateStep ==
  \/ \E b \in Budgets, automatic \in BOOLEAN : BeginUpdate(b, automatic)
  \/ \E n \in Nodes : ApplyBudget(n) \/ ApplyBudgetUnlogged(n)
  \/ ApplyBudgetFails \/ RecreateSucceeds \/ RecreateFails \/ ResetContexts \/ Undo

\* The mutex keeps the compute path and the update apart.
Next ==
  \/ Stage("idle") /\ ComputeStep /\ UNCHANGED <<update, outcome>>
  \/ (StreamProgress \/ \E p \in Profiles : SelectProfile(p)) /\ UNCHANGED <<update, outcome>>
  \/ UpdateStep

Spec == InitSession /\ [][Next]_allVars
=============================================================================
