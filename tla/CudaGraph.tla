------------------------------ MODULE CudaGraph ------------------------------
(***************************************************************************)
(* The capture protocol of the sessions of Factory that enable CUDA        *)
(* graphs: the run counts of TensorrtRtxExecutionProvider and the graphs   *)
(* of its CUDAGraphManager.  Compute's calls of it are commented out in    *)
(* the source (src/tensorrt_rtx_execution_provider.cc:6816-6870); a run    *)
(* here is what those lines say.                                           *)
(***************************************************************************)
EXTENDS Factory

CONSTANTS
  GraphSessions,  \* the sessions that enable CUDA graphs
  Ids,            \* annotation ids
  Skip,           \* kCudaGraphAnnotationSkip
  MinRuns         \* min_num_runs_before_cuda_graph_capture_

ASSUME CudaGraphAssumption ==
  /\ GraphSessions \subseteq Sessions /\ Skip \notin Ids
  /\ MinRuns \in Nat \ {0}

VARIABLE graph

allVars == <<vars, graph>>

(* `regular` is a history: the runs since the session was made in which no   *)
(* graph was captured or replayed.                                           *)
NewGraph == [count |-> [i \in Ids |-> 0], captured |-> {}, capturing |-> Skip, regular |-> 0]

GraphInit == Init /\ graph = [s \in GraphSessions |-> NewGraph]

SetGraph(s, g) == graph' = [graph EXCEPT ![s] = g]
AtMost(n, bound) == IF n > bound THEN bound ELSE n
Ran(g) == [g EXCEPT !.regular = AtMost(@ + 1, MinRuns)]

-----------------------------------------------------------------------------
IsGraphCaptured(s, id) == id \in graph[s].captured

(* (mutant) One run fewer. *)
IsGraphCaptureAllowedEarly(s, id) ==
  /\ IsAsyncMempoolEnabledForDevice(Device(s))
  /\ id # Skip
  /\ graph[s].count[id] + 2 >= MinRuns

(* After the increment of this run: IncrementRegularRunCountBeforeGraphCapture *)
(* comes first.                                                              *)
IsGraphCaptureAllowed(s, id) ==
  /\ IsAsyncMempoolEnabledForDevice(Device(s))
  /\ id # Skip
  /\ graph[s].count[id] + 1 >= MinRuns

(* IncrementRegularRunCountBeforeGraphCapture: there is no count of Skip.     *)
Counted(s, id) ==
  [i \in Ids |-> IF i = id THEN AtMost(graph[s].count[i] + 1, MinRuns) ELSE graph[s].count[i]]

(* HandleCudaGraphStart, case 1: the bindings change.  The count of the id   *)
(* goes back to none; deleting its graph deletes the graphs of all ids.      *)
Rebind(s, id) ==
  /\ SetGraph(s, [Ran(graph[s]) EXCEPT
       !.count = IF id = Skip THEN @ ELSE [@ EXCEPT ![id] = 0],
       !.captured = IF IsGraphCaptured(s, id) THEN {} ELSE @])

(* Case 2: the bindings stay.  CaptureBegin resets the graphs of all ids.    *)
Capture(s, id) ==
  /\ ~IsGraphCaptured(s, id) /\ IsGraphCaptureAllowed(s, id)
  /\ SetGraph(s, [graph[s] EXCEPT !.count = Counted(s, id),
                                  !.captured = {}, !.capturing = id])

RunRegularly(s, id) ==
  /\ ~IsGraphCaptured(s, id) /\ ~IsGraphCaptureAllowed(s, id)
  /\ SetGraph(s, [Ran(graph[s]) EXCEPT !.count = Counted(s, id)])

Replay(s, id) == IsGraphCaptured(s, id) /\ UNCHANGED graph

(* The first run of a session always binds.                                  *)
HandleCudaGraphStart(s, id) ==
  /\ At(s, "ready") /\ graph[s].capturing = Skip
  /\ \/ Rebind(s, id)
     \/ /\ graph[s].regular > 0
        /\ Capture(s, id) \/ RunRegularly(s, id) \/ Replay(s, id)
  /\ UNCHANGED vars

(* Put after the enqueue, or the enqueue or the capture failed.              *)
CaptureEnd(s) ==
  /\ graph[s].capturing # Skip
  /\ \/ SetGraph(s, [graph[s] EXCEPT !.captured = @ \cup {graph[s].capturing}, !.capturing = Skip])
     \/ SetGraph(s, [graph[s] EXCEPT !.capturing = Skip])
  /\ UNCHANGED vars

Idle(s) == s \in GraphSessions => graph[s].capturing = Skip

(* The graphs go with the session's EP, when it is released or dropped.      *)
Released(s) ==
  graph' = [t \in GraphSessions |-> IF t = s THEN NewGraph ELSE graph[t]]

GraphNext ==
  \/ \E s \in Sessions : (Setup(s) \/ (Idle(s) /\ Call(s))) /\ UNCHANGED graph
  \/ \E s \in Sessions : Idle(s) /\ ReleaseEp(s) /\ Released(s)
  \/ \E s \in GraphSessions :
       (\E id \in Ids \cup {Skip} : HandleCudaGraphStart(s, id)) \/ CaptureEnd(s)

GraphSpec == GraphInit /\ [][GraphNext]_allVars

-----------------------------------------------------------------------------
(* A capture begins only after two regular runs of the session, which have   *)
(* allocated what the graph may not (tensorrt_rtx_execution_provider.h:707), *)
(* and an id with a graph has been run often enough since its last           *)
(* re-binding, although one call deletes the graphs of every id and the      *)
(* count of one.                                                             *)
GraphsAreWarm ==
  \A s \in GraphSessions :
    /\ graph[s].capturing # Skip => graph[s].regular >= MinRuns
    /\ \A id \in graph[s].captured : graph[s].count[id] >= MinRuns
=============================================================================
