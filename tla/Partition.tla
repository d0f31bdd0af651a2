------------------------------ MODULE Partition ------------------------------
(***************************************************************************)
(* GetCapability: which nodes of a graph the provider claims, and how it   *)
(* groups them.  ORT calls it once for every body of a control-flow node,  *)
(* then for the graph that node is in.                                     *)
(*                                                                         *)
(* A graph is a record: its nodes, a sequence of [op, name, flaw] in the   *)
(* order ORT gives them; "edge", the pairs <<i, j>> where j has an output  *)
(* of i as an input; "implicit", where a body of j uses it; "region", the   *)
(* number of the subgraph in which TensorRT's parser would build a node, 0 *)
(* for none; "folded", the DequantizeLinear nodes that lowering folds into *)
(* constants; "io", whether the types of its inputs and outputs are taken. *)
(* A flaw of a node: its type is on the list to exclude, a data type of it *)
(* is not supported, or the parser knows no such operator.                 *)
(***************************************************************************)
EXTENDS Naturals, Sequences, FiniteSets, SequencesExt, FiniteSetsExt

CONSTANT Worlds  \* [calls, graph, min]: graphs in ORT's order, "main" the last

VARIABLES
  world,   \* the model ORT partitions
  call,    \* the call of GetCapability that is running
  phase,   \* how far it is
  groups,  \* supported_nodes_vector
  fused,   \* per graph: AddNodesToFuse, a sequence of node sequences
  single   \* per graph: AddSingleNode, a set of nodes

vars == <<world, call, phase, groups, fused, single>>

ControlFlow == {"If", "Loop"}
G(g) == world.graph[g]
Nodes(g) == DOMAIN G(g).node
Names == Range(world.calls)
Bodies == {b \in Names \ {"main"} : Nodes(b) # {}}
Current == world.calls[call]
(* A body belongs to the control-flow node of the main graph.                *)
OwnerOp == LET i == CHOOSE i \in Nodes("main") : G("main").node[i].op \in ControlFlow
           IN G("main").node[i].op

Init ==
  /\ world \in Worlds
  /\ call = 1 /\ phase = "begin" /\ groups = <<>>
  /\ fused = [g \in Names |-> <<>>] /\ single = [g \in Names |-> {}]

Assigned(g) == single[g] \cup UNION {Range(fused[g][k]) : k \in DOMAIN fused[g]}

AllNodesAssignedToUs(g) == Nodes(g) # {} /\ Nodes(g) \subseteq Assigned(g)
NoNodeAssigned(g) == Nodes(g) # {} /\ Assigned(g) = {}

CheckNodeDataTypes(n) == n.flaw # "type"
(* graph_passes_coarse_checks: the bodies here hold no control flow.         *)
PassesCoarseChecks(g) ==
  \A i \in Nodes(g) : G(g).node[i].flaw # "excluded" /\ CheckNodeDataTypes(G(g).node[i])
                        /\ G(g).node[i].flaw # "operator"

-----------------------------------------------------------------------------
(* What the parser is asked about.                                           *)

(* (mutant) One body that is all ours is enough. *)
BodiesAllowOne ==
  \/ \E b \in Bodies : AllNodesAssignedToUs(b)
  \/ \A b \in Bodies : NoNodeAssigned(b) /\ PassesCoarseChecks(b)
BodiesAllow ==
  \/ \A b \in Bodies : AllNodesAssignedToUs(b)
  \/ \A b \in Bodies : NoNodeAssigned(b) /\ PassesCoarseChecks(b)

Eligible(g, i) ==
  LET n == G(g).node[i]
  IN /\ n.op \in ControlFlow => BodiesAllow
     /\ n.flaw # "excluded" /\ CheckNodeDataTypes(n)

(* parser_nodes_vector: the runs of eligible nodes.                          *)
Candidates(g) ==
  FoldLeft(LAMBDA runs, i :
             IF ~Eligible(g, i) THEN Append(runs, <<>>)
             ELSE [runs EXCEPT ![Len(runs)] = Append(@, i)],
           << <<>> >>, [i \in Nodes(g) |-> i])

-----------------------------------------------------------------------------
(* GetSupportedList.  The parser answers in positions of the view of the     *)
(* group, whose order need not be the group's.  Its answers come back marked *)
(* as supported, so that the next level of the recursion keeps them as they  *)
(* are and no deeper one is reached.                                         *)
GetGraphView(group) == Reverse(group)

Positions(view, nodes) == SelectSeq([p \in DOMAIN view |-> p], LAMBDA p : view[p] \in nodes)

ParserSubgraphs(g, view) ==
  [r \in Nodes(g) |-> Positions(view, {i \in Nodes(g) \ G(g).folded : G(g).region[i] = r})]

(* The node that lowering has folded goes to every subgraph that mentions    *)
(* its output.                                                               *)
WithFolded(g, view, subgraph) ==
  LET mentioned == {f \in G(g).folded : \E p \in Range(subgraph) : <<f, view[p]>> \in G(g).edge}
  IN subgraph \o Positions(view, mentioned)

(* (mutant) Positions are read in the group's own order. *)
ParentIndexGroup(group, p) == group[p]
ParentIndex(group, p) == GetGraphView(group)[p]

SupportedOf(g, group) ==
  LET view == GetGraphView(group)
      subgraphs == SelectSeq(ParserSubgraphs(g, view), LAMBDA s : s # <<>>)
      remapped(s) == [k \in DOMAIN s |-> ParentIndex(group, s[k])]
  IN [k \in DOMAIN subgraphs |-> remapped(WithFolded(g, view, subgraphs[k]))]

GetSupportedList(g, candidates) ==
  FlattenSeq([k \in DOMAIN candidates |-> SupportedOf(g, candidates[k])])

(* Nodes are counted, one that is in two groups twice.                       *)
IsSubGraphFullySupported(g, list) ==
  FoldLeft(LAMBDA n, group : n + Len(group), 0, list) = Len(G(g).node)

-----------------------------------------------------------------------------
(* DetectTensorRTGraphCycles: a graph with a vertex for each group and for   *)
(* each name of a node in no group.  Implicit inputs count for the latter.   *)
Member(list, k, i) == i \in Range(list[k])
Grouped(list, i) == \E k \in DOMAIN list : Member(list, k, i)
NameOf(g, i) == G(g).node[i].name

Vertices(g, list) ==
  LET firstOfName(i) == ~Grouped(list, i) /\ \A j \in 1..(i - 1) :
                          ~Grouped(list, j) => NameOf(g, j) # NameOf(g, i)
      named == SelectSeq([i \in Nodes(g) |-> i], firstOfName)
  IN [k \in DOMAIN list |-> <<"kernel", k>>]
       \o [n \in DOMAIN named |-> <<"node", NameOf(g, named[n])>>]

Produces(g, list, v, i) ==
  IF v[1] = "kernel" THEN Member(list, v[2], i)
  ELSE ~Grouped(list, i) /\ NameOf(g, i) = v[2]

Consumes(g, list, v, i) ==
  IF v[1] = "kernel"
  THEN ~Member(list, v[2], i) /\ \E j \in Range(list[v[2]]) : <<i, j>> \in G(g).edge
  ELSE \E j \in Nodes(g) : /\ ~Grouped(list, j) /\ NameOf(g, j) = v[2]
                           /\ <<i, j>> \in G(g).edge \cup G(g).implicit

(* Adjacency of the vertices, by their position.                             *)
AdjacencyMap(g, list) ==
  LET vs == Vertices(g, list)
      arrow(a, b) == \E i \in Nodes(g) : Produces(g, list, vs[a], i) /\ Consumes(g, list, vs[b], i)
  IN [a \in DOMAIN vs |-> SelectSeq([b \in DOMAIN vs |-> b], LAMBDA b : arrow(a, b))]

(* The search: s has what is visited, what is on the stack, the vertices     *)
(* noted on the way back from a cycle, and whether one is found.             *)
RECURSIVE FindCycleHelper(_, _, _), Explore(_, _, _), FindCycleFrom(_, _, _)
Explore(children, adjacent, s) ==
  IF s.found \/ children = <<>> THEN s
  ELSE LET b == Head(children)
           t == IF b \in s.visited THEN s ELSE FindCycleHelper(b, adjacent, s)
       IN IF t.found \/ b \in t.stack
          THEN [t EXCEPT !.cycles = Append(@, b), !.found = TRUE]
          ELSE Explore(Tail(children), adjacent, t)

FindCycleHelper(a, adjacent, s) ==
  LET t == IF a \in s.visited THEN s
           ELSE Explore(adjacent[a], adjacent,
                        [s EXCEPT !.visited = @ \cup {a}, !.stack = @ \cup {a}])
  IN IF t.found THEN t ELSE [t EXCEPT !.stack = @ \ {a}]

FindCycleFrom(a, adjacent, s) ==
  IF s.found \/ a > Len(adjacent) THEN s
  ELSE FindCycleFrom(a + 1, adjacent, FindCycleHelper(a, adjacent, s))

FindCycle(adjacent) ==
  FindCycleFrom(1, adjacent, [visited |-> {}, stack |-> {}, cycles |-> <<>>, found |-> FALSE])

Noted(list, s) == SelectSeq(s.cycles, LAMBDA a : a \in DOMAIN list)
(* (mutant) The last group noted. *)
VictimLast(list, s) == IF Noted(list, s) = <<>> THEN 0 ELSE Last(Noted(list, s))
(* The first group noted, 0 if there is none: groups are the first vertices. *)
Victim(list, s) == IF Noted(list, s) = <<>> THEN 0 ELSE Head(Noted(list, s))

-----------------------------------------------------------------------------
(* The call.                                                                 *)
At(p) == phase = p /\ call \in DOMAIN world.calls
Return(fusedNow, singleNow) ==
  /\ fused' = [fused EXCEPT ![Current] = fusedNow]
  /\ single' = [single EXCEPT ![Current] = singleNow]
  /\ phase' = "begin" /\ call' = call + 1 /\ groups' = <<>>
  /\ UNCHANGED world

(* Types the graph's inputs or outputs may not have make the call fail.      *)
RefuseTypes ==
  /\ At("begin") /\ ~G(Current).io
  /\ phase' = "failed"
  /\ UNCHANGED <<world, call, groups, fused, single>>

ContextNodes(g) == {i \in Nodes(g) : G(g).node[i].op = "EPContext"}

(* Each EPContext node of this provider is claimed, and nothing else.        *)
ClaimContextNodes ==
  /\ At("begin") /\ G(Current).io /\ ContextNodes(Current) # {}
  /\ LET own == SelectSeq([i \in Nodes(Current) |-> i], LAMBDA i : i \in ContextNodes(Current))
     IN Return([k \in DOMAIN own |-> <<own[k]>>], {})

(* The parser is asked and groups that are too small are dropped.            *)
ListSupported ==
  /\ At("begin") /\ G(Current).io /\ ContextNodes(Current) = {}
  /\ groups' = SelectSeq(GetSupportedList(Current, Candidates(Current)),
                         LAMBDA s : Len(s) >= world.min)
  /\ phase' = "cycles"
  /\ UNCHANGED <<world, call, fused, single>>

Search(list) == FindCycle(AdjacencyMap(Current, list))

DropGroup ==
  /\ At("cycles")
  /\ LET s == Search(groups)
     IN /\ Victim(groups, s) # 0
        /\ groups' = RemoveAt(groups, Victim(groups, s))
  /\ UNCHANGED <<world, call, phase, fused, single>>

(* (mutant) All groups become one whatever comes of it. *)
ConsolidatedAlways(list) == IF Len(list) > 1 THEN <<FlattenSeq(list)>> ELSE list
Consolidated(list) ==
  IF Len(list) > 1 /\ ~Search(<<FlattenSeq(list)>>).found THEN <<FlattenSeq(list)>> ELSE list

Consolidate ==
  /\ At("cycles")
  /\ Victim(groups, Search(groups)) = 0
  /\ groups' = Consolidated(groups)
  /\ phase' = "report"
  /\ UNCHANGED <<world, call, fused, single>>

(* The other body of an If has to be fully supported as well.                *)
SiblingsSupported ==
  OwnerOp = "If" =>
    \A b \in Bodies :
      /\ PassesCoarseChecks(b)
      /\ \/ AllNodesAssignedToUs(b)
         \/ /\ NoNodeAssigned(b)
            /\ IsSubGraphFullySupported(b, GetSupportedList(b, << [i \in Nodes(b) |-> i] >>))

WholeBody ==
  Current # "main" /\ IsSubGraphFullySupported(Current, groups) /\ SiblingsSupported

(* A body that runs on TensorRT with the node it belongs to is claimed node  *)
(* by node, to be fused with that node later.                                *)
ClaimWholeBody ==
  /\ At("report") /\ WholeBody
  /\ Return(<<>>, Range(FlattenSeq(groups)))

(* One that the parser may support in its context is left for that context.  *)
LeaveBody ==
  /\ At("report") /\ ~WholeBody
  /\ Current # "main" /\ \A b \in Bodies : PassesCoarseChecks(b)
  /\ Return(<<>>, {})

FuseGroups ==
  /\ At("report") /\ ~WholeBody
  /\ Current = "main" \/ \E b \in Bodies : ~PassesCoarseChecks(b)
  /\ Return(groups, {})

Next ==
  \/ RefuseTypes \/ ClaimContextNodes \/ ListSupported \/ DropGroup \/ Consolidate
  \/ ClaimWholeBody \/ LeaveBody \/ FuseGroups

Spec == Init /\ [][Next]_vars
=============================================================================
