------------------------- MODULE PartitionProperties -------------------------
(***************************************************************************)
(* What ORT and the user may rely on in the provider's partition.          *)
(***************************************************************************)
EXTENDS Partition, Graphs

(* Every variable has its type. *)
TypeOK ==
  /\ call \in 1..(Len(world.calls) + 1)
  /\ phase \in {"begin", "cycles", "report", "failed"}
  /\ phase \in {"cycles", "report"} =>
       \A k \in DOMAIN groups : groups[k] # <<>> /\ Range(groups[k]) \subseteq Nodes(Current)
  /\ \A g \in Names : single[g] \subseteq Nodes(g)

(* A node that is claimed is one the parser reported in the same region as   *)
(* some node it is claimed with, or a folded node beside a consumer of it,   *)
(* and not one the checks before the parser exclude; or it is an EPContext   *)
(* node.  Three index spaces lie between the parser's answer and the claim.  *)
Reported(g, i, group) ==
  \/ G(g).region[i] \in {G(g).region[j] : j \in Range(group)} \ {0}
  \/ i \in G(g).folded /\ \E j \in Range(group) : <<i, j>> \in G(g).edge
ClaimsAreReported ==
  \A g \in Names : \A k \in DOMAIN fused[g] : \A i \in Range(fused[g][k]) :
    \/ G(g).node[i].op = "EPContext"
    \/ Reported(g, i, fused[g][k]) /\ G(g).node[i].flaw \notin {"excluded", "type"}

(* The graph that is left when each group has become one node has no cycle,  *)
(* through whichever of its inputs a node depends on another.                *)
Vertex(g, list, i) ==
  IF Grouped(list, i) THEN <<"group", CHOOSE k \in DOMAIN list : Member(list, k, i)>>
  ELSE <<"node", i>>
Contracted(g, list) ==
  [node |-> {Vertex(g, list, i) : i \in Nodes(g)},
   edge |-> {<<Vertex(g, list, e[1]), Vertex(g, list, e[2])>> :
               e \in {d \in G(g).edge \cup G(g).implicit :
                        Vertex(g, list, d[1]) # Vertex(g, list, d[2])}}]
RECURSIVE Reached(_, _)
Reached(graph, from) ==
  LET to == from \cup AllSuccessors(graph, from)
  IN IF to = from THEN from ELSE Reached(graph, to)
OnCycle(graph, v) == v \in Reached(graph, Successors(graph, v))

FusedGraphAcyclic ==
  \A g \in Names :
    LET graph == Contracted(g, fused[g]) IN \A v \in graph.node : ~OnCycle(graph, v)

(* The removal of cycles ends and gives nothing up that it need not: each    *)
(* round drops one group, and one that is itself on a cycle.                 *)
OnlyCyclesBroken ==
  [][(phase = "cycles" /\ phase' = "cycles") =>
       \E k \in DOMAIN groups :
         /\ groups' = RemoveAt(groups, k)
         /\ OnCycle(Contracted(Current, groups), <<"group", k>>)]_vars

(* A control-flow node is claimed with its bodies whole: no node of a body   *)
(* has been fused by itself, and the nodes of the bodies are all claimed for *)
(* it or all still free.                                                     *)
ControlFlowWhole ==
  \A i \in Nodes("main") :
    (G("main").node[i].op \in ControlFlow /\ i \in Assigned("main")) =>
      /\ \A b \in Bodies : fused[b] = <<>>
      /\ \/ \A b \in Bodies : AllNodesAssignedToUs(b)
         \/ \A b \in Bodies : NoNodeAssigned(b)
=============================================================================
