---------------------------- MODULE Preprocessing ----------------------------
(***************************************************************************)
(* RunTensorRtProtoPreprocessing: the passes over a serialized graph before *)
(* TensorRT's parser sees it.  It runs when ORT asks what the provider can   *)
(* take and again when the engine is built.  One step handles one node.     *)
(***************************************************************************)
EXTENDS CompatibilityPasses

CONSTANT Models  \* [graph, feed, offset]: feed gives the inputs values

VARIABLES
  model,    \* what is preprocessed
  graph,    \* the graph as it is now
  index,    \* the graph when the pass began
  pass, pos,
  lowered,  \* the nodes that will replace those of the graph
  folded    \* LoweredQdqInfo::folded_constant_nodes, pairs <<id, output>>

vars == <<model, graph, index, pass, pos, lowered, folded>>

Init ==
  /\ model \in Models
  /\ graph = model.graph /\ index = model.graph
  /\ pass = "qdq" /\ pos = 1 /\ lowered = <<>> /\ folded = {}

Node == graph.node[pos]
At(p) == pass = p /\ pos <= Len(graph.node)

Emit(nodes, init) ==
  /\ lowered' = lowered \o nodes
  /\ graph' = [graph EXCEPT !.init = @ @@ init]
  /\ pos' = pos + 1
  /\ UNCHANGED <<model, index, pass>>

(* Every decision of the lowering is made on the graph as it came.           *)
ShouldLower ==
  /\ Rewritable(graph, Node)
  /\ \/ Node.op = "QuantizeLinear" /\ ShouldLowerQuantizeLinear(graph, Node)
     \/ Node.op = "DequantizeLinear" /\ EvaluateDequantizeLowering(graph, Node)

KeepNode ==
  /\ At("qdq") /\ ~ShouldLower
  /\ Emit(<<Node>>, NoInit) /\ UNCHANGED folded

FoldConstantDequantize ==
  /\ At("qdq") /\ ShouldLower /\ Node.op = "DequantizeLinear" /\ CanFold(graph, Node)
  /\ Emit(<<FoldedNode(graph, Node)>>, Lowered(Node, "folded_constant") :> FoldedValues(graph, Node))
  /\ folded' = folded \cup {FoldedRecord(Node)}

(* A node whose parameters cannot be broadcast stays, with what was made for *)
(* it so far.                                                                *)
LowerDequantize ==
  LET p == Prepared(graph, Node, graph.init[Node.in[2]].type)
  IN /\ At("qdq") /\ ShouldLower /\ Node.op = "DequantizeLinear" /\ ~CanFold(graph, Node)
     /\ Emit(p.node \o (IF p.ok THEN LoweredDequantize(graph, Node, p) ELSE <<Node>>),
             p.init @@ Unfinished(graph, Node))
     /\ UNCHANGED folded

LowerQuantize ==
  LET arithmetic == GetQuantizeArithmeticType(graph.init[Node.in[2]].type, OutputType(graph, Node))
      p == Prepared(graph, Node, arithmetic)
  IN /\ At("qdq") /\ ShouldLower /\ Node.op = "QuantizeLinear"
     /\ IF p.ok THEN Emit(p.node \o LoweredQuantize(graph, Node, p, arithmetic),
                          p.init @@ QuantizedRange(graph, Node))
                ELSE Emit(p.node \o <<Node>>, p.init)
     /\ UNCHANGED folded

CanonicalizeBoolBridge ==
  /\ At("logical")
  /\ graph' = IF CanRetarget(index, graph, pos) THEN Retargeted(graph, pos) ELSE graph
  /\ pos' = pos + 1 /\ UNCHANGED <<model, index, pass, lowered, folded>>

RewriteClipBounds ==
  /\ At("clip")
  /\ graph' = [graph EXCEPT !.node[pos] = RewrittenClip(index, Node)]
  /\ pos' = pos + 1 /\ UNCHANGED <<model, index, pass, lowered, folded>>

RewritePoolingDilations ==
  /\ At("pool") /\ UNCHANGED folded
  /\ IF TryBuildPoolLoweringPlan(index, Node) THEN Emit(LoweredPool(index, Node), PoolInit(index, Node))
                                              ELSE Emit(<<Node>>, NoInit)

ApplyMultiRotaryCacheConcatOffset ==
  /\ At("rotary")
  /\ graph' = [graph EXCEPT !.node[pos] = WithOffset(Node, model.offset)]
  /\ pos' = pos + 1 /\ UNCHANGED <<model, index, pass, lowered, folded>>

Following == "qdq" :> "logical" @@ "logical" :> "clip" @@ "clip" :> "pool" @@ "pool" :> "rotary"
               @@ "rotary" :> "done"
EndPass ==
  /\ pass # "done" /\ pos > Len(graph.node)
  /\ LET after == IF pass \in {"qdq", "pool"} THEN [graph EXCEPT !.node = lowered] ELSE graph
     IN graph' = after /\ index' = after
  /\ pass' = Following[pass] /\ pos' = 1 /\ lowered' = <<>>
  /\ UNCHANGED <<model, folded>>

Next ==
  \/ KeepNode \/ FoldConstantDequantize \/ LowerDequantize \/ LowerQuantize
  \/ CanonicalizeBoolBridge \/ RewriteClipBounds \/ RewritePoolingDilations
  \/ ApplyMultiRotaryCacheConcatOffset \/ EndPass

Spec == Init /\ [][Next]_vars
=============================================================================
