---------------------------- MODULE MCPartition ----------------------------
(***************************************************************************)
(* Flat models: all acyclic graphs of four nodes, with every answer of the *)
(* parser.  Nested models: a control-flow node between two others, with    *)
(* one or two bodies of up to two nodes.                                   *)
(***************************************************************************)
EXTENDS PartitionProperties

Node(name, op, flaw) == [name |-> name, op |-> op, flaw |-> flaw]
Graph(io, node, edge, implicit, region, folded) ==
  [io |-> io, node |-> node, edge |-> edge, implicit |-> implicit, region |-> region,
   folded |-> folded]

Forward(n) == {e \in (1..n) \X (1..n) : e[1] < e[2]}
(* Numberings of parts of n nodes, a new number one more than the last.      *)
Numberings(n) ==
  {r \in [1..n -> 0..n] :
     \A i \in 1..n : r[i] > 1 => \E j \in 1..(i - 1) : r[j] = r[i] - 1}

Flat(excluded, edge, region, folded, least, io) ==
  [calls |-> <<"main">>, min |-> least,
   graph |-> [g \in {"main"} |->
     Graph(io, [i \in 1..4 |-> Node(i, "Op", IF i = excluded THEN "excluded" ELSE "none")],
           edge, {}, region, folded)]]
FlatWorlds ==
  {Flat(excluded, edge, region, {}, 1, TRUE) :
     excluded \in {0, 2}, edge \in SUBSET Forward(4), region \in Numberings(4)}
FoldedWorlds ==
  {Flat(excluded, edge \cup {<<1, 2>>}, region, {1}, 2, TRUE) :
     excluded \in {0, 3}, edge \in SUBSET {<<2, 3>>, <<2, 4>>}, region \in Numberings(4)}
ContextWorlds ==
  {[calls |-> <<"main">>, min |-> 1,
    graph |-> [g \in {"main"} |->
      Graph(io, [i \in 1..3 |-> Node(i, ops[i], "none")], {<<1, 2>>}, {}, <<1, 1, 0>>, {})]] :
     ops \in [1..3 -> {"EPContext", "EPContextOther"}], io \in BOOLEAN}

Body(n, flaw, region) ==
  Graph(TRUE, [i \in 1..n |-> Node(i, "Op", IF i = 1 THEN flaw ELSE "none")],
        Forward(n), {}, region, {})
BodyGraphs ==
  {Body(1, "none", <<1>>), Body(1, "none", <<0>>), Body(1, "operator", <<0>>), Body(0, "none", <<>>),
   Body(2, "none", <<1, 1>>), Body(2, "none", <<0, 1>>), Body(2, "type", <<0, 1>>),
   Body(2, "none", <<1, 2>>)}
Main(op, flaw, region, implicit) ==
  Graph(TRUE, <<Node("a", "Op", "none"), Node("b", "Op", "none"), Node("cf", op, flaw)>>,
        {<<1, 2>>}, implicit, region, {})
Nested(op, flaw, region, implicit, bodies) ==
  [calls |-> IF op = "If" THEN <<"then", "else", "main">> ELSE <<"then", "main">>, min |-> 1,
   graph |-> [g \in IF op = "If" THEN {"then", "else", "main"} ELSE {"then", "main"} |->
                IF g = "main" THEN Main(op, flaw, region, implicit) ELSE bodies[g]]]
NestedWorlds ==
  {Nested(op, flaw, region, {}, bodies) :
     op \in ControlFlow, flaw \in {"none", "excluded"}, region \in Numberings(3),
     bodies \in [{"then", "else"} -> BodyGraphs]}

(* A chain whose first two groups lead to a cycle.                           *)
ChainWorld ==
  [calls |-> <<"main">>, min |-> 1,
   graph |-> [g \in {"main"} |->
     Graph(TRUE, [i \in 1..5 |-> Node(i, "Op", "none")], {e \in Forward(5) : e[2] = e[1] + 1}, {},
           <<1, 2, 3, 0, 3>>, {})]]

MCWorlds == {ChainWorld} \cup FlatWorlds \cup FoldedWorlds \cup ContextWorlds \cup NestedWorlds
=============================================================================
