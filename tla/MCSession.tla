------------------------------ MODULE MCSession ------------------------------
(* Instances of a session: few tensors and shapes, and two sets of options.   *)
EXTENDS SessionProperties, TLC
CONSTANTS n1, n2, i1, o1, d1, x1, b1, b2, small, large
OneNode == {n1}
TwoNodes == {n1, n2}
OneInput == {i1}
OneOutput == {o1}
TwoOutputs == {o1, d1}
OneDDS == {d1}
TensorsOf(shapes) == {[data |-> x1, dims |-> s] : s \in shapes}
OneShape == {small}
TwoShapes == {small, large}
OneTensor == TensorsOf(OneShape)
TwoTensors == TensorsOf(TwoShapes)
OneBuffer == {b1}
TwoBuffers == {b1, b2}
OwnOrKept == {[external |-> TRUE, persistent |-> TRUE], [external |-> FALSE, persistent |-> FALSE]}
UserStream == {[external |-> TRUE, persistent |-> FALSE]}
\* A smaller budget needs more scratch memory in the context.
ShapeNeed(s) == CASE s = small -> 1 [] s = large -> 2 [] OTHER -> 0
ScratchNeed == [d \in [Inputs -> Shapes \cup {None}] |-> [b \in Budgets |-> ShapeNeed(d[i1]) + 1 - b]]
LargestNeed == [b \in Budgets |-> 3 - b]
BufferSymmetry == Permutations(TwoBuffers)
=============================================================================
