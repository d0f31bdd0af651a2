----------------------- MODULE PreprocessingProperties -----------------------
(***************************************************************************)
(* The graph TensorRT is given computes what the user's graph computes, and *)
(* each of its nodes can be traced to one of ORT's.                         *)
(*                                                                         *)
(* The first part says what the operators mean, after the ONNX standard: a  *)
(* value is [type, shape, at].  Floating arithmetic rounds to its type.     *)
(***************************************************************************)
EXTENDS Preprocessing

Value(type, shape, at) == [type |-> type, shape |-> shape, at |-> at]
ValueIn(t) == Value(t.type, t.shape, t.at)
RoundedQuotient(v, m) == RoundTo(v, m) \div m
Fit(type, v) == IF type \in Floats THEN Rounded(type, v) ELSE v
Largest(a, b) == IF a > b THEN a ELSE b
Least(a, b) == IF a < b THEN a ELSE b
Saturate(v, range) == Largest(range[1], Least(v, range[2]))

(* Shapes are aligned at their last axes.                                    *)
Aligned(shape, rank) == [d \in 1..rank |->
  IF d <= rank - Len(shape) THEN 1 ELSE shape[d - (rank - Len(shape))]]
Joint(s, t) ==
  LET rank == Largest(Len(s), Len(t))
  IN [d \in 1..rank |-> Largest(Aligned(s, rank)[d], Aligned(t, rank)[d])]
FlatIndex(coordinates, shape) ==
  FoldLeft(LAMBDA sum, d : sum + (IF shape[d] = 1 THEN 0 ELSE coordinates[d]) * Strides(shape)[d], 0,
           [d \in DOMAIN shape |-> d])
Elementwise(a, b, f(_, _)) ==
  LET shape == Joint(a.shape, b.shape)
      rank == Len(shape)
      of(t, i) == t.at[FlatIndex(Coordinates(i, shape), Aligned(t.shape, rank)) + 1]
  IN Value(a.type, shape, [k \in 1..Product(shape) |-> Fit(a.type, f(of(a, k - 1), of(b, k - 1)))])

Converted(v, from, to) ==
  CASE from \in Floats /\ to \in Floats -> Rounded(to, v)
    [] from \notin Floats /\ to \in Floats -> Rounded(to, v * One)
    [] from \in Floats /\ to \notin Floats -> IF v < 0 THEN -((-v) \div One) ELSE v \div One
    [] from \notin Floats /\ to \notin Floats -> v

(* The scale or zero point of an element: the only one, the one at its        *)
(* coordinate on the axis, or the one of its block.                          *)
ParameterOf(n, p, shape, i) ==
  LET at == Coordinates(i, shape)
      axis == Axis(n, Len(shape)) + 1
      block == Attribute(n, "block_size", 0)
  IN IF Len(p.at) = 1 THEN p.at[1]
     ELSE IF Len(p.shape) = 1 /\ block = 0 THEN p.at[(IF Len(shape) = 1 THEN at[1] ELSE at[axis]) + 1]
     ELSE p.at[FlatIndex([at EXCEPT ![axis] = @ \div block], p.shape) + 1]
ZeroAt(n, arg, i) == IF Len(arg) < 3 \/ ~HasZeroInput(n) THEN 0 ELSE ParameterOf(n, arg[3], arg[1].shape, i)
DequantizeLinear(n, arg) ==
  Value(arg[2].type, arg[1].shape,
        [k \in DOMAIN arg[1].at |->
           Rounded(arg[2].type, (arg[1].at[k] - ZeroAt(n, arg, k - 1)) * ParameterOf(n, arg[2], arg[1].shape, k - 1))])
QuantizeLinear(n, arg) ==
  LET type == IF HasZeroInput(n) THEN arg[3].type ELSE Attribute(n, "output_dtype", "uint8")
      steps(k) == RoundedQuotient(arg[1].at[k], ParameterOf(n, arg[2], arg[1].shape, k - 1))
  IN Value(type, arg[1].shape, [k \in DOMAIN arg[1].at |->
       Saturate(steps(k) + ZeroAt(n, arg, k - 1), TryGetQuantizedValueRange(type))])

FiniteLimits == <<1 - Infinity, Infinity - 1>>
Clip(n, arg) ==
  LET bound(k) == IF Len(n.in) > k /\ n.in[k + 1] # Absent THEN arg[k + 1].at[1] ELSE FiniteLimits[k]
      low == Attribute(n, "min", bound(1))
      high == Attribute(n, "max", bound(2))
  IN [arg[1] EXCEPT !.at = [k \in DOMAIN @ |-> Least(Largest(@[k], low), high)]]

Slice(n, x) ==
  LET a == n.attr
      shape == [d \in DOMAIN x.shape |->
                  Cardinality({c \in 0..(x.shape[d] - 1) : /\ a["starts"][d] <= c /\ c < a["ends"][d]
                                                           /\ (c - a["starts"][d]) % a["steps"][d] = 0})]
      source(i) == [d \in DOMAIN shape |-> a["starts"][d] + Coordinates(i, shape)[d] * a["steps"][d]]
  IN Value(x.type, shape, [k \in 1..Product(shape) |-> x.at[FlatIndex(source(k - 1), x.shape) + 1]])

(* A window takes the elements of the input it covers.                       *)
Window(n, x, shape, i) ==
  LET position(tap, d) == Coordinates(i, shape)[d + 2] * PoolStrides(n)[d]
                            + Coordinates(tap, Kernel(n))[d] * Dilations(n)[d] - Pads(n)[d]
      inside == SelectSeq([k \in 1..Product(Kernel(n)) |-> k - 1],
                  LAMBDA tap : \A d \in DOMAIN Kernel(n) : position(tap, d) \in 0..(x.shape[d + 2] - 1))
      element(tap) ==
        x.at[FlatIndex([d \in DOMAIN shape |-> IF d <= 2 THEN Coordinates(i, shape)[d]
                                               ELSE position(tap, d - 2)], x.shape) + 1]
  IN [k \in DOMAIN inside |-> element(inside[k])]
Total(s) == FoldLeft(LAMBDA a, b : a + b, 0, s)
Pool(n, x, shape) ==
  LET result(s) == IF n.op = "MaxPool" THEN FoldLeft(Largest, -Infinity, s)
                   ELSE Fit(x.type, RoundedQuotient(Total(s), Len(s)))
  IN Value(x.type, shape, [k \in 1..Product(shape) |-> result(Window(n, x, shape, k - 1))])

Applied(g, n, arg) ==
  CASE n.op = "Cast" -> Value(n.attr["to"], arg[1].shape,
                              [k \in DOMAIN arg[1].at |-> Converted(arg[1].at[k], arg[1].type, n.attr["to"])])
    [] n.op = "Reshape" -> [arg[1] EXCEPT !.shape = n.attr["shape"]]
    [] n.op \in {"Add", "MatMul"} -> Elementwise(arg[1], arg[2], LAMBDA a, b : a + b)
    [] n.op = "Sub" -> Elementwise(arg[1], arg[2], LAMBDA a, b : a - b)
    [] n.op = "Mul" -> Elementwise(arg[1], arg[2], LAMBDA a, b : RoundedQuotient(a * b, One))
    [] n.op = "Div" -> Elementwise(arg[1], arg[2], LAMBDA a, b : RoundedQuotient(a * One, b))
    [] n.op = "Max" -> Elementwise(arg[1], arg[2], Largest)
    [] n.op = "Min" -> Elementwise(arg[1], arg[2], Least)
    [] n.op = "Round" -> [arg[1] EXCEPT !.at = [k \in DOMAIN @ |-> RoundTo(@[k], One)]]
    [] n.op = "Equal" -> [Elementwise(arg[1], arg[2], LAMBDA a, b : IF a = b THEN 1 ELSE 0) EXCEPT !.type = "bool"]
    [] n.op = "Constant" -> ValueIn(n.attr["value"])
    [] n.op = "Clip" -> Clip(n, arg)
    [] n.op = "Slice" -> Slice(n, arg[1])
    [] n.op \in {"AveragePool", "MaxPool"} -> Pool(n, arg[1], Shape(g, n.out))
    [] n.op = "DequantizeLinear" -> DequantizeLinear(n, arg)
    [] n.op = "QuantizeLinear" -> QuantizeLinear(n, arg)
    [] OTHER -> arg[1]

RECURSIVE ValueOf(_, _, _)
ValueOf(g, feed, name) ==
  IF name \in DOMAIN feed THEN ValueIn(feed[name])
  ELSE IF name \in DOMAIN g.init THEN ValueIn(g.init[name])
  ELSE LET n == g.node[CHOOSE i \in Producers(g, name) : TRUE]
           arg == [k \in DOMAIN n.in |-> IF n.in[k] = Absent THEN Absent ELSE ValueOf(g, feed, n.in[k])]
       IN Applied(g, n, arg)

-----------------------------------------------------------------------------
(* Where the arithmetic put in the place of a node has no more to round than  *)
(* the node itself.  The comments claim it of every node; the code does not   *)
(* have it of those left out here.                                            *)
FitsIn(type, v) == Rounded(type, v * One) = v * One
PowerOfTwo(v) == \E k \in 0..20 : v = 2 ^ k

(* A fold reads a subnormal f16 scale as half of it (line 348), and goes      *)
(* through f32.  At run time a narrow integer is cast to the type of the      *)
(* scale at once ("fit exactly in fp32", lines 1498-1499, which says nothing  *)
(* of a 16-bit integer and f16), and a difference with too many digits is     *)
(* rounded before it is scaled.                                               *)
DequantizedExactly(g, n, arg) ==
  LET type == arg[2].type
  IN \A k \in DOMAIN arg[1].at :
       LET zero == ZeroAt(n, arg, k - 1)
           scale == ParameterOf(n, arg[2], arg[1].shape, k - 1)
           diff == arg[1].at[k] - zero
       IN IF CanFold(g, n)
            THEN /\ type = "f16" => scale >= SmallestNormal
                 /\ Rounded(StorageType(type), diff * scale) = diff * scale \/ type = StorageType(type)
            ELSE /\ arg[1].type \notin Wide => FitsIn(type, arg[1].at[k]) /\ FitsIn(type, zero)
                 /\ FitsIn(type, diff) \/ PowerOfTwo(scale)

(* The quotient is rounded after the zero point was added (lines 2211-2229),   *)
(* not before (line 1924, and 2129 by the spec): what is then halfway          *)
(* between two integers was so before, and an even number has been added.     *)
QuantizedExactly(g, n, arg) ==
  LET arithmetic == GetQuantizeArithmeticType(arg[2].type, OutputType(g, n))
  IN \A k \in DOMAIN arg[1].at :
       LET x == arg[1].at[k]
           zero == ZeroAt(n, arg, k - 1)
           scale == ParameterOf(n, arg[2], arg[1].shape, k - 1)
           shifted == Rounded(arithmetic, Rounded(arithmetic, RoundedQuotient(x * One, scale)) + zero * One)
       IN 2 * (shifted % One) = One => zero % 2 = 0 /\ (2 * x) % scale = 0 /\ ((2 * x) \div scale) % 2 = 1

(* A chain of additions rounds each sum ("exactly for fp32/fp16",             *)
(* pooling_dilation_compatibility.cc:547-549).                                *)
PooledExactly(n, x, shape) ==
  n.op = "AveragePool" =>
    \A i \in 0..(Product(shape) - 1) : \A k \in DOMAIN Window(n, x, shape, i) :
      LET sum == Total(SubSeq(Window(n, x, shape, i), 1, k)) IN Fit(x.type, sum) = sum

ComputedExactly(g, feed, n) ==
  LET arg == [k \in DOMAIN n.in |-> IF n.in[k] = Absent THEN Absent ELSE ValueOf(g, feed, n.in[k])]
  IN CASE n.op = "DequantizeLinear" -> DequantizedExactly(g, n, arg)
       [] n.op = "QuantizeLinear" -> QuantizedExactly(g, n, arg)
       [] n.op \in {"AveragePool", "MaxPool"} -> PooledExactly(n, arg[1], Shape(g, n.out))
       [] OTHER -> TRUE
Exact(m) == \A i \in DOMAIN m.graph.node : ComputedExactly(m.graph, m.feed, m.graph.node[i])

-----------------------------------------------------------------------------
Done == pass = "done"

(* Each output of the graph has the value, type and shape it had before: the *)
(* arithmetic put in the place of Q and DQ, the folded constants, the other  *)
(* type of the Boolean bridge, the bounds taken off Clip and the slices of a *)
(* dilated pool are what the nodes they replace compute.  Values are the     *)
(* same only where nothing more is rounded than in the nodes replaced: see   *)
(* above for the cases in which the code is not what its comments say.       *)
SameMeaning ==
  Done => \A name \in model.graph.output :
            LET after == ValueOf(graph, model.feed, name)
                before == ValueOf(model.graph, model.feed, name)
            IN IF Exact(model) THEN after = before
               ELSE after.type = before.type /\ after.shape = before.shape

(* Every node of ORT's is in the graph, itself or as nodes with its id, and  *)
(* its output is the output of one of those; no name is produced twice, and  *)
(* a node comes after the nodes it depends on.                               *)
NodesTraceable ==
  Done =>
    /\ \A i \in DOMAIN model.graph.node :
         \E j \in DOMAIN graph.node : /\ graph.node[j].out = model.graph.node[i].out
                                      /\ graph.node[j].id = model.graph.node[i].id
    /\ \A i, j \in DOMAIN graph.node : graph.node[i].out = graph.node[j].out => i = j
    /\ \A j \in DOMAIN graph.node : \A name \in Range(graph.node[j].in) \ {Absent} :
         \/ name \in graph.input \cup DOMAIN graph.init
         \/ \E i \in 1..(j - 1) : graph.node[i].out = name

(* A node that has become the copy of a constant, which TensorRT may remove   *)
(* without a trace, is in the list the provider claims it by; and the list    *)
(* has no other.                                                             *)
IsCopy(i) == LET n == graph.node[i] IN n.op \in {"Identity", "Cast"} /\ n.in[1] \in DOMAIN graph.init
FoldedListed ==
  Done => folded = {<<n.id, n.out>> : n \in {graph.node[i] : i \in
                      {j \in DOMAIN graph.node : IsCopy(j) /\ \E k \in DOMAIN model.graph.node :
                         /\ model.graph.node[k].op = "DequantizeLinear"
                         /\ model.graph.node[k].out = graph.node[j].out}}}

(* Around an anchor nothing is mixed: if one quantization beside it has been  *)
(* lowered, no constant that feeds only it is dequantized natively; and a     *)
(* dequantization that did not need it has been lowered only beside one that  *)
(* did, and was.  Neither holds of a neighbour for which the policy and the   *)
(* rewriting disagree (against the comment of lines 1933-1935): a Q whose     *)
(* input has no declared type, which the evaluator does not ask for, and a    *)
(* node whose blocks do not divide the axis.                                  *)
Original(i) == model.graph.node[i]
IsLowered(i) == IsQdq(Original(i)) /\ \A j \in DOMAIN graph.node : graph.node[j] # Original(i)
Beside(a) == UNION {Producers(model.graph, name) : name \in Range(Original(a).in)}
               \cup {i \in Consumers(model.graph, Original(a).out) : Original(i).op = "QuantizeLinear"}
HasWholeBlocks(i) ==
  LET n == Original(i) IN Resolves(model.graph.init[n.in[2]], Shape(model.graph, n.in[1]), n)
PolicyIsFollowed(i) == IsQdq(Original(i)) => Rewritable(model.graph, Original(i)) /\ HasWholeBlocks(i)
NeedsLowering(i) ==
  \/ HasExplicitNonZeroZeroPoint(model.graph, Original(i))
  \/ /\ Original(i).op = "DequantizeLinear"
     /\ FindTensorElementType(model.graph, Original(i).in[1]) \in Wide
NativeConstant(i) ==
  /\ Original(i).op = "DequantizeLinear" /\ ~IsLowered(i)
  /\ Original(i).in[1] \in DOMAIN model.graph.init /\ Cardinality(Uses(model.graph, Original(i).out)) = 1
NeighbourhoodsUniform ==
  Done => \A a \in DOMAIN model.graph.node :
    IsComputeAnchorOp(Original(a)) /\ (\A i \in Beside(a) : PolicyIsFollowed(i)) =>
      /\ \A i, j \in Beside(a) : ~(IsLowered(i) /\ NativeConstant(j))
      /\ \A i \in Beside(a) : IsLowered(i) /\ ~NeedsLowering(i)
                              => \E j \in Beside(a) : IsLowered(j) /\ NeedsLowering(j)
=============================================================================
