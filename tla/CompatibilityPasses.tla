------------------------- MODULE CompatibilityPasses -------------------------
(***************************************************************************)
(* The passes that follow the lowering of quantization, each over the       *)
(* nodes in order: the bridge that carries a Boolean as uint8, Clip with    *)
(* infinite bounds, dilated pooling, and the offset of rotary caches.       *)
(* The graph has the form QdqLowering gives it.                             *)
(***************************************************************************)
EXTENDS QdqLowering

(* CanonicalizeBoolBridgeCastChain.  "index" is the graph as it was when the *)
(* pass began; its types are stale where the pass has changed them.          *)
KnownBoolProducers == {"Equal", "NotEqual", "Greater", "GreaterOrEqual", "Less", "LessOrEqual",
                       "And", "Or", "Xor", "Not", "IsInf", "IsNaN"}
IsBoolTensor(index, name) ==
  IF name \in DOMAIN index.info THEN index.info[name].type = "bool"
  ELSE \E i \in Producers(index, name) : index.node[i].op \in KnownBoolProducers

IsCast(n) == n.op = "Cast" /\ Len(n.in) = 1
ConsumersCast(g, name) ==
  /\ Consumers(g, name) # {}
  /\ \A j \in Consumers(g, name) : IsCast(g.node[j]) /\ Attribute(g.node[j], "to", "uint8") # "uint8"

CanRetarget(index, g, i) ==
  LET n == g.node[i]
  IN /\ IsCast(n) /\ Attribute(n, "to", "none") = "uint8" /\ n.out \notin g.output
     /\ IsBoolTensor(index, n.in[1]) /\ ConsumersCast(g, n.out)

Retargeted(g, i) ==
  LET out == g.node[i].out
  IN [g EXCEPT !.node[i].attr = "to" :> "int32",
               !.info = IF out \in DOMAIN @ THEN [@ EXCEPT ![out].type = "int32"] ELSE @]

-----------------------------------------------------------------------------
(* RewriteClipBounds.                                                        *)
NotANumber == Infinity + 1
ClassifyScalarTensor(t) ==
  IF GetTensorElementCount(t) # 1 THEN "unknown"
  ELSE IF t.type \in Signed \cup Unsigned THEN "finite"
  ELSE IF t.type \notin Floats \/ t.data = "file" THEN "unknown"
  ELSE CASE t.at[1] = Infinity -> "+inf"
         [] t.at[1] = -Infinity -> "-inf"
         [] t.at[1] = NotANumber -> "nonfinite"
         [] OTHER -> "finite"

(* An initializer, or the value of a Constant node.                          *)
ResolveBound(g, n, k) ==
  IF Len(n.in) < k \/ (Len(n.in) >= k /\ n.in[k] = Absent) THEN "missing"
  ELSE IF n.in[k] \in DOMAIN g.init THEN ClassifyScalarTensor(g.init[n.in[k]])
  ELSE LET constants == {i \in Producers(g, n.in[k]) : g.node[i].op = "Constant"}
       IN IF constants = {} THEN "unknown"
          ELSE ClassifyScalarTensor(g.node[CHOOSE i \in constants : TRUE].attr["value"])

IsUnbounded(kind, infinity) == kind = infinity

RewrittenClip(g, n) ==
  LET lower == ResolveBound(g, n, 2)
      upper == ResolveBound(g, n, 3)
      replaced(op, in) == [n EXCEPT !.op = op, !.in = in, !.attr = <<>>]
  IN CASE n.op # "Clip" \/ {"min", "max"} \cap DOMAIN n.attr # {} -> n
       [] IsUnbounded(lower, "-inf") /\ IsUnbounded(upper, "+inf") -> replaced("Identity", <<n.in[1]>>)
       [] lower = "finite" /\ IsUnbounded(upper, "+inf") -> replaced("Max", <<n.in[1], n.in[2]>>)
       [] IsUnbounded(lower, "-inf") /\ upper = "finite" -> replaced("Min", <<n.in[1], n.in[3]>>)
       [] OTHER -> n

-----------------------------------------------------------------------------
(* RewritePoolingDilations: one Slice for each tap of the kernel, joined by   *)
(* Add and Div or by Max.                                                    *)
CONSTANT MaxLoweredTaps

Uniform(k, v) == [d \in 1..k |-> v]
Kernel(n) == Attribute(n, "kernel_shape", <<>>)
PoolStrides(n) == Attribute(n, "strides", Uniform(Len(Kernel(n)), 1))
Dilations(n) == Attribute(n, "dilations", Uniform(Len(Kernel(n)), 1))
Pads(n) == Attribute(n, "pads", Uniform(2 * Len(Kernel(n)), 0))
AllPositive(s) == \A v \in Range(s) : v > 0
StaticShape(g, name) == Shape(g, name) # <<>> /\ AllPositive(Shape(g, name))

WindowsInside(n, in, out) ==
  \A d \in DOMAIN Kernel(n) :
    (out[d + 2] - 1) * PoolStrides(n)[d] + (Kernel(n)[d] - 1) * Dilations(n)[d] < in[d + 2]

TryBuildPoolLoweringPlan(g, n) ==
  LET rank == Len(Kernel(n))
      in == Shape(g, n.in[1])
      out == Shape(g, n.out)
  IN /\ n.op \in {"AveragePool", "MaxPool"} /\ Len(n.in) = 1
     /\ Attribute(n, "auto_pad", "NOTSET") = "NOTSET"
     /\ rank > 0 /\ AllPositive(Kernel(n))
     /\ Len(PoolStrides(n)) = rank /\ Len(Dilations(n)) = rank /\ Len(Pads(n)) = 2 * rank
     /\ AllPositive(PoolStrides(n)) /\ AllPositive(Dilations(n))
     /\ Range(Dilations(n)) # {1} /\ Range(Pads(n)) = {0}
     /\ StaticShape(g, n.in[1]) /\ Len(in) = rank + 2 /\ StaticShape(g, n.out) /\ Len(out) = rank + 2
     /\ out[1] = in[1] /\ out[2] = in[2]
     /\ FindTensorElementType(g, n.in[1]) \in {"f32", "f16"}
     /\ Product(Kernel(n)) <= MaxLoweredTaps
     /\ WindowsInside(n, in, out)

DecodeTapCoordinates(n, tap) == Coordinates(tap, Kernel(n))

SliceEnd(n, out, d, start) == start + (out[d + 2] - 1) * PoolStrides(n)[d] + 1
BuildSliceParameters(n, in, out, tap) ==
  LET start == [d \in DOMAIN Kernel(n) |-> DecodeTapCoordinates(n, tap)[d] * Dilations(n)[d]]
      spatial(whole, of(_)) == [d \in DOMAIN in |-> IF d <= 2 THEN whole[d] ELSE of(d - 2)]
  IN ("starts" :> spatial(<<0, 0>>, LAMBDA d : start[d]))
       @@ ("ends" :> spatial(in, LAMBDA d : SliceEnd(n, out, d, start[d])))
       @@ ("steps" :> spatial(<<1, 1>>, LAMBDA d : PoolStrides(n)[d]))

TapName(n, tap) == IF Product(Kernel(n)) = 1 THEN n.out ELSE n.out \o <<"tap", ToString(tap)>>
Slices(g, n) ==
  LET in == Shape(g, n.in[1])
      out == Shape(g, n.out)
      slice(tap) == [Helper(n, "Slice", n.in, TapName(n, tap)) EXCEPT
                       !.attr = BuildSliceParameters(n, in, out, tap)]
  IN [k \in 1..Product(Kernel(n)) |-> slice(k - 1)]

(* The taps joined two by two; the last result has the name "end".           *)
Chain(n, op, suffix, end) ==
  LET taps == Product(Kernel(n))
      name(k) == IF k = 0 THEN TapName(n, 0) ELSE IF k = taps - 1 THEN end ELSE n.out \o <<suffix, ToString(k)>>
  IN [k \in 1..(taps - 1) |-> Helper(n, op, <<name(k - 1), TapName(n, k)>>, name(k))]

Divisor(n) == n.out \o <<"divisor">>
LoweredPool(g, n) ==
  Slices(g, n) \o
    (CASE Product(Kernel(n)) = 1 -> <<>>
       [] Product(Kernel(n)) > 1 /\ n.op = "AveragePool" ->
            Chain(n, "Add", "sum", n.out \o <<"sum">>)
              \o <<Helper(n, "Div", <<n.out \o <<"sum">>, Divisor(n)>>, n.out)>>
       [] Product(Kernel(n)) > 1 /\ n.op = "MaxPool" -> Chain(n, "Max", "max", n.out))
PoolInit(g, n) ==
  IF n.op = "AveragePool" /\ Product(Kernel(n)) > 1
    THEN Divisor(n) :> [type |-> FindTensorElementType(g, n.in[1]), shape |-> <<>>, data |-> "raw",
                        at |-> <<Product(Kernel(n)) * One>>]
    ELSE NoInit

-----------------------------------------------------------------------------
(* ApplyMultiRotaryCacheConcatOffset, on one node.                           *)
WithOffset(n, offset) ==
  IF n.op = "GroupQueryAttention" /\ offset # 0 /\ "offset" \notin DOMAIN n.attr
    THEN [n EXCEPT !.attr = ("offset" :> offset) @@ @] ELSE n
=============================================================================
