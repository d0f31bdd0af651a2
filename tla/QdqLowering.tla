----------------------------- MODULE QdqLowering -----------------------------
(***************************************************************************)
(* Lowering of QuantizeLinear and DequantizeLinear to plain arithmetic:    *)
(* the policy, and the nodes it puts in place of one it lowers.            *)
(*                                                                         *)
(* A graph is a record: "node", a sequence; "init", its initializers by     *)
(* name; "info", the type and shape the graph declares for a name, a        *)
(* dimension of 0 being unknown; "input" and "output", sets of names.       *)
(* A node is [op, in, out, id, attr]: id is its doc_string, the ORT node    *)
(* it stands for, and attr a function of the attributes it has.  A tensor   *)
(* is [type, shape, data, at]: data tells where its elements are stored,    *)
(* and at is the sequence of its elements, a float counted in units of      *)
(* 1/One.  Integers and significands are narrower than the real ones, in    *)
(* the same order (Width, Precision).                                       *)
(***************************************************************************)
EXTENDS Integers, Sequences, SequencesExt, FiniteSetsExt, Functions, TLC

CONSTANTS
  Width,       \* bits of each integer type
  Precision,   \* bits of the significand of each floating type
  One,         \* units in 1.0
  Infinity,    \* larger than any value
  SmallestNormal  \* of f16, in units

Absent == <<>>  \* the name of an input that is not there
Floats == DOMAIN Precision
Signed == {"int8", "int16", "int32", "int64"}
Unsigned == {"uint8", "uint16", "uint32"}

Product(shape) == FoldLeft(LAMBDA a, b : a * b, 1, shape)
GetTensorElementCount(t) == IF \E d \in Range(t.shape) : d <= 0 THEN 0 ELSE Product(t.shape)
TryGetQuantizedValueRange(type) ==
  IF type \in Signed THEN <<-(2 ^ (Width[type] - 1)), 2 ^ (Width[type] - 1) - 1>>
  ELSE <<0, 2 ^ Width[type] - 1>>

(* GraphIndex.  What the graph declares hides what an initializer says.      *)
FindTensorElementType(g, name) ==
  IF name \in DOMAIN g.info THEN g.info[name].type
  ELSE IF name \in DOMAIN g.init THEN g.init[name].type ELSE "unknown"
Shape(g, name) ==
  IF name \in DOMAIN g.info THEN g.info[name].shape
  ELSE IF name \in DOMAIN g.init THEN g.init[name].shape ELSE <<>>
Consumers(g, name) == {i \in DOMAIN g.node : name \in Range(g.node[i].in)}
Uses(g, name) == {<<i, k>> \in (DOMAIN g.node) \X (1..5) : k <= Len(g.node[i].in) /\ g.node[i].in[k] = name}
Producers(g, name) == {i \in DOMAIN g.node : g.node[i].out = name /\ name # Absent}
Attribute(n, key, default) == IF key \in DOMAIN n.attr THEN n.attr[key] ELSE default

(* Readers.  Data are raw bytes of the proto, memory of ORT's, or typed fields  *)
(* of the proto, from which the types kept in int32_data and uint64_data are   *)
(* packed.  Typed fields of f32, f64 and int64, which would be read through a  *)
(* null pointer, are not among the inputs: the serializer writes none.         *)
Packed(t) == t.data = "typed" /\ t.type \in (Signed \cup Unsigned \cup {"f16", "bf16"}) \ {"int64"}
Readable(t) == t.data \in {"raw", "memory"} \/ Packed(t)
(* A zero point whose data cannot be read counts as zero.                    *)
TensorHasAnyNonZeroValue(t) == Readable(t) /\ \E i \in DOMAIN t.at : t.at[i] # 0
IsPositiveScaleTensor(t) ==
  t.type \in Floats /\ Readable(t) /\ t.at # <<>> /\ \A v \in Range(t.at) : v > 0 /\ v < Infinity
Float16BitsToFloat(v) == IF v < SmallestNormal THEN v \div 2 ELSE v
ReadFloat(t, i) == IF t.type = "f16" THEN Float16BitsToFloat(t.at[i]) ELSE t.at[i]

(* A number rounded to the significand of a type, ties to even.              *)
RoundTo(v, m) ==
  LET q == v \div m
      r == v % m
  IN IF 2 * r < m \/ (2 * r = m /\ q % 2 = 0) THEN q * m ELSE (q + 1) * m
Magnitude(v) == IF v < 0 THEN -v ELSE v
Rounded(type, v) ==
  IF Magnitude(v) >= Infinity THEN v
  ELSE LET k == CHOOSE k \in 0..20 : /\ Magnitude(v) < 2 ^ (Precision[type] + k)
                                     /\ k = 0 \/ Magnitude(v) >= 2 ^ (Precision[type] + k - 1)
       IN RoundTo(v, 2 ^ k)

-----------------------------------------------------------------------------
(* Which element of a scale or zero point an element of the input uses, or   *)
(* Unresolved.  Indices and axes count from zero.                            *)
Unresolved == -1
Strides(shape) == [d \in DOMAIN shape |-> Product(SubSeq(shape, d + 1, Len(shape)))]
Coordinates(i, shape) == [d \in DOMAIN shape |-> (i \div Strides(shape)[d]) % shape[d]]
Axis(n, rank) == LET a == Attribute(n, "axis", 1) IN IF a < 0 THEN a + rank ELSE a

Along(c, dim, parameterDim, block) ==
  CASE block > 1 /\ parameterDim * block = dim -> c \div block
    [] parameterDim = 1 -> 0
    [] parameterDim # 1 /\ parameterDim = dim -> c
    [] OTHER -> Unresolved

TryResolveBroadcastIndex(i, shape, parameter, n) ==
  LET rank == Len(shape)
      axis == Axis(n, rank)
      block == Attribute(n, "block_size", 0)
      at == Coordinates(i, shape)
      p == parameter.shape
      along == [d \in DOMAIN shape |->
                  Along(at[d], shape[d], p[d], IF d = axis + 1 THEN block ELSE 0)]
  IN CASE p = <<>> \/ GetTensorElementCount(parameter) = 1 -> 0
       [] Len(p) = 1 /\ rank = 1 -> Along(at[1], shape[1], p[1], block)
       [] Len(p) = 1 /\ rank # 1 /\ GetTensorElementCount(parameter) # 1 ->
            IF axis \notin 0..(rank - 1) \/ (block > 1 /\ p[1] * block # shape[axis + 1])
              THEN Unresolved ELSE Along(at[axis + 1], shape[axis + 1], p[1], block)
       [] Len(p) > 1 /\ GetTensorElementCount(parameter) # 1 ->
            IF Len(p) # rank \/ \E d \in DOMAIN shape : along[d] = Unresolved THEN Unresolved
            ELSE FoldLeft(LAMBDA sum, d : sum + along[d] * Strides(p)[d], 0,
                          [d \in DOMAIN shape |-> d])

Resolves(t, shape, n) ==
  \A i \in 0..(Product(shape) - 1) : TryResolveBroadcastIndex(i, shape, t, n) # Unresolved
Spread(t, shape, n) ==
  [k \in 1..Product(shape) |-> t.at[TryResolveBroadcastIndex(k - 1, shape, t, n) + 1]]

-----------------------------------------------------------------------------
(* Policy.                                                                   *)
IsQdq(n) == n.op \in {"DequantizeLinear", "QuantizeLinear"} /\ Len(n.in) >= 2
IsComputeAnchorOp(n) == n.op \in {"Gemm", "MatMul", "Conv", "ConvTranspose"}
HasZeroInput(n) == Len(n.in) > 2 /\ n.in[3] # Absent
HasZero(g, n) == HasZeroInput(n) /\ n.in[3] \in DOMAIN g.init
HasExplicitNonZeroZeroPoint(g, n) == HasZero(g, n) /\ TensorHasAnyNonZeroValue(g.init[n.in[3]])
Wide == {"int32", "uint32"}  \* IsTensorRtUnsupportedQdqIntegerType

(* The gates of the driver; the evaluators look at the scale only, and that   *)
(* of DequantizeLinear at the type of the input too.                         *)
HasScale(g, n) ==
  IsQdq(n) /\ n.in[2] \in DOMAIN g.init /\ IsPositiveScaleTensor(g.init[n.in[2]])
Rewritable(g, n) == HasScale(g, n) /\ FindTensorElementType(g, n.in[1]) # "unknown"

OutputType(g, n) ==
  IF HasZero(g, n) THEN g.init[n.in[3]].type ELSE Attribute(n, "output_dtype", "uint8")

BaseMustLowerDequantize(g, n) ==
  /\ Rewritable(g, n)
  /\ HasExplicitNonZeroZeroPoint(g, n) \/ FindTensorElementType(g, n.in[1]) \in Wide

ShouldLowerQuantizeLinear(g, n) ==
  HasExplicitNonZeroZeroPoint(g, n) /\ OutputType(g, n) \in {"int8", "uint8", "int16", "uint16"}
EvaluateBaseQuantizeLowering(g, n) == HasScale(g, n) /\ ShouldLowerQuantizeLinear(g, n)

MustLower(g, n) ==
  CASE n.op = "DequantizeLinear" -> BaseMustLowerDequantize(g, n)
    [] n.op = "QuantizeLinear" -> EvaluateBaseQuantizeLowering(g, n)
    [] OTHER -> FALSE

IsSymmetricConstantDequantizeCandidate(g, n) ==
  /\ ~HasExplicitNonZeroZeroPoint(g, n) /\ FindTensorElementType(g, n.in[1]) \notin Wide
  /\ n.in[1] \notin g.input /\ n.in[1] \in DOMAIN g.init

(* The anchor the node alone feeds, the only consumer in this graph.         *)
FindSingleConsumerAnchor(g, n) ==
  {i \in Consumers(g, n.out) : Cardinality(Uses(g, n.out)) = 1 /\ IsComputeAnchorOp(g.node[i])}

(* (mutant) Only the producers of the anchor's inputs are asked. *)
AnchorHasForcedLoweringProducer(g, n, anchor) ==
  \E name \in Range(anchor.in) : \E i \in Producers(g, name) :
    g.node[i] # n /\ MustLower(g, g.node[i])
AnchorHasForcedLoweringSibling(g, n, anchor) ==
  \/ \E name \in Range(anchor.in) : \E i \in Producers(g, name) :
       g.node[i] # n /\ MustLower(g, g.node[i])
  \/ \E i \in Consumers(g, anchor.out) :
       g.node[i].op = "QuantizeLinear" /\ MustLower(g, g.node[i])

EvaluateDequantizeLowering(g, n) ==
  \/ BaseMustLowerDequantize(g, n)
  \/ /\ IsSymmetricConstantDequantizeCandidate(g, n)
     /\ \E i \in FindSingleConsumerAnchor(g, n) : AnchorHasForcedLoweringSibling(g, n, g.node[i])

-----------------------------------------------------------------------------
(* Rewriting.  A lowered name is made from the output of the node and a      *)
(* suffix; the code's running number keeps names apart, the output does here. *)
Lowered(n, suffix) == n.out \o <<suffix>>
(* (mutant) The doc_string is not copied. *)
HelperUntraced(n, op, in, out) == [op |-> op, in |-> in, out |-> out, id |-> Absent, attr |-> <<>>]
Helper(n, op, in, out) == [op |-> op, in |-> in, out |-> out, id |-> n.id, attr |-> <<>>]
CastTo(n, type, in, out) == [Helper(n, "Cast", <<in>>, out) EXCEPT !.attr = "to" :> type]
NoInit == [name \in {} |-> Absent]
Kept(name) == [ok |-> TRUE, name |-> name, node |-> <<>>, init |-> NoInit]
Declined == [ok |-> FALSE, name |-> Absent, node |-> <<>>, init |-> NoInit]

AddExpandedInitializer(g, n, base, t) ==
  LET shape == Shape(g, n.in[1])
      name == base \o <<"expanded">>
  IN IF Readable(t) /\ (\A d \in Range(shape) : d > 0) /\ Resolves(t, shape, n)
       THEN [Kept(name) EXCEPT !.init = name :> [t EXCEPT !.shape = shape, !.at = Spread(t, shape, n)]]
       ELSE Declined

ReshapeTo(n, base, in, rank, axis, size) ==
  LET name == base \o <<"reshaped">>
      dims == [d \in 1..rank |-> IF d = axis + 1 THEN size ELSE 1]
  IN [Kept(name) EXCEPT !.node = <<[Helper(n, "Reshape", <<in>>, name) EXCEPT !.attr = "shape" :> dims]>>]

(* A scale or zero point in the shape in which ONNX broadcasting gives each  *)
(* element its own.                                                          *)
MaybeAddAxisReshape(g, n, base, name, t) ==
  LET rank == Len(Shape(g, n.in[1]))
      axis == Axis(n, rank)
  IN IF t.shape = <<>> \/ GetTensorElementCount(t) = 1 THEN Kept(name)
     ELSE IF rank = 0 THEN Declined
     ELSE IF Attribute(n, "block_size", 0) > 1 THEN AddExpandedInitializer(g, n, base, t)
     ELSE IF Len(t.shape) > 1 THEN (IF Len(t.shape) = rank THEN Kept(name) ELSE Declined)
     ELSE IF rank = 1 \/ axis = rank - 1 THEN Kept(name)
     ELSE IF axis \in 0..(rank - 1) THEN ReshapeTo(n, base, name, rank, axis, t.shape[1])
     ELSE Declined

GetPromotedZeroPointType(type, arithmetic) ==
  CASE type \in {"int64", "uint32"} -> "int64"
    [] type = "int32" -> "int32"
    [] OTHER -> IF arithmetic = "f64" THEN "int64" ELSE "int32"

(* (mutant) The difference is taken in the type of the scale. *)
GetDequantizeFloatMathType(type, arithmetic) == arithmetic
GetDequantizeMathType(type, arithmetic) == IF type \in Wide THEN "int64" ELSE arithmetic

GetQuantizeArithmeticType(scale, output) ==
  IF output \in {"int16", "uint16"} /\ scale \in {"f16", "bf16"} THEN "f32" ELSE scale

(* The scale and the zero point, ready for arithmetic of a type.             *)
Prepared(g, n, arithmetic) ==
  LET scale == g.init[n.in[2]]
      s == MaybeAddAxisReshape(g, n, Lowered(n, "scale"), n.in[2], scale)
      cast == Lowered(n, "scale_cast")
      casts == IF arithmetic = scale.type THEN <<>> ELSE <<CastTo(n, arithmetic, s.name, cast)>>
      scaleName == IF casts = <<>> THEN s.name ELSE cast
      zero == g.init[n.in[3]]
      narrow == zero.type \notin {"int32", "int64"}
      promoted == [zero EXCEPT !.type = GetPromotedZeroPointType(zero.type, arithmetic)]
      zeroName == IF narrow THEN Lowered(n, "zero_promoted") ELSE n.in[3]
      zeroInit == IF narrow THEN zeroName :> promoted ELSE NoInit
      z == MaybeAddAxisReshape([g EXCEPT !.init = @ @@ zeroInit], n, Lowered(n, "zero"), zeroName, promoted)
  IN IF ~s.ok THEN [ok |-> FALSE, node |-> <<>>, init |-> NoInit]
     ELSE IF ~HasZero(g, n)
       THEN [ok |-> TRUE, node |-> s.node \o casts, init |-> s.init, scale |-> scaleName, zero |-> Absent]
     ELSE IF narrow /\ ~Readable(zero) THEN [ok |-> FALSE, node |-> s.node \o casts, init |-> s.init]
     ELSE [ok |-> z.ok, node |-> s.node \o casts \o z.node, init |-> s.init @@ zeroInit @@ z.init,
           scale |-> scaleName, zero |-> z.name]

(* x - zero or x + zero in a type, or x itself.                              *)
Shifted(n, op, type, p, x) ==
  IF p.zero = Absent THEN <<>>
  ELSE <<CastTo(n, type, p.zero, Lowered(n, "zero_cast")),
         Helper(n, op, <<x, Lowered(n, "zero_cast")>>, Lowered(n, "shifted"))>>
AfterShift(n, p, x) == IF p.zero = Absent THEN x ELSE Lowered(n, "shifted")

LoweredDequantize(g, n, p) ==
  LET arithmetic == g.init[n.in[2]].type
      math == GetDequantizeMathType(FindTensorElementType(g, n.in[1]), arithmetic)
      cast == Lowered(n, "input_cast")
      shifted == AfterShift(n, p, cast)
      diff == IF math = arithmetic THEN shifted ELSE Lowered(n, "diff_cast")
  IN <<CastTo(n, math, n.in[1], cast)>> \o Shifted(n, "Sub", math, p, cast)
       \o (IF math = arithmetic THEN <<>> ELSE <<CastTo(n, arithmetic, shifted, diff)>>)
       \o <<Helper(n, "Mul", <<diff, p.scale>>, n.out)>>

Bound(n, side) == Lowered(n, side)
QuantizedRange(g, n) ==
  LET range == TryGetQuantizedValueRange(OutputType(g, n))
      scalar(v) == [type |-> "int32", shape |-> <<>>, data |-> "raw", at |-> <<v>>]
  IN (Bound(n, "qmin") :> scalar(range[1])) @@ (Bound(n, "qmax") :> scalar(range[2]))

LoweredQuantize(g, n, p, arithmetic) ==
  LET cast == Lowered(n, "input_cast")
      div == Lowered(n, "div")
      clamp(op, x, bound, out) ==
        <<CastTo(n, arithmetic, bound, bound \o <<"cast">>), Helper(n, op, <<x, bound \o <<"cast">> >>, out)>>
  IN <<CastTo(n, arithmetic, n.in[1], cast), Helper(n, "Div", <<cast, p.scale>>, div)>>
       \o Shifted(n, "Add", arithmetic, p, div)
       \o <<Helper(n, "Round", <<AfterShift(n, p, div)>>, Lowered(n, "rounded"))>>
       \o clamp("Max", Lowered(n, "rounded"), Bound(n, "qmin"), Lowered(n, "clamped_min"))
       \o clamp("Min", Lowered(n, "clamped_min"), Bound(n, "qmax"), Lowered(n, "clamped"))
       \o <<CastTo(n, OutputType(g, n), Lowered(n, "clamped"), n.out)>>

(* TryFoldConstantDequantizeLinear: the values are computed here, in f32 for *)
(* a narrower type.                                                          *)
StorageType(type) == IF type = "f64" THEN "f64" ELSE "f32"
ReadableForFold(g, n) ==
  /\ n.in[1] \in DOMAIN g.init /\ Readable(g.init[n.in[1]])
  /\ HasZero(g, n) => Readable(g.init[n.in[3]])
CanFold(g, n) ==
  /\ ReadableForFold(g, n)
  /\ Resolves(g.init[n.in[2]], g.init[n.in[1]].shape, n)
  /\ HasZero(g, n) => Resolves(g.init[n.in[3]], g.init[n.in[1]].shape, n)

(* A fold given up at an element leaves the initializer it was to fill.      *)
Unfinished(g, n) ==
  IF ~ReadableForFold(g, n) \/ CanFold(g, n) THEN NoInit
  ELSE Lowered(n, "folded_constant") :>
         [type |-> StorageType(g.init[n.in[2]].type), shape |-> g.init[n.in[1]].shape,
          data |-> "none", at |-> <<>>]

ZeroOf(g, n, i) ==
  IF HasZero(g, n) THEN Spread(g.init[n.in[3]], g.init[n.in[1]].shape, n)[i] ELSE 0

FoldedValues(g, n) ==
  LET x == g.init[n.in[1]]
      scale == g.init[n.in[2]]
      factor(i) == ReadFloat(scale, TryResolveBroadcastIndex(i - 1, x.shape, scale, n) + 1)
      type == StorageType(scale.type)
  IN [type |-> type, shape |-> x.shape, data |-> "raw",
      at |-> [i \in DOMAIN x.at |-> Rounded(type, (x.at[i] - ZeroOf(g, n, i)) * factor(i))]]

(* (mutant) The name recorded is that of the folded constant. *)
FoldedRecordOfConstant(n) == <<n.id, Lowered(n, "folded_constant")>>
FoldedRecord(n) == <<n.id, n.out>>  \* FoldedQdqNodeInfo

FoldedNode(g, n) ==
  LET name == Lowered(n, "folded_constant")
      type == g.init[n.in[2]].type
  IN IF type = StorageType(type) THEN Helper(n, "Identity", <<name>>, n.out)
     ELSE CastTo(n, type, name, n.out)
=============================================================================
