--------------------------- MODULE MCPreprocessing ---------------------------
(***************************************************************************)
(* Small models: one quantization node with every layout of its scale,     *)
(* neighbourhoods of an anchor, bridges of a Boolean, clips and pools.      *)
(***************************************************************************)
EXTENDS PreprocessingProperties

MCWidth == "int8" :> 3 @@ "uint8" :> 3 @@ "int16" :> 6 @@ "uint16" :> 6 @@ "int32" :> 10 @@ "uint32" :> 10
MCPrecision == "bf16" :> 3 @@ "f16" :> 4 @@ "f32" :> 8 @@ "f64" :> 20

N(op, in, out, attr) == [op |-> op, in |-> in, out |-> out, id |-> out, attr |-> attr]
T(type, shape, at) == [type |-> type, shape |-> shape, data |-> "raw", at |-> at]
Scalar(type, v) == T(type, <<>>, <<v>>)
Declared(t) == [type |-> t.type, shape |-> t.shape]
Plain == <<>>
X == <<"x">>  Y == <<"y">>  Z == <<"z">>  S == <<"s">>  W == <<"w">>
(* A model whose inputs are those of feed, all declared.                     *)
ModelOf(node, init, feed, output, info) ==
  [graph |-> [node |-> node, init |-> init, input |-> DOMAIN feed, output |-> output,
              info |-> info @@ [name \in DOMAIN feed |-> Declared(feed[name])]],
   feed |-> feed, offset |-> 0]
NoInfo == NoInit

-----------------------------------------------------------------------------
(* Layouts: [x, p, attr], the shapes of input and parameter; the blocks of    *)
(* the last do not divide the axis.                                          *)
Layouts ==
  {[x |-> <<2, 2>>, p |-> <<>>, attr |-> Plain], [x |-> <<2, 2>>, p |-> <<1>>, attr |-> Plain],
   [x |-> <<2, 2>>, p |-> <<2>>, attr |-> Plain], [x |-> <<2, 2>>, p |-> <<2>>, attr |-> "axis" :> 0],
   [x |-> <<2, 2>>, p |-> <<2>>, attr |-> "axis" :> -2], [x |-> <<2, 2>>, p |-> <<2>>, attr |-> "axis" :> -1],
   [x |-> <<2>>, p |-> <<2>>, attr |-> "axis" :> 0],
   [x |-> <<4, 2>>, p |-> <<2, 2>>, attr |-> "axis" :> 0 @@ "block_size" :> 2],
   [x |-> <<2, 4>>, p |-> <<2, 2>>, attr |-> "axis" :> 1 @@ "block_size" :> 2],
   [x |-> <<3, 2>>, p |-> <<2, 2>>, attr |-> "axis" :> 0 @@ "block_size" :> 2]}

(* The values of a tensor of a shape, taken in turn from a sequence.         *)
Cycle(seq, shape) == [k \in 1..Product(shape) |-> seq[((k - 1) % Len(seq)) + 1]]
Quantized == "int8" :> <<-4, 3, 1, -2, 2>> @@ "uint8" :> <<0, 7, 3, 5, 1>> @@ "int16" :> <<-32, 31, 6, -19, 7>>
               @@ "uint16" :> <<63, 0, 22, 37, 2>> @@ "int32" :> <<387, -511, 3, 0, 260>>
               @@ "uint32" :> <<1023, 389, 0, 515, 7>>
Zeros(kind, type) ==
  IF kind = "zero" THEN <<0>> ELSE IF type \in Unsigned THEN <<2, 1, 3>> ELSE <<1, -2, 3>>

WithZero(kind, type, p) == IF kind = "none" THEN NoInit ELSE Z :> T(type, p, Cycle(Zeros(kind, type), p))
In(kind) == IF kind = "none" THEN <<X, S>> ELSE <<X, S, Z>>

DequantizeModel(l, type, scale, factors, kind, constant, known) ==
  LET x == T(type, l.x, Cycle(Quantized[type], l.x))
      init == S :> T(scale, l.p, Cycle([k \in 1..2 |-> Rounded(scale, factors[k])], l.p)) @@ WithZero(kind, type, l.p)
      node == <<N("DequantizeLinear", In(kind), Y, l.attr)>>
  IN IF constant THEN ModelOf(node, init @@ X :> x, NoInit, {Y}, NoInfo)
     ELSE ModelOf(node, init, X :> x, {Y},
                  IF known THEN NoInfo ELSE X :> [type |-> type, shape |-> [l.x EXCEPT ![1] = 0]])
(* Scales: powers of two, other numbers, subnormal ones.                      *)
Factors == {<<4, 8>>, <<3, 13>>, <<2, 4>>}
(* The parameters and the constant stored elsewhere than in raw bytes.        *)
StoredModels ==
  {LET m == DequantizeModel(l, type, scale, <<4, 8>>, "some", TRUE, TRUE)
   IN [m EXCEPT !.graph.init = [name \in DOMAIN @ |-> [@[name] EXCEPT !.data = where[name]]]] :
     l \in Layouts, type \in {"int8", "uint16"}, scale \in {"f32"},
     where \in {w \in [{X, S, Z} -> {"memory", "typed", "file"}] : w[S] # "typed"}}
DequantizeModels ==
  {DequantizeModel(l, type, scale, <<4, 8>>, kind, constant, known) :
     l \in Layouts, type \in DOMAIN Quantized, scale \in {"f32", "f64"}, kind \in {"none", "zero", "some"},
     constant \in BOOLEAN, known \in BOOLEAN}
  \cup {DequantizeModel(l, type, scale, factors, kind, constant, TRUE) :
     l \in Layouts, type \in DOMAIN Quantized, scale \in Floats, factors \in Factors,
     kind \in {"none", "some"}, constant \in BOOLEAN}

QuantizeModel(l, type, scale, kind, values) ==
  LET x == T(scale, l.x, Cycle(values, l.x))
      init == S :> T(scale, l.p, Cycle(<<4, 8>>, l.p)) @@ WithZero(kind, type, l.p)
      attr == IF kind = "none" THEN "output_dtype" :> type @@ l.attr ELSE l.attr
  IN ModelOf(<<N("QuantizeLinear", In(kind), Y, attr)>>, init, X :> x, {Y}, NoInfo)
(* Multiples of 1/4, in the first sequence none that a scale divides to a half. *)
Inputs == {<<-40, 9, 16, 7, 24, 1, -16>>, <<2, -6, 10, 4, 12, -2, 20>>}
QuantizeModels ==
  {QuantizeModel(l, type, scale, kind, values) :
     l \in Layouts, type \in DOMAIN Quantized \ {"int32", "uint32"}, scale \in Floats,
     kind \in {"none", "zero", "some"}, values \in Inputs}
  \cup {QuantizeModel(l, "int32", "f32", "some", values) : l \in Layouts, values \in Inputs}

-----------------------------------------------------------------------------
(* An activation and a weight dequantized, an anchor, its result quantized.  *)
Name(s) == <<s>>
NeighbourModel(anchor, activation, weight, shared, result, declared) ==
  LET zero(kind, type) == Scalar(type, IF kind = "some" THEN 2 ELSE 0)
      scales == IF weight.whole THEN Scalar("f32", 4) ELSE T("f32", <<2>>, <<4, 4>>)
      attr == IF weight.whole THEN Plain ELSE "axis" :> 0 @@ "block_size" :> 2
      init == S :> Scalar("f32", 4) @@ W :> T(weight.type, <<3>>, <<3, -1, 2>>) @@ Name("sw") :> scales
                @@ Name("za") :> zero(activation, "int8") @@ Name("zr") :> zero(result, "int8")
                @@ Name("zw") :> [scales EXCEPT !.type = weight.type,
                                    !.at = [k \in DOMAIN @ |-> zero(weight.zero, weight.type).at[1]]]
      node == <<N("DequantizeLinear", <<X, S, Name("za")>>, Name("a"), Plain),
                N("DequantizeLinear", <<W, Name("sw"), Name("zw")>>, Name("b"), attr),
                N(anchor, <<Name("a"), IF shared = "twice" THEN Name("a") ELSE Name("b")>>, Name("m"), Plain),
                N("QuantizeLinear", <<Name("m"), S, Name("zr")>>, Y, Plain)>>
              \o (IF shared = "other" THEN <<N("Relu", <<Name("b")>>, Name("r"), Plain)>> ELSE <<>>)
  IN ModelOf(node, init, X :> T("int8", <<3>>, <<1, -4, 0>>),
             {Y} \cup (IF shared = "other" THEN {Name("r")} ELSE {}),
             IF declared THEN Name("m") :> [type |-> "f32", shape |-> <<3>>] ELSE NoInfo)
NeighbourModels ==
  {NeighbourModel(anchor, activation, [type |-> type, zero |-> zero, whole |-> whole], shared, result, declared) :
     anchor \in {"MatMul", "Add"}, activation \in {"zero", "some"}, type \in {"int8", "int32"},
     zero \in {"zero", "some"}, whole \in BOOLEAN, shared \in {"no", "twice", "other"},
     result \in {"zero", "some"}, declared \in BOOLEAN}

-----------------------------------------------------------------------------
BridgeModel(to, others, output, declared) ==
  LET names == SetToSeq(to)
      node == <<N("Equal", <<X, W>>, Name("b"), Plain),
                N("Cast", <<Name("b")>>, Name("u"), "to" :> "uint8")>>
              \o [k \in DOMAIN names |-> N("Cast", <<Name("u")>>, <<"c", names[k]>>, "to" :> names[k])]
              \o (IF others THEN <<N("Relu", <<Name("u")>>, Y, Plain)>> ELSE <<>>)
  IN ModelOf(node, NoInit, X :> T("f32", <<2>>, <<4, 8>>) @@ W :> T("f32", <<2>>, <<4, 0>>),
             {<<"c", t>> : t \in to} \cup (IF others THEN {Y} ELSE {}) \cup (IF output THEN {Name("u")} ELSE {}),
             (IF "b" \in declared THEN Name("b") :> [type |-> "bool", shape |-> <<2>>] ELSE NoInfo)
               @@ (IF "u" \in declared THEN Name("u") :> [type |-> "uint8", shape |-> <<2>>] ELSE NoInfo))
BridgeModels ==
  {BridgeModel(to, others, output, declared) :
     to \in SUBSET {"f32", "int32", "uint8"}, others \in BOOLEAN, output \in BOOLEAN,
     declared \in SUBSET {"b", "u"}}

Values == <<-Infinity, -8, 0, 12, Infinity>>
BoundKinds == {"none", "finite", "-inf", "+inf", "nan", "input", "constant", "file"}
BoundValue(kind) == CASE kind = "-inf" -> -Infinity [] kind \in {"+inf", "constant"} -> Infinity
                      [] kind = "nan" -> NotANumber [] OTHER -> 4
BoundName(kind, side) == IF kind = "none" THEN Absent ELSE <<"bound", side>>
ClipModel(low, high, legacy) ==
  LET of(kind, side) ==
        BoundName(kind, side) :> [Scalar("f32", BoundValue(kind)) EXCEPT !.data = IF kind = "file" THEN kind ELSE "typed"]
      init(kind, side) == IF kind \in {"none", "input", "constant"} THEN NoInit ELSE of(kind, side)
      feed(kind, side) == IF kind = "input" THEN of(kind, side) ELSE NoInit
      constant(kind, side) ==
        IF kind # "constant" THEN <<>>
        ELSE <<N("Constant", <<>>, BoundName(kind, side), "value" :> Scalar("f32", BoundValue(kind)))>>
  IN ModelOf(constant(low, "low") \o constant(high, "high")
               \o <<N("Clip", <<X, BoundName(low, "low"), BoundName(high, "high")>>, Y,
                      IF legacy THEN "min" :> 0 ELSE Plain)>>,
             init(low, "low") @@ init(high, "high"),
             X :> T("f32", <<5>>, Values) @@ feed(low, "low") @@ feed(high, "high"), {Y}, NoInfo)
ClipModels == {ClipModel(low, high, legacy) : low \in BoundKinds, high \in BoundKinds, legacy \in BOOLEAN}

PoolModel(op, type, in, out, attr) ==
  LET x == T(type, <<1, 1>> \o in, [k \in 1..Product(in) |-> Fit(type, (9 * k) % 29)])
  IN ModelOf(<<N(op, <<X>>, Y, attr)>>, NoInit, X :> x, {Y}, Y :> [type |-> type, shape |-> <<1, 1>> \o out])
(* The size of the output; with ceil_mode a last partial window counts if it  *)
(* begins inside the input or the padding before it.                         *)
OutSize(size, k, s, d, pad, ceil) ==
  LET room == size + 2 * pad - d * (k - 1) - 1
      windows == (room + s - 1) \div s
  IN (IF ceil /\ windows * s < size + pad THEN windows ELSE room \div s) + 1
LinePools ==
  {PoolModel(op, type, <<size>>, <<OutSize(size, c.k, s, d, c.pad, ceil)>>,
             "kernel_shape" :> <<c.k>> @@ "strides" :> <<s>> @@ "dilations" :> <<d>>
               @@ "pads" :> <<c.pad, c.pad>>) :
     op \in {"AveragePool", "MaxPool"}, type \in {"f32", "f16"}, size \in 5..7, s \in 1..2, d \in 1..2, ceil \in BOOLEAN,
     c \in {[k |-> 1, pad |-> 0], [k |-> 2, pad |-> 1], [k |-> 3, pad |-> 0], [k |-> 3, pad |-> 1]}}
PlanePools ==
  {PoolModel(op, type, <<5, 3>>, <<OutSize(5, 2, s, 3, 0, FALSE), OutSize(3, 2, 1, 1, 0, FALSE)>>,
             "kernel_shape" :> <<2, 2>> @@ "strides" :> <<s, 1>> @@ "dilations" :> <<3, 1>>) :
     op \in {"AveragePool", "MaxPool"}, type \in {"f32", "f16", "int8"}, s \in 1..2}

(* One pass feeds the next: the input is dequantized, clipped and quantized. *)
ChainModels ==
  {[ModelOf(<<N("DequantizeLinear", <<X, S, Z>>, Name("d"), Plain),
              N("Clip", <<Name("d"), Name("low"), Name("high")>>, Name("c"), Plain),
              N("QuantizeLinear", <<Name("c"), S, Z>>, Y, Plain),
              N("GroupQueryAttention", <<Name("c")>>, Name("g"), attr)>>,
            S :> Scalar("f32", 8) @@ Z :> Scalar("int8", 1) @@ Name("low") :> Scalar("f32", low)
              @@ Name("high") :> Scalar("f32", Infinity),
            X :> T("int8", <<3>>, <<-4, 3, 0>>), {Y, Name("g")}, NoInfo)
    EXCEPT !.offset = offset] :
     low \in {-Infinity, -8}, offset \in {0, 3}, attr \in {Plain, "offset" :> 5}}

MCModels ==
  DequantizeModels \cup StoredModels \cup QuantizeModels \cup NeighbourModels \cup BridgeModels \cup ClipModels
    \cup LinePools \cup PlanePools \cup ChainModels
=============================================================================
