--------------------------- MODULE WeightlessRefit ---------------------------
(***************************************************************************)
(* The weightless refit table (weightless_refit.cc): the byte layout an    *)
(* EPContext model carries, and what replaying it sets in a weight         *)
(* stripped engine (TensorrtRtxExecutionProvider::WeightlessRefitEngine-   *)
(* Impl).                                                                  *)
(*                                                                         *)
(* A blob is a sequence of fields; a number, a name or one data byte is    *)
(* one field, so a truncation at any field boundary and a foreign header   *)
(* are blobs like any other.  The contents of a weight are the symbolic    *)
(* value [by, of]: the transformation and the sources it was applied to.   *)
(***************************************************************************)
EXTENDS Integers, Sequences, FiniteSets, SequencesExt

CONSTANTS
    MaxBlob,   \* stands for INT_MAX, the limit of an attribute's length
    Corrupt    \* what a rejected blob deserializes to

ASSUME MaxBlobAssumption == MaxBlob \in Nat

Magic == "RFT1"
Version == 1

(* RefitTransformKind, by number as in the serialized format. *)
Identity == 0
DoubleToFloat == 1
FoldScale == 2
FoldBias == 3
ConstantNode == 4
ConstantOfShape == 5

\* WeightlessRefitRecord
WeightlessRefitRecord ==
    [kind : Identity .. ConstantOfShape, onnx_dtype : Int, trt_dtype : STRING,
     count : Int, epsilon : Int, trt_name : STRING,
     source_onnx_names : Seq(STRING), fixed_data : Seq(Nat)]

NoTable == <<>>
Int64Max == 1000000

-----------------------------------------------------------------------------
(* Serialization *)

\* AppendBytesU32Len / AppendBytesU64Len: a length, then that many fields.
Sized(fields) == <<Len(fields)>> \o fields

RecordFields(r) ==
    <<r.kind, r.onnx_dtype, r.trt_dtype, r.count, r.epsilon, r.trt_name>>
        \o Sized(r.source_onnx_names) \o Sized(r.fixed_data)

\* An empty result stands for "too large": the caller fails the export.
SerializeWeightlessRefitTable(records) ==
    LET buf == <<Magic, Version, Len(records)>>
                 \o FlattenSeq([i \in DOMAIN records |-> RecordFields(records[i])])
    IN  IF Len(buf) > MaxBlob THEN NoTable ELSE buf

-----------------------------------------------------------------------------
(* Deserialization *)

\* Reader: the length at pos and the fields it announces, if the blob has them.
HasSized(blob, pos) ==
    /\ pos <= Len(blob)
    /\ blob[pos] \in Nat
    /\ pos + blob[pos] <= Len(blob)
SizedAt(blob, pos) == SubSeq(blob, pos + 1, pos + blob[pos])

\* The record at pos, if the blob has all of it, and what follows it.
Sources(pos) == pos + 6
Data(blob, pos) == Sources(pos) + 1 + blob[Sources(pos)]
HasRecord(blob, pos) == HasSized(blob, Sources(pos)) /\ HasSized(blob, Data(blob, pos))
NextRecord(blob, pos) == Data(blob, pos) + 1 + blob[Data(blob, pos)]
RecordAt(blob, pos) ==
    [kind |-> blob[pos], onnx_dtype |-> blob[pos + 1], trt_dtype |-> blob[pos + 2],
     count |-> blob[pos + 3], epsilon |-> blob[pos + 4], trt_name |-> blob[pos + 5],
     source_onnx_names |-> SizedAt(blob, Sources(pos)),
     fixed_data |-> SizedAt(blob, Data(blob, pos))]

\* The loop over the announced records.
FirstRecord == [ok |-> TRUE, pos |-> 4, records |-> <<>>]
ReadRecord(blob, last) ==
    IF last.ok /\ HasRecord(blob, last.pos)
    THEN [ok |-> TRUE, pos |-> NextRecord(blob, last.pos),
          records |-> Append(last.records, RecordAt(blob, last.pos))]
    ELSE [last EXCEPT !.ok = FALSE]
ReadRecords(blob, count) ==
    LET read[n \in 0 .. count] ==
            IF n = 0 THEN FirstRecord ELSE ReadRecord(blob, read[n - 1])
    IN  read[count]

\* (mutant) trailing fields are ignored
AtAnyPlace(blob, last) == TRUE

\* AtEnd rejects what trails the announced records.
AtEnd(blob, last) == last.pos = Len(blob) + 1

DeserializeWeightlessRefitTable(blob) ==
    IF Len(blob) < 3 THEN Corrupt
    ELSE IF blob[1] # Magic \/ blob[2] # Version THEN Corrupt
    ELSE LET last == ReadRecords(blob, blob[3])
         IN  IF last.ok /\ AtEnd(blob, last) THEN last.records ELSE Corrupt

-----------------------------------------------------------------------------
(* Sources and filtering *)

IsConstantKind(kind) == kind \in {ConstantNode, ConstantOfShape}

\* CollectWeightlessRefitSourceNames
SourceNames(records) ==
    UNION {ToSet(records[i].source_onnx_names) :
             i \in {j \in DOMAIN records : ~IsConstantKind(records[j].kind)}}

\* std::remove_if: the records at the positions keep, in their order.
Picked(records, keep) ==
    LET picked[n \in 0 .. Len(records)] ==
            IF n = 0 THEN <<>>
            ELSE IF n \in keep THEN Append(picked[n - 1], records[n])
            ELSE picked[n - 1]
    IN  picked[Len(records)]

\* FilterRefitRecordsToEngine: the parser's records are a superset.
FilterRefitRecordsToEngine(records, engineNames) ==
    Picked(records, {i \in DOMAIN records : records[i].trt_name \in engineNames})

-----------------------------------------------------------------------------
(* Replay *)

\* WeightlessRequiredBytes; 0 stands for an unknown type, whose check is skipped.
BytesPerElement == [float |-> 4, half |-> 2, int8 |-> 1, int64 |-> 8]
WeightlessRequiredBytes(dtype, count) ==
    IF count < 0 THEN Int64Max
    ELSE IF dtype = "int4" THEN (count \div 2) + (count % 2)
    ELSE IF dtype \in DOMAIN BytesPerElement
         THEN IF count * BytesPerElement[dtype] > Int64Max THEN Int64Max
              ELSE count * BytesPerElement[dtype]
    ELSE 0

LargeEnough(size, need) == need = 0 \/ size >= need

\* One record's sources: supplied to the node, and large enough for its kind.
SourcesSuffice(r, data) ==
    LET names == r.source_onnx_names
        n     == IF r.kind \in {FoldScale, FoldBias} THEN 4 ELSE 1
        dtype == CASE r.kind = DoubleToFloat -> "int64"
                   [] r.kind \in {FoldScale, FoldBias} -> "float"
                   [] OTHER -> r.trt_dtype
        need  == WeightlessRequiredBytes(dtype, r.count)
    IN  /\ Len(names) >= n
        /\ \A i \in 1..n : names[i] \in DOMAIN data
        /\ r.kind \in {FoldScale, FoldBias} => r.onnx_dtype = 1
        /\ r.kind = DoubleToFloat => need < Int64Max
        /\ \A i \in 1..n : LargeEnough(data[names[i]].bytes, need)

\* Whether the switch of WeightlessRefitEngineImpl accepts the record.
RecordUsable(r, data) ==
    /\ r.count >= 0
    /\ \/ /\ r.kind \in {Identity, DoubleToFloat, FoldScale, FoldBias}
          /\ SourcesSuffice(r, data)
       \/ /\ IsConstantKind(r.kind)
          /\ r.fixed_data # <<>>
          /\ LargeEnough(Len(r.fixed_data),
                         WeightlessRequiredBytes(r.trt_dtype, r.count))

\* What the record puts into the engine.
RecordValue(r, data) ==
    IF IsConstantKind(r.kind) THEN [by |-> r.kind, of |-> r.fixed_data]
    ELSE LET n == IF r.kind \in {FoldScale, FoldBias} THEN 4 ELSE 1
         IN  [by |-> r.kind,
              of |-> [i \in 1..n |-> data[r.source_onnx_names[i]].value]]

\* Records the engine does not report are skipped; the last one of a name wins.
Replayed(records, engineNames) == FilterRefitRecordsToEngine(records, engineNames)

\* refit_names = engine_names, checked because the refitter does not.
Covers(records, engineNames) ==
    {records[i].trt_name : i \in DOMAIN records} = engineNames

\* WeightlessRefitEngineImpl: the weights set, or why the load is refused.
WeightlessRefitEngineImpl(records, data, engineNames) ==
    LET used == Replayed(records, engineNames) IN
    IF \E i \in DOMAIN used : ~RecordUsable(used[i], data)
    THEN [status |-> "unusable record", weights |-> <<>>]
    ELSE IF ~Covers(used, engineNames)
    THEN [status |-> "uncovered", weights |-> <<>>]
    ELSE [status |-> "ok",
          weights |-> [w \in engineNames |->
              RecordValue(used[SelectLastInSeq(used, LAMBDA r : r.trt_name = w)],
                          data)]]

=============================================================================
