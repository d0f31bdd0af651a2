----------------------------- MODULE StreamReader ----------------------------
(***************************************************************************)
(* DirectCudaStreamReader (direct_cuda_stream_reader.cc): an engine file   *)
(* read in aligned chunks through a ring of pinned staging slots, from     *)
(* which chunks are uploaded asynchronously on a CUDA stream.              *)
(*                                                                         *)
(* A reader is a record; the operators below are the steps of its methods. *)
(* The file is a sequence of bytes.  `queue' is what the stream has still  *)
(* to do: an upload reads its slot when the stream runs it, not when it is *)
(* enqueued, which is why a slot may not be refilled before its event.     *)
(***************************************************************************)
EXTENDS Integers, Sequences, FiniteSets, SequencesExt

CONSTANTS
    Alignment,     \* DetectAlignment: what direct reads must be aligned to
    SlotBytes,     \* requested_slot_bytes
    RingDepth      \* kEngineStreamReaderRingDepth

ASSUME ReaderAssumption ==
    /\ Alignment \in Nat \ {0}
    /\ SlotBytes \in Nat
    /\ RingDepth \in Nat

AlignDown(value) == (value \div Alignment) * Alignment
AlignUp(value) ==
    IF value % Alignment = 0 THEN value ELSE value + Alignment - (value % Alignment)

\* The constructor's checks; AlignUp makes the slot a multiple of Alignment.
ReaderAccepted == RingDepth >= 1 /\ AlignUp(SlotBytes) > Alignment

NoByte == -1

\* Impl: nothing in flight, at the start of the file.
NewReader(size) ==
    [size |-> size, position |-> 0, next |-> 1,
     slots |-> [i \in 1..RingDepth |-> <<>>],
     inflight |-> [i \in 1..RingDepth |-> FALSE],
     queue |-> <<>>, error |-> FALSE]

\* ReadAt and ReadBufferedAt: what the file has of the bytes asked for.
ReadAt(file, offset, bytes) ==
    SubSeq(file, offset + 1, IF offset + bytes < Len(file) THEN offset + bytes ELSE Len(file))

\* The event of a slot is recorded after its upload: it has fired once no
\* upload of the slot is queued.  WaitSlot blocks until then.
EventFired(r, slot) == \A i \in DOMAIN r.queue : r.queue[i].slot # slot

\* A WaitSlot that waits for the slot filled last.
WaitsForLatest(r) == IF r.queue = <<>> THEN TRUE ELSE Last(r.queue).slot # r.next

CanUseSlot(r) == r.inflight[r.next] => EventFired(r, r.next)

\* How many bytes a request may still ask for.
Available(r) == IF r.position >= r.size THEN 0 ELSE r.size - r.position
LeastOf(a, b) == IF a < b THEN a ELSE b

\* One iteration of the loop of Read into device memory at `to': the chunk of
\* at most `wanted' bytes at the reader's position.
MaxPayload == AlignDown(AlignUp(SlotBytes) - Alignment)
Payload(wanted) == LeastOf(MaxPayload, wanted)
ChunkPrefix(r) == r.position - AlignDown(r.position)

NextSlotOf(r) == (r.next % RingDepth) + 1

\* Read returns -1 with the ring left as it is, as when waiting for the slot
\* throws.  `error' says that it did: TensorRT asks for nothing more.
FailedRead(r) == [r EXCEPT !.error = TRUE, !.next = NextSlotOf(r)]

\* The chunk is staged and its upload enqueued.
EnqueuedChunk(r, received, payload, to) ==
    [r EXCEPT !.slots[r.next] = received,
              !.next = NextSlotOf(r),
              !.queue = Append(@, [slot |-> r.next, from |-> ChunkPrefix(r),
                                   bytes |-> payload, to |-> to])]

\* The slot is free: reading or enqueueing throws, the file is too short, the
\* event of an upload that was enqueued cannot be recorded, or all goes well.
\* The position moves with each chunk; Read, which alone uses it meanwhile,
\* moves it at its end.
ChunkReads(r, file, wanted, to) ==
    LET payload  == Payload(wanted)
        prefix   == ChunkPrefix(r)
        received == ReadAt(file, AlignDown(r.position), AlignUp(prefix + payload))
        enqueued == EnqueuedChunk(r, received, payload, to)
    IN  {[FailedRead(r) EXCEPT !.inflight[r.next] = FALSE]}
        \cup IF Len(received) < prefix + payload THEN {}
             ELSE {[enqueued EXCEPT !.error = TRUE, !.inflight[r.next] = FALSE],
                   [enqueued EXCEPT !.inflight[r.next] = TRUE,
                                    !.position = @ + payload]}

\* Cleanup waits for the events of the slots in flight.
MayCleanUp(r) == \A slot \in 1..RingDepth : r.inflight[slot] => EventFired(r, slot)

\* The stream runs the upload at the head of its queue.
UploadHead(r, memory) ==
    LET copy == Head(r.queue) IN
    [i \in DOMAIN memory |->
        IF i \in copy.to + 1 .. copy.to + copy.bytes
        THEN LET at == copy.from + i - copy.to
             IN  IF at \in DOMAIN r.slots[copy.slot] THEN r.slots[copy.slot][at] ELSE NoByte
        ELSE memory[i]]

\* Read into host memory: the same chunks, copied before the call returns.
HostBytes(r, file, wanted) ==
    LET bytes[left \in 0 .. wanted] ==
            IF left = 0 THEN <<>>
            ELSE LET at       == [r EXCEPT !.position = @ + (wanted - left)]
                     payload  == Payload(left)
                     prefix   == ChunkPrefix(at)
                     received == ReadAt(file, AlignDown(at.position), AlignUp(prefix + payload))
                 IN  SubSeq(received, prefix + 1, prefix + payload) \o bytes[left - payload]
    IN  bytes[wanted]

\* Seek: the new position, or -1 when it would leave the file.
Seek(r, offset, where) ==
    LET base == CASE where = "set" -> 0
                  [] where = "cur" -> r.position
                  [] where = "end" -> r.size
    IN  IF base + offset \in 0..r.size THEN base + offset ELSE -1

=============================================================================
