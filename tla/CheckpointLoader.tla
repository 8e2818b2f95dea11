-------------------------- MODULE CheckpointLoader --------------------------
(***************************************************************************)
(* load_checkpoint (src/checkpoint.cpp): one pass over a file whose size   *)
(* is taken once, when it is opened.  Every field is read only if the size *)
(* leaves room for it and the file still has it.                           *)
(*                                                                         *)
(* One action per part of a record.  Loading changes nothing but the       *)
(* reader's own state; what it read so far is in loaded, in file order     *)
(* (the code keeps two maps, which only the names' uniqueness and the      *)
(* lookups of require_quantization_scale look into).                       *)
(***************************************************************************)
EXTENDS CheckpointFormat

CONSTANTS
  IsUtf8(_),            \* the names is_valid_utf8 accepts
  MaxTensors, MaxRank, MaxNameSize, MaxPayload, MaxTotalPayload,
  Files,                \* what may be in the file
  TensorLists           \* the lists of tensors a caller may want to store

ASSUME LimitsAssumption ==
  /\ {MaxTensors, MaxRank, MaxNameSize, MaxPayload, MaxTotalPayload} \subseteq Nat
  /\ MaxPayload <= MaxTotalPayload
  /\ MaxRank + MaxNameSize + MaxPayload <= MaxWord
  /\ Files \subseteq Seq(0..MaxWord)
  /\ TensorLists \subseteq Seq([name : Seq(0..MaxWord), type : 0..MaxWord,
                               shape : Seq(0..MaxWord), payload : Seq(0..MaxWord)])

VARIABLES
  file,        \* the units in the file; another process may change them
  stage,       \* which part is read next, or how loading ended
  position,    \* units read
  remaining,   \* remaining_m: the size at opening, less what was read
  config, tensorCount,
  tensor,      \* the record being read: its header, shape and name so far
  total,       \* total_payload_size
  loaded       \* the tensors read

reader == <<stage, position, remaining, config, tensorCount, tensor, total, loaded>>

vars == <<file, reader>>

NoTensor == [nameLength |-> 0, type |-> 0, rank |-> 0, flags |-> 0,
             elementCount |-> 0, payloadSize |-> 0, shape |-> <<>>, name |-> <<>>]

ReaderInit ==
  /\ stage = "closed"
  /\ position = 0 /\ remaining = 0
  /\ config = 0 /\ tensorCount = 0
  /\ tensor = NoTensor
  /\ total = 0
  /\ loaded = <<>>

-----------------------------------------------------------------------------
(* BinaryReader. *)

\* read_exact succeeds: by the size it was opened with, and by the file.
Readable(n) == n <= remaining /\ position + n <= Len(file)

Ahead(n) == SubSeq(file, position + 1, position + n)

\* Loading goes on behind n units, or is given up.
Consume(n) == position' = position + n /\ remaining' = remaining - n
Reject ==
  /\ stage' = "rejected"
  /\ UNCHANGED <<file, position, remaining, config, tensorCount, tensor, total, loaded>>

Open ==
  /\ stage = "closed"
  /\ stage' = "header"
  /\ remaining' = Len(file)
  /\ UNCHANGED <<file, position, config, tensorCount, tensor, total, loaded>>

-----------------------------------------------------------------------------
(* read_global_header. *)

CountFitsWithRoom(count) ==
  /\ count < (remaining - GlobalHeaderSize) \div MinimumRecordSize
  /\ count <= MaxTensors
CountFits(count) ==
  /\ count <= (remaining - GlobalHeaderSize) \div MinimumRecordSize
  /\ count <= MaxTensors

GoodGlobalHeader(h) ==
  /\ h[1] = Magic
  /\ h[3] \in Configs
  /\ h[4] = 0
  /\ CountFits(h[2])

ReadGlobalHeader ==
  /\ stage = "header"
  /\ IF Readable(GlobalHeaderSize) /\ GoodGlobalHeader(Ahead(GlobalHeaderSize))
     THEN /\ tensorCount' = Ahead(GlobalHeaderSize)[2]
          /\ config' = Ahead(GlobalHeaderSize)[3]
          /\ Consume(GlobalHeaderSize)
          /\ stage' = "record"
          /\ UNCHANGED <<file, tensor, total, loaded>>
     ELSE Reject

-----------------------------------------------------------------------------
(* One record. *)

Header(h) == [nameLength |-> h[1], type |-> h[2], rank |-> h[3], flags |-> h[4],
              elementCount |-> h[5], payloadSize |-> h[6], shape |-> <<>>, name |-> <<>>]

\* validate_tensor_header, and the limit on all payloads together.
RestOfRecordWithoutName(h) == h.rank + h.payloadSize
RestOfRecord(h) == h.rank + h.nameLength + h.payloadSize

TotalAllows(h) == total <= MaxTotalPayload - h.payloadSize

GoodTensorHeader(h) ==
  /\ h.type \in {FLOAT32, INT8}
  /\ h.flags = 0
  /\ h.rank \in 1..MaxRank
  /\ h.nameLength \in 1..MaxNameSize
  /\ h.payloadSize <= MaxPayload
  /\ RestOfRecord(h) <= remaining - TensorHeaderSize
  /\ TotalAllows(h)

ReadTensorHeader ==
  /\ stage = "record" /\ Len(loaded) < tensorCount
  /\ LET h == Header(Ahead(TensorHeaderSize)) IN
     IF Readable(TensorHeaderSize) /\ GoodTensorHeader(h)
     THEN /\ tensor' = h
          /\ total' = total + h.payloadSize
          /\ Consume(TensorHeaderSize)
          /\ stage' = "shape"
          /\ UNCHANGED <<file, config, tensorCount, loaded>>
     ELSE Reject

\* read_shape.  No partial product overflows unless the whole one does: no
\* dimension is zero.
ShapeMatches(shape) ==
  /\ \A axis \in 1..Len(shape) : shape[axis] # 0
  /\ ElementCount(shape) <= MaxWord
  /\ ElementCount(shape) = tensor.elementCount
  /\ tensor.elementCount <= MaxWord \div BytesPerElement(tensor.type)
  /\ tensor.payloadSize = tensor.elementCount * BytesPerElement(tensor.type)

ReadShape ==
  /\ stage = "shape"
  /\ IF Readable(tensor.rank) /\ ShapeMatches(Ahead(tensor.rank))
     THEN /\ tensor' = [tensor EXCEPT !.shape = Ahead(tensor.rank)]
          /\ Consume(tensor.rank)
          /\ stage' = "name"
          /\ UNCHANGED <<file, config, tensorCount, total, loaded>>
     ELSE Reject

\* read_tensor_name, and the lookup in both maps.
NewName(name) == \A i \in 1..Len(loaded) : loaded[i].name # name

ReadName ==
  /\ stage = "name"
  /\ LET name == Ahead(tensor.nameLength) IN
     IF Readable(tensor.nameLength) /\ IsUtf8(name) /\ NewName(name)
     THEN /\ tensor' = [tensor EXCEPT !.name = name]
          /\ Consume(tensor.nameLength)
          /\ stage' = "payload"
          /\ UNCHANGED <<file, config, tensorCount, total, loaded>>
     ELSE Reject

\* read_float32_tensor_values, read_int8_tensor_values.  The elements are those
\* the shape has; Tensor and Int8Tensor are built from them.
PayloadUnits == tensor.elementCount * BytesPerElement(tensor.type)

GoodPayload(values) ==
  tensor.type = INT8 => \A i \in 1..Len(values) : values[i] # MinInt8

ReadPayload ==
  /\ stage = "payload"
  /\ LET values == Ahead(PayloadUnits) IN
     IF Readable(PayloadUnits) /\ GoodPayload(values)
     THEN /\ loaded' = Append(loaded, [name |-> tensor.name, type |-> tensor.type,
                                       shape |-> tensor.shape, payload |-> values])
          /\ tensor' = NoTensor
          /\ Consume(PayloadUnits)
          /\ stage' = "record"
          /\ UNCHANGED <<file, config, tensorCount, total>>
     ELSE Reject

-----------------------------------------------------------------------------
(* The end of the file. *)

AtEndOfTheRecords == TRUE
AtEnd == remaining = 0 /\ Len(file) <= position

\* require_quantization_scale: the scale is looked up among the floats.
HasScaleByName(t, tensors) ==
  \E i \in 1..Len(tensors) :
    tensors[i].name = ScaleOf(t.name) /\ tensors[i].type = FLOAT32
HasScale(t, tensors) ==
  \E i \in 1..Len(tensors) :
    /\ tensors[i].name = ScaleOf(t.name)
    /\ tensors[i].type = FLOAT32
    /\ Len(tensors[i].shape) = 1
    /\ \E axis \in 1..Len(t.shape) : t.shape[axis] = tensors[i].shape[1]

Finish ==
  /\ stage = "record" /\ Len(loaded) = tensorCount
  /\ IF /\ AtEnd
        /\ \A i \in 1..Len(loaded) :
             loaded[i].type = INT8 => HasScale(loaded[i], loaded)
     THEN /\ stage' = "accepted"
          /\ UNCHANGED <<file, position, remaining, config, tensorCount, tensor, total, loaded>>
     ELSE Reject

\* The caller has the checkpoint or the exception.
Ended == stage \in {"accepted", "rejected"} /\ UNCHANGED vars

Load ==
  \/ ReadGlobalHeader
  \/ ReadTensorHeader
  \/ ReadShape
  \/ ReadName
  \/ ReadPayload
  \/ Finish

Init == file \in Files /\ ReaderInit

Next == Open \/ Load \/ Ended

Spec == Init /\ [][Next]_vars

-----------------------------------------------------------------------------
(* Properties. *)

TypeOK ==
  /\ stage \in {"closed", "header", "record", "shape", "name", "payload",
                "accepted", "rejected"}
  /\ position \in Nat /\ remaining \in Nat
  /\ tensorCount \in 0..MaxTensors
  /\ total \in 0..MaxTotalPayload
  /\ Len(loaded) <= tensorCount
  /\ Len(tensor.shape) <= MaxRank /\ Len(tensor.name) <= MaxNameSize

\* The buffers for a record are allocated when it is reached (the shape, the
\* name, the values), and none is larger than what is left of the file: sizes
\* read from a file never make the loader ask for more memory than the file has.
BuffersFitTheFile ==
  /\ stage = "shape" => RestOfRecord(tensor) <= remaining
  /\ stage = "name" => tensor.nameLength + PayloadUnits <= remaining
  /\ stage = "payload" => PayloadUnits <= remaining

\* What a checkpoint may contain: the "Required invariants" of
\* docs/checkpoint-format.md:105, and the loader's limits.
ValidTensor(t) ==
  /\ t.type \in {FLOAT32, INT8}
  /\ Len(t.shape) \in 1..MaxRank
  /\ \A axis \in 1..Len(t.shape) : t.shape[axis] > 0
  /\ Len(t.name) \in 1..MaxNameSize /\ IsUtf8(t.name)
  /\ Len(t.payload) = ElementCount(t.shape) * BytesPerElement(t.type)
  /\ Len(t.payload) <= MaxPayload
  /\ t.type = INT8 => \A i \in 1..Len(t.payload) : t.payload[i] # MinInt8

TotalSize(tensors) == SumFunction([i \in 1..Len(tensors) |-> Len(tensors[i].payload)])

WellFormed(tensors) ==
  /\ Len(tensors) <= MaxTensors
  /\ \A i \in 1..Len(tensors) : ValidTensor(tensors[i])
  /\ \A i, j \in 1..Len(tensors) : i # j => tensors[i].name # tensors[j].name
  /\ \A i \in 1..Len(tensors) : tensors[i].type = INT8 =>
       \E j \in 1..Len(tensors) :
         /\ tensors[j].name = ScaleOf(tensors[i].name)
         /\ tensors[j].type = FLOAT32 /\ Len(tensors[j].shape) = 1
         /\ tensors[j].shape[1] \in {tensors[i].shape[a] : a \in 1..Len(tensors[i].shape)}

Valid(tensors) == WellFormed(tensors) /\ TotalSize(tensors) <= MaxTotalPayload

\* A file that is accepted is, unit for unit, what the writer writes for the
\* tensors it was read as, and these are a checkpoint.
AcceptedIsWhole ==
  stage = "accepted" => file = Bytes(config, loaded) /\ Valid(loaded)

\* And nothing that is a checkpoint is rejected, the largest one included.
ValidFiles == {Bytes(c, tensors) : c \in Configs, tensors \in {l \in TensorLists : Valid(l)}}

RejectedIsNoCheckpoint == stage = "rejected" => file \notin ValidFiles

\* The two together: load_checkpoint decides what a checkpoint is, with all of its checks
\* in whatever order, as the writer and the documentation do.
AcceptsExactlyCheckpoints == AcceptedIsWhole /\ RejectedIsNoCheckpoint

\* "<name>.quant_scale is always FP32 regardless of what <name> is"
\* (docs/checkpoint-format.md:102).
ScalesAreFloats ==
  stage = "accepted" =>
    \A i \in 1..Len(loaded) :
      LET name == loaded[i].name
          n == Len(name) - Len(ScaleSuffix)
      IN n > 0 /\ SubSeq(name, n + 1, Len(name)) = ScaleSuffix
           => loaded[i].type = FLOAT32
=============================================================================
