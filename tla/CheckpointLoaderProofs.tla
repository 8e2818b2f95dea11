----------------------- MODULE CheckpointLoaderProofs -----------------------
(***************************************************************************)
(* What the loader can rely on whatever is in the file and whatever        *)
(* another process makes of it, and which files it accepts.                *)
(*                                                                         *)
(* 1. IInv does not mention the contents of the file: every check is made  *)
(*    on the units that were read, and every size on remaining, which      *)
(*    comes from the size at opening.                                      *)
(* 2. WholeInv: what was read so far, written again, is the beginning of   *)
(*    the file.  At the end it is the file: nothing but what the writer    *)
(*    writes is accepted.                                                  *)
(* 3. Follows: a file that begins like what the writer writes for some     *)
(*    tensors is read as these tensors, and if it is all of it and they    *)
(*    are a checkpoint no check fails.  This needs no more of the file     *)
(*    than its beginning, so it also holds while the writer is at work.    *)
(***************************************************************************)
EXTENDS CheckpointFile, DataLemmas

\* Another process changes the file.
Rewrite == file' \in Seq(Nat) /\ UNCHANGED reader

SharedFileSpec == Init /\ [][Next \/ Rewrite]_vars

-----------------------------------------------------------------------------
(* The inductive invariant. *)

Headers == [nameLength : Nat, type : Nat, rank : Nat, flags : Nat,
            elementCount : Nat, payloadSize : Nat,
            shape : Seq(Nat), name : Seq(Nat)]

Tensors == [name : Seq(Nat), type : Nat, shape : Seq(Nat), payload : Seq(Nat)]

Locals ==
  /\ file \in Seq(Nat)
  /\ stage \in {"closed", "header", "record", "shape", "name", "payload",
                "accepted", "rejected"}
  /\ position \in Nat /\ remaining \in Nat
  /\ tensorCount \in 0..MaxTensors
  /\ total \in 0..MaxTotalPayload
  /\ tensor \in Headers
  /\ loaded \in Seq(Tensors) /\ Len(loaded) <= tensorCount

InRecord == stage \in {"shape", "name", "payload"}

Started == stage \in {"closed", "header"} => loaded = <<>>

\* What the part of the record that was read makes sure of.
HeaderRead ==
  InRecord =>
    /\ Len(loaded) < tensorCount
    /\ tensor.type \in {FLOAT32, INT8}
    /\ tensor.rank \in 1..MaxRank
    /\ tensor.nameLength \in 1..MaxNameSize
    /\ tensor.payloadSize <= MaxPayload

ShapeRead ==
  stage \in {"name", "payload"} =>
    /\ Len(tensor.shape) = tensor.rank
    /\ \A axis \in 1..Len(tensor.shape) : tensor.shape[axis] > 0
    /\ tensor.elementCount = ElementCount(tensor.shape)
    /\ tensor.payloadSize = PayloadUnits

NameRead ==
  stage = "payload" =>
    /\ Len(tensor.name) = tensor.nameLength
    /\ IsUtf8(tensor.name)
    /\ NewName(tensor.name)

\* Shape and name are no longer than the header said.
PartsBounded == Len(tensor.shape) <= MaxRank /\ Len(tensor.name) <= MaxNameSize

Loaded ==
  /\ \A i \in 1..Len(loaded) : ValidTensor(loaded[i])
  /\ \A i, j \in 1..Len(loaded) : i # j => loaded[i].name # loaded[j].name

Accepted ==
  stage = "accepted" =>
    \A i \in 1..Len(loaded) : loaded[i].type = INT8 => HasScale(loaded[i], loaded)

IInv ==
  /\ Locals /\ Started /\ HeaderRead /\ ShapeRead /\ NameRead /\ PartsBounded
  /\ Loaded /\ Accepted /\ BuffersFitTheFile

-----------------------------------------------------------------------------
(* What a read returns. *)

\* Ahead of the position there are n units, if n can be read.
LEMMA AheadUnits ==
  ASSUME Locals
  PROVE  \A n \in Nat : Readable(n) =>
           /\ Ahead(n) \in Seq(Nat) /\ Len(Ahead(n)) = n
           /\ \A i \in 1..n : Ahead(n)[i] \in Nat
<1> SUFFICES ASSUME NEW n \in Nat, Readable(n)
             PROVE  /\ Ahead(n) \in Seq(Nat) /\ Len(Ahead(n)) = n
                    /\ \A i \in 1..n : Ahead(n)[i] \in Nat
  OBVIOUS
<1>1. position \in Nat /\ file \in Seq(Nat) /\ position + n <= Len(file)
  BY DEF Locals, Readable
<1>2. \A i \in (position + 1)..(position + n) : file[i] \in Nat
  BY <1>1, ElementOfSeq
<1>3. /\ SubSeq(file, position + 1, position + n) \in Seq(Nat)
      /\ Len(SubSeq(file, position + 1, position + n))
           = IF position + 1 <= position + n
             THEN (position + n) - (position + 1) + 1 ELSE 0
      /\ \A i \in 1..((position + n) - (position + 1) + 1) :
           SubSeq(file, position + 1, position + n)[i] = file[(position + 1) + i - 1]
  BY <1>1, <1>2, SubSeqProperties
<1>4. Ahead(n) \in Seq(Nat) /\ Len(Ahead(n)) = n
  BY <1>1, <1>3 DEF Ahead
<1>5. \A i \in 1..Len(Ahead(n)) : Ahead(n)[i] \in Nat
  BY <1>4, ElementOfSeq
<1> QED BY <1>4, <1>5

LEMMA FilesAreNat == Files \subseteq Seq(Nat)
<1>1. 0..MaxWord \subseteq Nat
  BY FormatAssumption DEF FormatAssumption
<1>2. \A s \in Seq(0..MaxWord) : s \in Seq(Nat)
  BY <1>1, SeqMonotonic
<1> QED BY <1>2, LimitsAssumption DEF LimitsAssumption

LEMMA SizesType ==
  /\ TensorHeaderSize \in Nat /\ GlobalHeaderSize \in Nat
  /\ \A type : BytesPerElement(type) \in Nat \ {0}
  /\ {MaxTensors, MaxRank, MaxNameSize, MaxPayload, MaxTotalPayload} \subseteq Nat
  /\ MaxPayload <= MaxTotalPayload
BY FormatAssumption, LimitsAssumption
   DEF FormatAssumption, LimitsAssumption, TensorHeaderSize, GlobalHeaderSize,
       BytesPerElement

-----------------------------------------------------------------------------
(* The invariant is inductive. *)

LEMMA ReaderInitInv == file \in Seq(Nat) /\ ReaderInit => IInv
<1> SUFFICES ASSUME file \in Seq(Nat), ReaderInit PROVE IInv
  OBVIOUS
<1>1. Locals
  <2>1. NoTensor \in Headers
    BY DEF NoTensor, Headers
  <2>2. <<>> \in Seq(Tensors) /\ Len(<<>>) = 0
    OBVIOUS
  <2> QED BY <2>1, <2>2, SizesType DEF ReaderInit, Locals
<1>2. PartsBounded
  BY SizesType DEF ReaderInit, PartsBounded, NoTensor
<1> QED
  BY <1>1, <1>2 DEF ReaderInit, IInv, Started, HeaderRead, InRecord, ShapeRead, NameRead,
     Loaded, Accepted, BuffersFitTheFile

LEMMA InitInv == Init => IInv
BY FilesAreNat, ReaderInitInv DEF Init

\* Nothing but the stage changes on a rejection, and in the stage "rejected"
\* the invariant only asks for the locals and what was loaded.
LEMMA RejectInv == IInv /\ Reject => IInv'
BY DEF IInv, Reject, Locals, Started, HeaderRead, InRecord, ShapeRead, NameRead, PartsBounded,
   Loaded, Accepted, BuffersFitTheFile, ValidTensor

LEMMA OpenInv == IInv /\ Open => IInv'
<1> SUFFICES ASSUME IInv, Open PROVE IInv'
  OBVIOUS
<1>1. Locals'
  <2>1. Len(file) \in Nat
    BY LenProperties DEF IInv, Locals
  <2> QED BY <2>1 DEF IInv, Locals, Open
<1> QED
  BY <1>1 DEF IInv, Open, Started, HeaderRead, InRecord, ShapeRead, NameRead, PartsBounded,
     Loaded, Accepted, BuffersFitTheFile, ValidTensor

LEMMA ConsumeType ==
  \A n \in Nat : Locals /\ Readable(n) /\ Consume(n)
    => position' \in Nat /\ remaining' \in Nat /\ remaining' = remaining - n
BY DEF Locals, Readable, Consume

LEMMA PayloadType == Locals => PayloadUnits \in Nat
<1> SUFFICES ASSUME Locals PROVE PayloadUnits \in Nat
  OBVIOUS
<1>1. tensor.elementCount \in Nat /\ BytesPerElement(tensor.type) \in Nat
  BY SizesType DEF Locals, Headers
<1>2. \A m, n \in Nat : m * n \in Nat
  OBVIOUS
<1> QED BY <1>1, <1>2 DEF PayloadUnits

LEMMA GlobalHeaderInv == IInv /\ ReadGlobalHeader => IInv'
<1> SUFFICES ASSUME IInv, ReadGlobalHeader PROVE IInv'
  OBVIOUS
<1>1. CASE Reject
  BY <1>1, RejectInv
<1>2. CASE ~Reject
  <2>1. /\ Readable(GlobalHeaderSize) /\ CountFits(Ahead(GlobalHeaderSize)[2])
        /\ tensorCount' = Ahead(GlobalHeaderSize)[2]
        /\ Consume(GlobalHeaderSize)
        /\ stage = "header" /\ stage' = "record"
        /\ UNCHANGED <<file, tensor, total, loaded>>
    BY <1>2 DEF ReadGlobalHeader, GoodGlobalHeader
  <2>2. tensorCount' \in 0..MaxTensors
    <3>1. Ahead(GlobalHeaderSize)[2] \in Nat
      BY <2>1, AheadUnits DEF IInv, GlobalHeaderSize
    <3>2. Ahead(GlobalHeaderSize)[2] <= MaxTensors
      BY <2>1 DEF CountFits
    <3>3. Ahead(GlobalHeaderSize)[2] \in Nat /\ MaxTensors \in Nat
      BY <3>1, SizesType
    <3> QED BY <2>1, <3>2, <3>3
  <2>3. loaded = <<>>
    BY <2>1 DEF IInv, Started
  <2>4. Locals'
    BY <2>1, <2>2, <2>3, ConsumeType, SizesType DEF IInv, Locals
  <2> QED
    BY <2>1, <2>4 DEF IInv, Started, HeaderRead, InRecord, ShapeRead, NameRead,
       PartsBounded, Loaded, Accepted, BuffersFitTheFile, ValidTensor
<1> QED BY <1>1, <1>2

LEMMA TensorHeaderInv == IInv /\ ReadTensorHeader => IInv'
<1> SUFFICES ASSUME IInv, ReadTensorHeader PROVE IInv'
  OBVIOUS
<1>1. CASE Reject
  BY <1>1, RejectInv
<1>2. CASE ~Reject
  <2> DEFINE h == Header(Ahead(TensorHeaderSize))
  <2>1. /\ Readable(TensorHeaderSize) /\ GoodTensorHeader(h)
        /\ tensor' = h
        /\ total' = total + h.payloadSize
        /\ Consume(TensorHeaderSize)
        /\ stage = "record" /\ stage' = "shape"
        /\ Len(loaded) < tensorCount
        /\ UNCHANGED <<file, config, tensorCount, loaded>>
    BY <1>2 DEF ReadTensorHeader
  <2>2. \A i \in 1..6 : Ahead(TensorHeaderSize)[i] \in Nat
    BY <2>1, AheadUnits DEF IInv, TensorHeaderSize
  <2>3. h \in Headers /\ h.shape = <<>> /\ h.name = <<>>
    <3>1. <<>> \in Seq(Nat)
      OBVIOUS
    <3> QED BY <2>2, <3>1 DEF Header, Headers
  <2> HIDE DEF h
  <2>4. /\ h.type \in {FLOAT32, INT8} /\ h.rank \in 1..MaxRank
        /\ h.nameLength \in 1..MaxNameSize /\ h.payloadSize <= MaxPayload
        /\ RestOfRecord(h) <= remaining - TensorHeaderSize
        /\ total <= MaxTotalPayload - h.payloadSize
        /\ h.payloadSize \in Nat
    BY <2>1, <2>3 DEF GoodTensorHeader, TotalAllows, Headers
  <2>5. total' \in 0..MaxTotalPayload
    <3>1. total \in Nat /\ MaxTotalPayload \in Nat
      BY SizesType DEF IInv, Locals
    <3> QED BY <2>1, <2>4, <3>1
  <2>6. Locals'
    BY <2>1, <2>3, <2>5, ConsumeType, SizesType DEF IInv, Locals
  <2>7. HeaderRead' /\ PartsBounded'
    BY <2>1, <2>3, <2>4, SizesType DEF HeaderRead, InRecord, PartsBounded
  <2>8. BuffersFitTheFile'
    <3>1. RestOfRecord(tensor)' = RestOfRecord(h)
      BY <2>1 DEF RestOfRecord
    <3>2. remaining' = remaining - TensorHeaderSize
      BY <2>1 DEF Consume
    <3> QED BY <2>1, <2>4, <3>1, <3>2 DEF BuffersFitTheFile
  <2> QED
    BY <2>1, <2>6, <2>7, <2>8 DEF IInv, Started, ShapeRead, NameRead, Loaded, Accepted,
       ValidTensor
<1> QED BY <1>1, <1>2

LEMMA ShapeInv == IInv /\ ReadShape => IInv'
<1> SUFFICES ASSUME IInv, ReadShape PROVE IInv'
  OBVIOUS
<1>1. CASE Reject
  BY <1>1, RejectInv
<1>2. CASE ~Reject
  <2> DEFINE shape == Ahead(tensor.rank)
  <2>1. /\ Readable(tensor.rank) /\ ShapeMatches(shape)
        /\ tensor' = [tensor EXCEPT !.shape = shape]
        /\ Consume(tensor.rank)
        /\ stage = "shape" /\ stage' = "name"
        /\ UNCHANGED <<file, config, tensorCount, total, loaded>>
    BY <1>2 DEF ReadShape
  <2>2. tensor \in Headers /\ tensor.rank \in Nat
    BY DEF IInv, Locals, Headers
  <2>3. shape \in Seq(Nat) /\ Len(shape) = tensor.rank
    BY <2>1, <2>2, AheadUnits DEF IInv
  <2> HIDE DEF shape
  <2>4. /\ tensor' \in Headers /\ tensor'.shape = shape
        /\ tensor'.rank = tensor.rank /\ tensor'.type = tensor.type
        /\ tensor'.nameLength = tensor.nameLength /\ tensor'.name = tensor.name
        /\ tensor'.payloadSize = tensor.payloadSize
        /\ tensor'.elementCount = tensor.elementCount
    BY <2>1, <2>2, <2>3 DEF Headers
  <2>5. /\ \A axis \in 1..Len(shape) : shape[axis] # 0
        /\ ElementCount(shape) = tensor.elementCount
        /\ tensor.payloadSize = tensor.elementCount * BytesPerElement(tensor.type)
    BY <2>1 DEF ShapeMatches
  <2>6. Locals'
    BY <2>1, <2>2, <2>4, ConsumeType DEF IInv, Locals
  <2>7. HeaderRead' /\ PartsBounded'
    BY <2>1, <2>3, <2>4, SizesType DEF IInv, HeaderRead, InRecord, PartsBounded
  <2>8. PayloadUnits' = tensor.payloadSize
    BY <2>4, <2>5 DEF PayloadUnits, BytesPerElement
  <2>9. ShapeRead'
    <3>1. \A axis \in 1..Len(shape) : shape[axis] > 0
      <4>1. \A axis \in 1..Len(shape) : shape[axis] \in Nat
        BY <2>3, ElementOfSeq
      <4> QED BY <2>5, <4>1
    <3>2. ElementCount(tensor'.shape) = tensor'.elementCount
      BY <2>4, <2>5
    <3> QED BY <2>3, <2>4, <2>8, <3>1, <3>2 DEF ShapeRead
  <2>10. BuffersFitTheFile'
    <3>1. RestOfRecord(tensor) <= remaining
      BY <2>1 DEF IInv, BuffersFitTheFile
    <3>2. /\ tensor.nameLength \in Nat /\ tensor.payloadSize \in Nat
          /\ remaining \in Nat /\ remaining' = remaining - tensor.rank
      BY <2>1, <2>2 DEF IInv, Locals, Headers, Consume
    <3>3. tensor'.nameLength + PayloadUnits' <= remaining'
      BY <2>2, <2>4, <2>8, <3>1, <3>2 DEF RestOfRecord
    <3> QED BY <2>1, <3>3 DEF BuffersFitTheFile
  <2> QED
    BY <2>1, <2>6, <2>7, <2>9, <2>10 DEF IInv, Started, NameRead, Loaded, Accepted,
       ValidTensor
<1> QED BY <1>1, <1>2

LEMMA NameInv == IInv /\ ReadName => IInv'
<1> SUFFICES ASSUME IInv, ReadName PROVE IInv'
  OBVIOUS
<1>1. CASE Reject
  BY <1>1, RejectInv
<1>2. CASE ~Reject
  <2> DEFINE name == Ahead(tensor.nameLength)
  <2>1. /\ Readable(tensor.nameLength) /\ IsUtf8(name) /\ NewName(name)
        /\ tensor' = [tensor EXCEPT !.name = name]
        /\ Consume(tensor.nameLength)
        /\ stage = "name" /\ stage' = "payload"
        /\ UNCHANGED <<file, config, tensorCount, total, loaded>>
    BY <1>2 DEF ReadName
  <2>2. tensor \in Headers /\ tensor.nameLength \in Nat
    BY DEF IInv, Locals, Headers
  <2>3. name \in Seq(Nat) /\ Len(name) = tensor.nameLength
    BY <2>1, <2>2, AheadUnits DEF IInv
  <2> HIDE DEF name
  <2>4. /\ tensor' \in Headers /\ tensor'.name = name
        /\ tensor'.rank = tensor.rank /\ tensor'.type = tensor.type
        /\ tensor'.nameLength = tensor.nameLength /\ tensor'.shape = tensor.shape
        /\ tensor'.payloadSize = tensor.payloadSize
        /\ tensor'.elementCount = tensor.elementCount
    BY <2>1, <2>2, <2>3 DEF Headers
  <2>5. Locals'
    BY <2>1, <2>2, <2>4, ConsumeType DEF IInv, Locals
  <2>6. HeaderRead' /\ PartsBounded'
    BY <2>1, <2>3, <2>4, SizesType DEF IInv, HeaderRead, InRecord, PartsBounded
  <2>7. PayloadUnits' = PayloadUnits
    BY <2>4 DEF PayloadUnits, BytesPerElement
  <2>8. ShapeRead'
    <3>1. /\ Len(tensor.shape) = tensor.rank
          /\ \A axis \in 1..Len(tensor.shape) : tensor.shape[axis] > 0
          /\ tensor.elementCount = ElementCount(tensor.shape)
          /\ tensor.payloadSize = PayloadUnits
      BY <2>1 DEF IInv, ShapeRead
    <3>2. tensor'.elementCount = ElementCount(tensor'.shape)
      BY <2>4, <3>1
    <3> QED BY <2>4, <2>7, <3>1, <3>2 DEF ShapeRead
  <2>9. NameRead'
    <3>1. \A i \in 1..Len(loaded') : loaded'[i].name # tensor'.name
      BY <2>1, <2>4 DEF NewName
    <3>2. IsUtf8(tensor'.name) /\ Len(tensor'.name) = tensor'.nameLength
      BY <2>1, <2>3, <2>4
    <3> QED BY <3>1, <3>2 DEF NameRead, NewName
  <2>10. BuffersFitTheFile'
    <3>1. tensor.nameLength + PayloadUnits <= remaining
      BY <2>1 DEF IInv, BuffersFitTheFile
    <3>2. remaining \in Nat /\ remaining' = remaining - tensor.nameLength
      BY <2>1 DEF IInv, Locals, Consume
    <3>3. PayloadUnits \in Nat
      BY PayloadType DEF IInv
    <3>4. PayloadUnits <= remaining'
      BY <2>2, <3>1, <3>2, <3>3
    <3> QED BY <2>1, <2>7, <3>4 DEF BuffersFitTheFile
  <2> QED
    BY <2>1, <2>5, <2>6, <2>8, <2>9, <2>10 DEF IInv, Started, Loaded, Accepted,
       ValidTensor
<1> QED BY <1>1, <1>2

LEMMA PayloadInv == IInv /\ ReadPayload => IInv'
<1> SUFFICES ASSUME IInv, ReadPayload PROVE IInv'
  OBVIOUS
<1>1. CASE Reject
  BY <1>1, RejectInv
<1>2. CASE ~Reject
  <2> DEFINE values == Ahead(PayloadUnits)
             new == [name |-> tensor.name, type |-> tensor.type,
                     shape |-> tensor.shape, payload |-> values]
  <2>1. /\ Readable(PayloadUnits) /\ GoodPayload(values)
        /\ loaded' = Append(loaded, new)
        /\ tensor' = NoTensor
        /\ Consume(PayloadUnits)
        /\ stage = "payload" /\ stage' = "record"
        /\ UNCHANGED <<file, config, tensorCount, total>>
    BY <1>2 DEF ReadPayload
  <2>2. PayloadUnits \in Nat
    BY PayloadType DEF IInv
  <2>3. values \in Seq(Nat) /\ Len(values) = PayloadUnits
    BY <2>1, <2>2, AheadUnits DEF IInv
  <2> HIDE DEF values
  <2>4. tensor \in Headers /\ NoTensor \in Headers
    <3>1. <<>> \in Seq(Nat)
      OBVIOUS
    <3> QED BY <3>1 DEF IInv, Locals, NoTensor, Headers
  <2>5. /\ tensor.type \in {FLOAT32, INT8} /\ tensor.rank \in 1..MaxRank
        /\ tensor.nameLength \in 1..MaxNameSize /\ tensor.payloadSize <= MaxPayload
        /\ Len(loaded) < tensorCount
        /\ Len(tensor.shape) = tensor.rank
        /\ \A axis \in 1..Len(tensor.shape) : tensor.shape[axis] > 0
        /\ tensor.elementCount = ElementCount(tensor.shape)
        /\ tensor.payloadSize = PayloadUnits
        /\ Len(tensor.name) = tensor.nameLength
        /\ IsUtf8(tensor.name) /\ NewName(tensor.name)
    BY <2>1 DEF IInv, HeaderRead, InRecord, ShapeRead, NameRead
  <2>6. ValidTensor(new)
    <3>1. PayloadUnits = ElementCount(tensor.shape) * BytesPerElement(tensor.type)
      BY <2>5 DEF PayloadUnits
    <3>2. tensor.type = INT8 => \A i \in 1..Len(values) : values[i] # MinInt8
      BY <2>1 DEF GoodPayload
    <3> QED BY <2>3, <2>5, <3>1, <3>2 DEF ValidTensor
  <2>7. /\ new \in Tensors /\ new.name = tensor.name
    BY <2>3, <2>4 DEF Tensors, Headers
  <2> HIDE DEF new
  <2>8. /\ loaded \in Seq(Tensors) /\ Len(loaded) \in Nat
        /\ loaded' \in Seq(Tensors) /\ Len(loaded') = Len(loaded) + 1
        /\ \A i \in 1..Len(loaded) : loaded'[i] = loaded[i]
        /\ loaded'[Len(loaded) + 1] = new
    BY <2>1, <2>7, AppendProperties, LenProperties DEF IInv, Locals
  <2>9. Locals'
    <3>1. tensorCount \in Nat
      BY SizesType DEF IInv, Locals
    <3>2. Len(loaded') <= tensorCount
      BY <2>5, <2>8, <3>1
    <3> QED BY <2>1, <2>2, <2>4, <2>8, <3>2, ConsumeType DEF IInv, Locals
  <2>10. Loaded'
    <3>1. \A i \in 1..Len(loaded') :
            \/ i \in 1..Len(loaded) /\ loaded'[i] = loaded[i]
            \/ i = Len(loaded) + 1 /\ loaded'[i] = new
      BY <2>8
    <3>2. \A i \in 1..Len(loaded') : ValidTensor(loaded'[i])
      BY <2>6, <3>1 DEF IInv, Loaded
    <3>3. \A i, j \in 1..Len(loaded') : i # j => loaded'[i].name # loaded'[j].name
      <4>1. \A i \in 1..Len(loaded) : loaded[i].name # new.name
        BY <2>5, <2>7 DEF NewName
      <4> QED BY <3>1, <4>1 DEF IInv, Loaded
    <3>4. (\A i \in 1..Len(loaded) : ValidTensor(loaded[i]))'
      BY <3>2 DEF ValidTensor
    <3> QED BY <3>3, <3>4 DEF Loaded
  <2>11. PartsBounded'
    BY <2>1, SizesType DEF PartsBounded, NoTensor
  <2> QED
    BY <2>1, <2>9, <2>10, <2>11 DEF IInv, Started, HeaderRead, InRecord, ShapeRead,
       NameRead, Accepted, BuffersFitTheFile
<1> QED BY <1>1, <1>2

LEMMA FinishInv == IInv /\ Finish => IInv'
<1> SUFFICES ASSUME IInv, Finish PROVE IInv'
  OBVIOUS
<1>1. CASE Reject
  BY <1>1, RejectInv
<1>2. CASE ~Reject
  <2>1. /\ \A i \in 1..Len(loaded) : loaded[i].type = INT8 => HasScale(loaded[i], loaded)
        /\ stage' = "accepted"
        /\ UNCHANGED <<file, position, remaining, config, tensorCount, tensor, total, loaded>>
    BY <1>2 DEF Finish
  <2>2. Accepted'
    BY <2>1 DEF Accepted, HasScale
  <2> QED
    BY <2>1, <2>2 DEF IInv, Locals, Started, HeaderRead, InRecord, ShapeRead, NameRead,
       PartsBounded, Loaded, ValidTensor, BuffersFitTheFile
<1> QED BY <1>1, <1>2

\* No part of the invariant is about what is in the file.
LEMMA ReaderUnchangedInv ==
  ASSUME IInv, file' \in Seq(Nat), UNCHANGED reader
  PROVE  IInv'
<1>1. UNCHANGED <<stage, position, remaining, config, tensorCount, tensor, total, loaded>>
  BY DEF reader
<1>2. Locals' /\ Started' /\ HeaderRead' /\ PartsBounded'
  BY <1>1 DEF IInv, Locals, Started, HeaderRead, InRecord, PartsBounded
<1>3. ShapeRead' /\ NameRead'
  BY <1>1 DEF IInv, ShapeRead, NameRead, NewName, PayloadUnits
<1>4. Loaded'
  BY <1>1 DEF IInv, Loaded
<1>5. Accepted'
  BY <1>1 DEF IInv, Accepted
<1>6. BuffersFitTheFile'
  BY <1>1 DEF IInv, BuffersFitTheFile, RestOfRecord, PayloadUnits
<1> QED BY <1>2, <1>3, <1>4, <1>5, <1>6 DEF IInv

LEMMA NextInv == IInv /\ [Next \/ Rewrite]_vars => IInv'
<1> SUFFICES ASSUME IInv, [Next \/ Rewrite]_vars PROVE IInv'
  OBVIOUS
<1>1. CASE Open
  BY <1>1, OpenInv
<1>2. CASE ReadGlobalHeader
  BY <1>2, GlobalHeaderInv
<1>3. CASE ReadTensorHeader
  BY <1>3, TensorHeaderInv
<1>4. CASE ReadShape
  BY <1>4, ShapeInv
<1>5. CASE ReadName
  BY <1>5, NameInv
<1>6. CASE ReadPayload
  BY <1>6, PayloadInv
<1>7. CASE Finish
  BY <1>7, FinishInv
<1>8. CASE UNCHANGED vars
  <2>1. file' \in Seq(Nat) /\ UNCHANGED reader
    BY <1>8 DEF vars, IInv, Locals
  <2> QED BY <2>1, ReaderUnchangedInv
<1>9. CASE Rewrite
  BY <1>9, ReaderUnchangedInv DEF Rewrite
<1> QED
  BY <1>1, <1>2, <1>3, <1>4, <1>5, <1>6, <1>7, <1>8, <1>9 DEF Next, Load, Ended

-----------------------------------------------------------------------------
(* The theorems. *)

\* Each part of a record keeps the promises the next parts rely on, also while
\* the file is being changed.
THEOREM InductiveInvariant == SharedFileSpec => []IInv
BY InitInv, NextInv, PTL DEF SharedFileSpec

\* A reader that has its file to itself is a special case.
LEMMA OwnFile == Spec => SharedFileSpec
<1>1. [Next]_vars => [Next \/ Rewrite]_vars
  OBVIOUS
<1> QED BY <1>1, PTL DEF Spec, SharedFileSpec

\* Whatever the sizes in a file, the buffers made for them fit what was left of
\* it when it was opened.
THEOREM BuffersAlwaysFit == SharedFileSpec => []BuffersFitTheFile
<1>1. IInv => BuffersFitTheFile
  BY DEF IInv
<1> QED BY <1>1, InductiveInvariant, PTL

\* The loader's counters keep their types and limits.
THEOREM TypeCorrect == Spec => []TypeOK
<1>1. IInv => TypeOK
  BY DEF IInv, Locals, PartsBounded, TypeOK
<1> QED BY <1>1, OwnFile, InductiveInvariant, PTL

LEMMA WellFormedIfAccepted == IInv /\ stage = "accepted" => WellFormed(loaded)
<1> SUFFICES ASSUME IInv, stage = "accepted" PROVE WellFormed(loaded)
  OBVIOUS
<1>1. Len(loaded) <= MaxTensors
  <2>1. Len(loaded) <= tensorCount /\ tensorCount \in 0..MaxTensors /\ Len(loaded) \in Nat
    BY LenProperties DEF IInv, Locals
  <2> QED BY <2>1, SizesType
<1>2. \A i \in 1..Len(loaded) : loaded[i].type = INT8 =>
        \E j \in 1..Len(loaded) :
          /\ loaded[j].name = ScaleOf(loaded[i].name)
          /\ loaded[j].type = FLOAT32 /\ Len(loaded[j].shape) = 1
          /\ loaded[j].shape[1] \in {loaded[i].shape[a] : a \in 1..Len(loaded[i].shape)}
  BY DEF IInv, Accepted, HasScale
<1> QED BY <1>1, <1>2 DEF IInv, Loaded, WellFormed

\* What is returned is well formed, even if the file changed while it was read.
THEOREM AcceptedAlwaysWellFormed ==
  SharedFileSpec => [](stage = "accepted" => WellFormed(loaded))
<1>1. IInv => (stage = "accepted" => WellFormed(loaded))
  BY WellFormedIfAccepted
<1> QED BY <1>1, InductiveInvariant, PTL

-----------------------------------------------------------------------------
(* Element counts and payloads. *)

\* The number of elements of a shape without a zero.
LEMMA ElementCountPositive ==
  ASSUME NEW shape \in Seq(Nat), \A axis \in 1..Len(shape) : shape[axis] > 0
  PROVE  ElementCount(shape) \in Nat \ {0}
<1>1. ElementCount(shape) = ProductOn(shape, DOMAIN shape)
  BY DEF ElementCount, FoldLeft, MapThenFoldSet, ProductOn, IsProduct
<1>2. DOMAIN shape = 1..Len(shape) /\ Len(shape) \in Nat
  BY LenProperties
<1>3. IsFiniteSet(1..Len(shape)) /\ 1..Len(shape) \in SUBSET Nat
  BY <1>2, FS_Interval
<1>4. \A axis \in 1..Len(shape) : shape[axis] \in Nat \ {0}
  <2>1. \A axis \in 1..Len(shape) : shape[axis] \in Nat
    BY ElementOfSeq
  <2> QED BY <2>1
<1>5. ProductOn(shape, 1..Len(shape)) \in Nat \ {0}
  BY <1>3, <1>4, ProductPositive
<1> QED BY <1>1, <1>2, <1>5

PayloadSizes(tensors) == [i \in 1..Len(tensors) |-> Len(tensors[i].payload)]

LEMMA PayloadSizesType ==
  ASSUME NEW tensors \in Seq(Tensors)
  PROVE  /\ Len(tensors) \in Nat
         /\ \A i \in 1..Len(tensors) :
              /\ PayloadSizes(tensors)[i] = Len(tensors[i].payload)
              /\ PayloadSizes(tensors)[i] \in Nat
         /\ TotalSize(tensors) = SumFunctionOnSet(PayloadSizes(tensors), 1..Len(tensors))
<1>1. Len(tensors) \in Nat
  BY LenProperties
<1>2. \A i \in 1..Len(tensors) : Len(tensors[i].payload) \in Nat
  <2> TAKE i \in 1..Len(tensors)
  <2>1. tensors[i] \in Tensors
    BY ElementOfSeq
  <2>2. tensors[i].payload \in Seq(Nat)
    BY <2>1 DEF Tensors
  <2> QED BY <2>2, LenProperties
<1>3. TotalSize(tensors) = SumFunctionOnSet(PayloadSizes(tensors), 1..Len(tensors))
  BY DEF TotalSize, SumFunction, PayloadSizes
<1> QED BY <1>1, <1>2, <1>3 DEF PayloadSizes

LEMMA TotalOfNone == TotalSize(<<>>) = 0
<1>1. <<>> \in Seq(Tensors) /\ 1..Len(<<>>) = {}
  OBVIOUS
<1> QED BY <1>1, PayloadSizesType, SumOfNone

\* The total of a prefix is the sum over its places.
LEMMA TotalOfPrefix ==
  ASSUME NEW tensors \in Seq(Tensors), NEW short \in Seq(Tensors), Len(short) <= Len(tensors),
         \A i \in 1..Len(short) : short[i] = tensors[i]
  PROVE  TotalSize(short) = SumFunctionOnSet(PayloadSizes(tensors), 1..Len(short))
<1> DEFINE n == Len(short)
<1>1. n \in Nat /\ Len(tensors) \in Nat
  BY LenProperties
<1>2. \A i \in 1..n : /\ PayloadSizes(short)[i] \in Nat
                      /\ PayloadSizes(short)[i] = PayloadSizes(tensors)[i]
  <2> TAKE i \in 1..n
  <2>1. i \in 1..Len(tensors) /\ short[i] = tensors[i]
    BY <1>1
  <2>2. PayloadSizes(short)[i] = Len(short[i].payload) /\ PayloadSizes(short)[i] \in Nat
    BY PayloadSizesType
  <2>3. PayloadSizes(tensors)[i] = Len(tensors[i].payload)
    BY <2>1, PayloadSizesType
  <2> QED BY <2>1, <2>2, <2>3
<1>3. TotalSize(short) = SumFunctionOnSet(PayloadSizes(short), 1..n)
  BY PayloadSizesType
<1> HIDE DEF n
<1>4. IsFiniteSet(1..n)
  BY <1>1, FS_Interval
<1>5. SumFunctionOnSet(PayloadSizes(short), 1..n) = SumFunctionOnSet(PayloadSizes(tensors), 1..n)
  BY <1>2, <1>4, SumOfEqual
<1> QED BY <1>3, <1>5 DEF n

LEMMA TotalOfAppend ==
  ASSUME NEW tensors \in Seq(Tensors), NEW t \in Tensors
  PROVE  /\ TotalSize(Append(tensors, t)) = TotalSize(tensors) + Len(t.payload)
         /\ TotalSize(tensors) \in Nat /\ Len(t.payload) \in Nat
<1> DEFINE longer == Append(tensors, t)
           n == Len(tensors)
           f == PayloadSizes(longer)
<1>1. /\ longer \in Seq(Tensors) /\ Len(longer) = n + 1 /\ n \in Nat
      /\ longer[n + 1] = t /\ \A i \in 1..n : longer[i] = tensors[i]
  BY AppendProperties, LenProperties
<1> HIDE DEF longer
<1>2. TotalSize(tensors) = SumFunctionOnSet(f, 1..n)
  <2>1. n <= Len(longer)
    BY <1>1
  <2> QED BY <1>1, <2>1, TotalOfPrefix
<1>3. TotalSize(longer) = SumFunctionOnSet(f, 1..(n + 1))
  BY <1>1, PayloadSizesType
<1>4. \A i \in 1..(n + 1) : f[i] \in Nat /\ f[i] = Len(longer[i].payload)
  BY <1>1, PayloadSizesType
<1> HIDE DEF f, n
<1> DEFINE all == 1..(n + 1)
           start == 1..n
<1>5. IsFiniteSet(all) /\ n + 1 \in all /\ all \ {n + 1} = start /\ start \in SUBSET all
  <2>1. n + 1 \in Int /\ 1 \in Int
    BY <1>1
  <2>2. IsFiniteSet(1..(n + 1))
    BY <2>1, FS_Interval
  <2>3. n + 1 \in 1..(n + 1) /\ \A i : i \in 1..(n + 1) /\ i # n + 1 <=> i \in 1..n
    BY <1>1
  <2> QED BY <2>2, <2>3
<1>6. \A i \in all : f[i] \in Nat
  BY <1>4
<1>7. f[n + 1] = Len(t.payload) /\ f[n + 1] \in Nat
  BY <1>1, <1>4, <1>5
<1>10. TotalSize(tensors) = SumFunctionOnSet(f, start) /\ TotalSize(longer) = SumFunctionOnSet(f, all)
  BY <1>2, <1>3
<1> HIDE DEF all, start
<1>8. SumFunctionOnSet(f, all) = f[n + 1] + SumFunctionOnSet(f, start)
  <2>1. all \in SUBSET all
    OBVIOUS
  <2>2. SumFunctionOnSet(f, all) = f[n + 1] + SumFunctionOnSet(f, all \ {n + 1})
    BY <1>5, <1>6, <2>1, SumOfElement
  <2> QED BY <1>5, <2>2, Zenon
<1>9. SumFunctionOnSet(f, start) \in Nat
  BY <1>5, <1>6, SumType
<1> QED BY <1>7, <1>8, <1>9, <1>10 DEF longer

\* What is read in full is no less than a part of it.
LEMMA TotalIsMonotonic ==
  ASSUME NEW tensors \in Seq(Tensors), NEW short \in Seq(Tensors), Len(short) <= Len(tensors),
         \A i \in 1..Len(short) : short[i] = tensors[i]
  PROVE  TotalSize(short) \in Nat /\ TotalSize(short) <= TotalSize(tensors)
<1> DEFINE n == Len(tensors)
           m == Len(short)
           f == PayloadSizes(tensors)
<1>1. n \in Nat /\ m \in Nat /\ m <= n
  BY LenProperties
<1>2. TotalSize(tensors) = SumFunctionOnSet(f, 1..n) /\ \A i \in 1..n : f[i] \in Nat
  BY PayloadSizesType
<1>3. TotalSize(short) = SumFunctionOnSet(f, 1..m)
  BY TotalOfPrefix
<1> HIDE DEF f, n, m
<1> DEFINE all == 1..n
           start == 1..m
           rest == (m + 1)..n
<1>4. /\ IsFiniteSet(all) /\ start \in SUBSET all /\ rest \in SUBSET all
      /\ start \cap rest = {} /\ start \cup rest = all
  <2>1. IsFiniteSet(1..n)
    BY <1>1, FS_Interval
  <2> QED BY <1>1, <2>1
<1>5. \A i \in all : f[i] \in Nat
  BY <1>2
<1>8. TotalSize(short) = SumFunctionOnSet(f, start) /\ TotalSize(tensors) = SumFunctionOnSet(f, all)
  BY <1>2, <1>3
<1> HIDE DEF all, start, rest
<1>6. SumFunctionOnSet(f, all) = SumFunctionOnSet(f, start) + SumFunctionOnSet(f, rest)
  <2>1. SumFunctionOnSet(f, start \cup rest)
          = SumFunctionOnSet(f, start) + SumFunctionOnSet(f, rest)
    BY <1>4, <1>5, SumOfUnion
  <2> QED BY <1>4, <2>1, Zenon
<1>7. SumFunctionOnSet(f, start) \in Nat /\ SumFunctionOnSet(f, rest) \in Nat
  BY <1>4, <1>5, SumType
<1> QED BY <1>6, <1>7, <1>8

-----------------------------------------------------------------------------
(* What is in a file. *)

\* The tensors whose payload has the size their shape says.
Storable ==
  {t \in Tensors : /\ \A axis \in 1..Len(t.shape) : t.shape[axis] > 0
                   /\ Len(t.payload) = ElementCount(t.shape) * BytesPerElement(t.type)}

RecordOf == [t \in Storable |-> RecordBytes(t)]

Text(tensors) == FlattenSeq(Each(RecordOf, tensors))

LEMMA StorableType ==
  ASSUME NEW t \in Storable
  PROVE  /\ t.shape \in Seq(Nat) /\ t.name \in Seq(Nat) /\ t.payload \in Seq(Nat)
         /\ t.type \in Nat /\ Len(t.shape) \in Nat /\ Len(t.name) \in Nat
         /\ ElementCount(t.shape) \in Nat \ {0} /\ Len(t.payload) \in Nat \ {0}
<1>1. /\ t.shape \in Seq(Nat) /\ t.name \in Seq(Nat) /\ t.payload \in Seq(Nat) /\ t.type \in Nat
      /\ \A axis \in 1..Len(t.shape) : t.shape[axis] > 0
      /\ Len(t.payload) = ElementCount(t.shape) * BytesPerElement(t.type)
  BY DEF Storable, Tensors
<1>2. Len(t.shape) \in Nat
  BY <1>1, LenProperties
<1>3. Len(t.name) \in Nat
  BY <1>1, LenProperties
<1>4. ElementCount(t.shape) \in Nat \ {0}
  BY <1>1, ElementCountPositive
<1>5. BytesPerElement(t.type) \in Nat \ {0}
  BY SizesType
<1>6. ElementCount(t.shape) * BytesPerElement(t.type) \in Nat \ {0}
  BY <1>4, <1>5, ProductOfPositives
<1> QED BY <1>1, <1>2, <1>3, <1>4, <1>6

LEMMA TensorHeaderType ==
  ASSUME NEW t \in Storable
  PROVE  /\ TensorHeader(t) \in Seq(Nat) /\ Len(TensorHeader(t)) = 6
         /\ TensorHeader(t)[1] = Len(t.name) /\ TensorHeader(t)[2] = t.type
         /\ TensorHeader(t)[3] = Len(t.shape) /\ TensorHeader(t)[4] = 0
         /\ TensorHeader(t)[5] = ElementCount(t.shape) /\ TensorHeader(t)[6] = Len(t.payload)
BY StorableType DEF TensorHeader

\* Concatenation of sequences of numbers is associative.
LEMMA NumbersAssociative ==
  ASSUME NEW s \in Seq(Nat), NEW t \in Seq(Nat), NEW u \in Seq(Nat)
  PROVE  (s \o t) \o u = s \o (t \o u)
BY ConcatAssociative, SMTT(60)

\* The parts of a record and their places in it.
LEMMA RecordParts ==
  ASSUME NEW t \in Storable
  PROVE  LET header == TensorHeader(t)
             afterShape == 6 + Len(t.shape)
             afterName == 6 + Len(t.shape) + Len(t.name)
             bytes == RecordBytes(t)
         IN  /\ bytes \in Seq(Nat) /\ Len(bytes) = afterName + Len(t.payload)
             /\ \A i \in 1..6 : bytes[i] = header[i]
             /\ \A i \in 1..Len(t.shape) : bytes[6 + i] = t.shape[i]
             /\ \A i \in 1..Len(t.name) : bytes[afterShape + i] = t.name[i]
             /\ \A i \in 1..Len(t.payload) : bytes[afterName + i] = t.payload[i]
<1> DEFINE header == TensorHeader(t)
           two == header \o t.shape
           three == two \o t.name
           four == three \o t.payload
           a == Len(t.shape)
           b == Len(t.name)
           d == Len(t.payload)
<1>1. header \in Seq(Nat) /\ Len(header) = 6 /\ a \in Nat /\ b \in Nat /\ d \in Nat
      /\ t.shape \in Seq(Nat) /\ t.name \in Seq(Nat) /\ t.payload \in Seq(Nat)
      /\ Len(t.shape) = a /\ Len(t.name) = b /\ Len(t.payload) = d
  BY TensorHeaderType, StorableType
<1> HIDE DEF header, a, b, d
<1>2. /\ two \in Seq(Nat) /\ Len(two) = 6 + a
      /\ \A i \in 1..(6 + a) : two[i] = IF i <= 6 THEN header[i] ELSE t.shape[i - 6]
  <2>1. /\ two \in Seq(Nat) /\ Len(two) = Len(header) + Len(t.shape)
        /\ \A i \in 1..(Len(header) + Len(t.shape)) :
             two[i] = IF i <= Len(header) THEN header[i] ELSE t.shape[i - Len(header)]
    BY <1>1, ConcatProperties DEF two
  <2> QED BY <1>1, <2>1
<1> HIDE DEF two
<1>3. /\ three \in Seq(Nat) /\ Len(three) = (6 + a) + b
      /\ \A i \in 1..((6 + a) + b) :
           three[i] = IF i <= 6 + a THEN two[i] ELSE t.name[i - (6 + a)]
  <2>1. /\ three \in Seq(Nat) /\ Len(three) = Len(two) + Len(t.name)
        /\ \A i \in 1..(Len(two) + Len(t.name)) :
             three[i] = IF i <= Len(two) THEN two[i] ELSE t.name[i - Len(two)]
    BY <1>1, <1>2, ConcatProperties DEF three
  <2> QED BY <1>1, <1>2, <2>1
<1> HIDE DEF three
<1>4. /\ four \in Seq(Nat) /\ Len(four) = ((6 + a) + b) + d
      /\ \A i \in 1..(((6 + a) + b) + d) :
           four[i] = IF i <= (6 + a) + b THEN three[i] ELSE t.payload[i - ((6 + a) + b)]
  <2>1. /\ four \in Seq(Nat) /\ Len(four) = Len(three) + Len(t.payload)
        /\ \A i \in 1..(Len(three) + Len(t.payload)) :
             four[i] = IF i <= Len(three) THEN three[i] ELSE t.payload[i - Len(three)]
    <3>1. three \in Seq(Nat) /\ t.payload \in Seq(Nat)
      BY <1>1, <1>3
    <3> QED BY ONLY <3>1, ConcatProperties DEF four
  <2> QED BY <1>1, <1>3, <2>1
<1>5. RecordBytes(t) = four
  BY DEF RecordBytes, header, two, three, four
<1> HIDE DEF four
<1>6. \A i \in 1..6 : four[i] = header[i]
  <2> TAKE i \in 1..6
  <2>1. /\ i \in 1..(((6 + a) + b) + d) /\ i <= (6 + a) + b
        /\ i \in 1..((6 + a) + b) /\ i <= 6 + a /\ i \in 1..(6 + a) /\ i <= 6
    BY <1>1
  <2> QED BY <1>2, <1>3, <1>4, <2>1
<1>7. \A i \in 1..a : four[6 + i] = t.shape[i]
  <2> TAKE i \in 1..a
  <2>1. /\ 6 + i \in 1..(((6 + a) + b) + d) /\ 6 + i <= (6 + a) + b
        /\ 6 + i \in 1..((6 + a) + b) /\ 6 + i <= 6 + a /\ 6 + i \in 1..(6 + a)
        /\ ~(6 + i <= 6) /\ (6 + i) - 6 = i
    BY <1>1
  <2> QED BY <1>2, <1>3, <1>4, <2>1
<1>8. \A i \in 1..b : four[6 + a + i] = t.name[i]
  <2> TAKE i \in 1..b
  <2>1. /\ 6 + a + i \in 1..(((6 + a) + b) + d) /\ 6 + a + i <= (6 + a) + b
        /\ 6 + a + i \in 1..((6 + a) + b) /\ ~(6 + a + i <= 6 + a)
        /\ (6 + a + i) - (6 + a) = i
    BY <1>1
  <2> QED BY <1>3, <1>4, <2>1
<1>9. \A i \in 1..d : four[6 + a + b + i] = t.payload[i]
  <2> TAKE i \in 1..d
  <2>1. /\ 6 + a + b + i \in 1..(((6 + a) + b) + d) /\ ~(6 + a + b + i <= (6 + a) + b)
        /\ (6 + a + b + i) - ((6 + a) + b) = i
    BY <1>1
  <2> QED BY <1>4, <2>1
<1>10. ((6 + a) + b) + d = 6 + a + b + d
  OBVIOUS
<1> QED BY <1>4, <1>5, <1>6, <1>7, <1>8, <1>9, <1>10 DEF header, a, b, d

LEMMA RecordOfType == Maps(RecordOf, Storable, Seq(Nat))
<1>1. \A t \in Storable : RecordBytes(t) \in Seq(Nat)
  BY RecordParts
<1> QED BY <1>1 DEF Maps, RecordOf

LEMMA TextType ==
  ASSUME NEW tensors \in Seq(Storable)
  PROVE  Text(tensors) \in Seq(Nat) /\ Len(Text(tensors)) \in Nat
<1>1. Each(RecordOf, tensors) \in Seq(Seq(Nat))
  BY RecordOfType, EachType
<1>2. Text(tensors) \in Seq(Nat)
  BY <1>1, FlattenType DEF Text
<1> QED BY <1>2, LenProperties

LEMMA TextOfNone == Text(<<>>) = <<>>
<1>1. DOMAIN <<>> = {}
  OBVIOUS
<1>2. Each(RecordOf, <<>>) = <<>>
  BY <1>1 DEF Each
<1> QED BY <1>2, FlattenEmpty DEF Text

LEMMA TextOfConcat ==
  ASSUME NEW some \in Seq(Storable), NEW more \in Seq(Storable)
  PROVE  Text(some \o more) = Text(some) \o Text(more)
<1>1. Each(RecordOf, some \o more) = Each(RecordOf, some) \o Each(RecordOf, more)
  BY RecordOfType, EachConcat
<1>2. Each(RecordOf, some) \in Seq(Seq(Nat))
  BY RecordOfType, EachType
<1>3. Each(RecordOf, more) \in Seq(Seq(Nat))
  BY RecordOfType, EachType
<1> QED BY <1>1, <1>2, <1>3, FlattenConcat DEF Text

LEMMA TextOfOne ==
  ASSUME NEW t \in Storable
  PROVE  Text(<<t>>) = RecordBytes(t)
<1> DEFINE r == RecordBytes(t)
<1>1. r \in Seq(Nat)
  BY RecordParts
<1>2. Each(RecordOf, <<t>>) = <<r>>
  BY DEF Each, RecordOf
<1> HIDE DEF r
<1>3. <<>> \in Seq(Seq(Nat)) /\ Append(<<>>, r) = <<r>>
  BY <1>1
<1>4. FlattenSeq(Append(<<>>, r)) = FlattenSeq(<<>>) \o r
  BY <1>1, <1>3, FlattenAppend
<1>5. <<>> \o r = r
  BY <1>1, ConcatEmptySeq
<1> QED BY <1>2, <1>3, <1>4, <1>5, FlattenEmpty DEF Text, r

LEMMA TextOfAppend ==
  ASSUME NEW tensors \in Seq(Storable), NEW t \in Storable
  PROVE  Text(Append(tensors, t)) = Text(tensors) \o RecordBytes(t)
<1>1. Append(tensors, t) = tensors \o <<t>> /\ <<t>> \in Seq(Storable)
  BY AppendIsConcat
<1>2. Text(tensors \o <<t>>) = Text(tensors) \o Text(<<t>>)
  BY <1>1, TextOfConcat
<1> QED BY <1>1, <1>2, TextOfOne

LEMMA BytesAre ==
  ASSUME NEW c \in Nat, NEW tensors \in Seq(Storable)
  PROVE  /\ Bytes(c, tensors) = GlobalHeader(c, Len(tensors)) \o Text(tensors)
         /\ GlobalHeader(c, Len(tensors)) \in Seq(Nat)
         /\ Len(GlobalHeader(c, Len(tensors))) = 4
         /\ Bytes(c, tensors) \in Seq(Nat)
         /\ Len(Bytes(c, tensors)) = 4 + Len(Text(tensors))
<1>1. DOMAIN tensors = 1..Len(tensors) /\ Len(tensors) \in Nat
      /\ \A i \in 1..Len(tensors) : tensors[i] \in Storable
  BY LenProperties, ElementOfSeq
<1>2. [i \in 1..Len(tensors) |-> RecordBytes(tensors[i])] = Each(RecordOf, tensors)
  BY <1>1 DEF Each, RecordOf
<1>3. /\ GlobalHeader(c, Len(tensors)) \in Seq(Nat)
      /\ Len(GlobalHeader(c, Len(tensors))) = 4
  <2>1. Magic \in Nat
    BY FormatAssumption DEF FormatAssumption
  <2> QED BY <1>1, <2>1 DEF GlobalHeader
<1>4. Bytes(c, tensors) = GlobalHeader(c, Len(tensors)) \o Text(tensors)
  BY <1>2 DEF Bytes, Text
<1>5. Text(tensors) \in Seq(Nat)
  BY TextType
<1> DEFINE header == GlobalHeader(c, Len(tensors))
           text == Text(tensors)
<1> HIDE DEF header, text
<1>6. header \o text \in Seq(Nat) /\ Len(header \o text) = Len(header) + Len(text)
  BY <1>3, <1>5, ConcatProperties DEF header, text
<1> QED BY <1>3, <1>4, <1>6 DEF header, text

-----------------------------------------------------------------------------
(* Where the records are. *)

Upto(tensors, k) == SubSeq(tensors, 1, k)

\* The units before the record of tensor k + 1.
Offset(tensors, k) == 4 + Len(Text(Upto(tensors, k)))

LEMMA UptoType ==
  ASSUME NEW tensors \in Seq(Storable), NEW k \in 0..Len(tensors)
  PROVE  /\ Upto(tensors, k) \in Seq(Storable) /\ Len(Upto(tensors, k)) = k
         /\ \A i \in 1..k : Upto(tensors, k)[i] = tensors[i]
         /\ Len(tensors) \in Nat /\ k \in Nat
<1>1. Len(tensors) \in Nat /\ k \in Int /\ 1 \in Int
  BY LenProperties
<1>2. \A i \in 1..k : i \in 1..Len(tensors)
  BY <1>1
<1>3. \A i \in 1..k : tensors[i] \in Storable
  BY <1>2, ElementOfSeq
<1>4. /\ SubSeq(tensors, 1, k) \in Seq(Storable)
      /\ Len(SubSeq(tensors, 1, k)) = IF 1 <= k THEN k - 1 + 1 ELSE 0
      /\ \A i \in 1..(k - 1 + 1) : SubSeq(tensors, 1, k)[i] = tensors[1 + i - 1]
  BY <1>1, <1>3, SubSeqProperties
<1>5. \A i \in 1..k : i \in 1..(k - 1 + 1) /\ 1 + i - 1 = i
  BY <1>1
<1>6. (IF 1 <= k THEN k - 1 + 1 ELSE 0) = k
  BY <1>1
<1> QED BY <1>1, <1>4, <1>5, <1>6 DEF Upto

LEMMA UptoAll ==
  ASSUME NEW tensors \in Seq(Storable)
  PROVE  Upto(tensors, Len(tensors)) = tensors /\ Upto(tensors, 0) = <<>>
<1>1. Upto(tensors, Len(tensors)) = tensors
  BY SubSeqFull DEF Upto
<1>2. Upto(tensors, 0) = <<>>
  BY SubSeqEmpty DEF Upto
<1> QED BY <1>1, <1>2

LEMMA UptoNext ==
  ASSUME NEW tensors \in Seq(Storable), NEW k \in 0..(Len(tensors) - 1)
  PROVE  /\ tensors[k + 1] \in Storable /\ k \in 0..Len(tensors) /\ k + 1 \in 0..Len(tensors)
         /\ Upto(tensors, k + 1) = Append(Upto(tensors, k), tensors[k + 1])
<1>1. Len(tensors) \in Nat
  BY LenProperties
<1>2. k \in 0..Len(tensors) /\ k + 1 \in 0..Len(tensors) /\ k + 1 \in 1..Len(tensors) /\ k \in Nat
  BY <1>1
<1>3. tensors[k + 1] \in Storable
  BY <1>2, ElementOfSeq
<1> DEFINE u == Upto(tensors, k)
           v == Upto(tensors, k + 1)
           t == tensors[k + 1]
           w == Append(u, t)
<1>4. u \in Seq(Storable) /\ Len(u) = k /\ \A i \in 1..k : u[i] = tensors[i]
  BY <1>2, UptoType
<1>5. v \in Seq(Storable) /\ Len(v) = k + 1 /\ \A i \in 1..(k + 1) : v[i] = tensors[i]
  BY <1>2, UptoType
<1> HIDE DEF u, v
<1>6. /\ w \in Seq(Storable) /\ Len(w) = Len(u) + 1
      /\ \A i \in 1..Len(u) : w[i] = u[i]
      /\ w[Len(u) + 1] = t
  BY <1>3, <1>4, AppendProperties
<1> HIDE DEF w
<1>7. \A i \in 1..Len(v) : v[i] = w[i]
  <2> TAKE i \in 1..Len(v)
  <2>1. CASE i = k + 1
    BY <1>4, <1>5, <1>6, <2>1
  <2>2. CASE i # k + 1
    <3>1. i \in 1..k /\ i \in 1..(k + 1)
      BY <1>2, <1>5, <2>2
    <3> QED BY <1>4, <1>5, <1>6, <3>1
  <2> QED BY <2>1, <2>2
<1>8. v = w
  BY <1>4, <1>5, <1>6, <1>7, SeqEqual
<1> QED BY <1>2, <1>3, <1>8 DEF u, v, w

\* A prefix of the tensors has a prefix of the text.
LEMMA TextFromHere ==
  ASSUME NEW tensors \in Seq(Storable), NEW k \in 0..(Len(tensors) - 1)
  PROVE  \E rest \in Seq(Nat) :
           Text(tensors)
             = (Text(Upto(tensors, k)) \o RecordBytes(tensors[k + 1])) \o rest
<1> DEFINE n == Len(tensors)
           u == Upto(tensors, k)
           v == Upto(tensors, k + 1)
           w == SubSeq(tensors, k + 2, n)
<1>1. n \in Nat /\ k \in Nat /\ k + 1 \in 0..n /\ k \in 0..n
  BY LenProperties
<1>2. u \in Seq(Storable) /\ v \in Seq(Storable)
  BY <1>1, UptoType
<1>3. w \in Seq(Storable)
  <2>1. k + 2 \in Int /\ n \in Int
    BY <1>1
  <2>2. \A i \in (k + 2)..n : i \in 1..Len(tensors)
    BY <1>1
  <2>3. \A i \in (k + 2)..n : tensors[i] \in Storable
    BY <2>2, ElementOfSeq
  <2> HIDE DEF n
  <2> QED BY <2>1, <2>3, SubSeqProperties
<1>4. tensors = v \o w
  <2> DEFINE m == k + 1
  <2>1. 1 \in 1..(n + 1) /\ m \in (1 - 1)..n /\ n \in m..n /\ m + 1 = k + 2
    BY <1>1
  <2> HIDE DEF m
  <2>2. SubSeq(tensors, 1, m) \o SubSeq(tensors, m + 1, n) = SubSeq(tensors, 1, n)
    BY <2>1, ConcatAdjacentSubSeq
  <2>3. SubSeq(tensors, 1, n) = tensors
    BY SubSeqFull
  <2> QED BY <2>1, <2>2, <2>3 DEF Upto, m
<1>5. v = Append(u, tensors[k + 1]) /\ tensors[k + 1] \in Storable
  BY UptoNext
<1> HIDE DEF u, v, w
<1>6. Text(v \o w) = Text(v) \o Text(w)
  BY <1>2, <1>3, TextOfConcat
<1>7. Text(v) = Text(u) \o RecordBytes(tensors[k + 1])
  BY <1>2, <1>5, TextOfAppend
<1>8. Text(w) \in Seq(Nat)
  BY <1>3, TextType
<1> QED BY <1>4, <1>6, <1>7, <1>8 DEF u

LEMMA NextRecord ==
  ASSUME NEW c \in Nat, NEW tensors \in Seq(Storable), NEW k \in 0..(Len(tensors) - 1)
  PROVE  LET r == RecordBytes(tensors[k + 1])
             o == Offset(tensors, k)
         IN  /\ o \in Nat /\ Len(r) \in Nat
             /\ o + Len(r) <= Len(Bytes(c, tensors))
             /\ \A i \in 1..Len(r) : Bytes(c, tensors)[o + i] = r[i]
             /\ Offset(tensors, k + 1) = o + Len(r)
<1> DEFINE r == RecordBytes(tensors[k + 1])
           o == Offset(tensors, k)
           u == Text(Upto(tensors, k))
           ur == u \o r
           text == Text(tensors)
           header == GlobalHeader(c, Len(tensors))
           b == Bytes(c, tensors)
<1>1. /\ tensors[k + 1] \in Storable /\ Upto(tensors, k) \in Seq(Storable)
      /\ Upto(tensors, k + 1) = Append(Upto(tensors, k), tensors[k + 1])
  BY UptoNext, UptoType
<1>2. r \in Seq(Nat) /\ u \in Seq(Nat)
  BY <1>1, RecordParts, TextType
<1>3. Len(r) \in Nat
  BY <1>2, LenProperties
<1>4. Len(u) \in Nat
  BY <1>2, LenProperties
<1>5. Text(Upto(tensors, k + 1)) = ur
  BY <1>1, TextOfAppend
<1>6. PICK rest \in Seq(Nat) : text = ur \o rest
  BY TextFromHere
<1>7. /\ header \in Seq(Nat) /\ Len(header) = 4 /\ b = header \o text /\ text \in Seq(Nat)
      /\ Len(text) \in Nat
  BY BytesAre, TextType
<1>8. o = 4 + Len(u) /\ Offset(tensors, k + 1) = 4 + Len(ur)
  BY <1>5 DEF Offset
<1> HIDE DEF r, o, u, text, header, b
<1>9. /\ ur \in Seq(Nat) /\ Len(ur) = Len(u) + Len(r)
      /\ \A i \in 1..(Len(u) + Len(r)) : ur[i] = IF i <= Len(u) THEN u[i] ELSE r[i - Len(u)]
  BY <1>2, ConcatProperties
<1> HIDE DEF ur
<1>10. /\ Len(text) = Len(ur) + Len(rest)
       /\ \A i \in 1..(Len(ur) + Len(rest)) :
            text[i] = IF i <= Len(ur) THEN ur[i] ELSE rest[i - Len(ur)]
  BY <1>6, <1>9, ConcatProperties
<1>11. Len(rest) \in Nat
  BY LenProperties
<1>12. /\ Len(b) = Len(header) + Len(text)
       /\ \A i \in 1..(Len(header) + Len(text)) :
            b[i] = IF i <= Len(header) THEN header[i] ELSE text[i - Len(header)]
  BY <1>7, ConcatProperties
<1>13. o \in Nat /\ o + Len(r) <= Len(b) /\ Offset(tensors, k + 1) = o + Len(r)
  BY <1>3, <1>4, <1>7, <1>8, <1>9, <1>10, <1>11, <1>12
<1>14. ASSUME NEW i \in 1..Len(r) PROVE b[o + i] = r[i]
  <2>1. /\ o + i \in 1..(Len(header) + Len(text)) /\ ~(o + i <= Len(header))
        /\ (o + i) - Len(header) = Len(u) + i
    <3>1. Len(header) + Len(text) = 4 + Len(u) + Len(r) + Len(rest)
      BY <1>3, <1>4, <1>7, <1>9, <1>10, <1>11
    <3>2. o + i = 4 + Len(u) + i /\ i \in Nat /\ 1 <= i /\ i <= Len(r)
      BY <1>3, <1>4, <1>8
    <3> DEFINE h == Len(header)
               x == Len(u)
               y == Len(r)
               z == Len(rest)
               w == Len(text)
    <3>3. h = 4 /\ x \in Nat /\ y \in Nat /\ z \in Nat /\ h + w = 4 + x + y + z
      BY <1>3, <1>4, <1>7, <1>11, <3>1
    <3>4. o + i = 4 + x + i /\ i \in Nat /\ 1 <= i /\ i <= y
      BY <3>2
    <3> HIDE DEF h, x, y, z, w
    <3>5. o + i \in 1..(h + w) /\ ~(o + i <= h) /\ (o + i) - h = x + i
      BY ONLY <3>3, <3>4
    <3> QED BY <3>5 DEF h, x, w
  <2>2. /\ Len(u) + i \in 1..(Len(ur) + Len(rest)) /\ Len(u) + i <= Len(ur)
        /\ Len(u) + i \in 1..(Len(u) + Len(r)) /\ ~(Len(u) + i <= Len(u))
        /\ (Len(u) + i) - Len(u) = i
    BY <1>3, <1>4, <1>9, <1>11
  <2>3. b[o + i] = text[Len(u) + i]
    BY <1>12, <2>1
  <2>4. text[Len(u) + i] = ur[Len(u) + i]
    BY <1>10, <2>2
  <2>5. ur[Len(u) + i] = r[i]
    BY <1>9, <2>2
  <2> QED BY <2>3, <2>4, <2>5
<1> QED BY <1>3, <1>13, <1>14 DEF r, o, b

LEMMA OffsetEnds ==
  ASSUME NEW c \in Nat, NEW tensors \in Seq(Storable)
  PROVE  /\ Offset(tensors, 0) = 4
         /\ Offset(tensors, Len(tensors)) = Len(Bytes(c, tensors))
         /\ Len(Bytes(c, tensors)) \in Nat
         /\ 4 <= Len(Bytes(c, tensors))
         /\ \A i \in 1..4 : Bytes(c, tensors)[i] = GlobalHeader(c, Len(tensors))[i]
<1>1. Offset(tensors, 0) = 4
  <2>1. Len(<<>>) = 0
    OBVIOUS
  <2> QED BY <2>1, UptoAll, TextOfNone DEF Offset
<1>2. Offset(tensors, Len(tensors)) = 4 + Len(Text(tensors)) /\ Len(Text(tensors)) \in Nat
  BY UptoAll, TextType DEF Offset
<1> DEFINE header == GlobalHeader(c, Len(tensors))
           text == Text(tensors)
           b == Bytes(c, tensors)
<1>3. /\ b = header \o text /\ header \in Seq(Nat) /\ text \in Seq(Nat) /\ Len(header) = 4
      /\ Len(b) = 4 + Len(text)
  BY BytesAre, TextType
<1> HIDE DEF header, text, b
<1>4. \A i \in 1..(Len(header) + Len(text)) :
        b[i] = IF i <= Len(header) THEN header[i] ELSE text[i - Len(header)]
  BY <1>3, ConcatProperties
<1>5. \A i \in 1..4 : i \in 1..(Len(header) + Len(text)) /\ i <= Len(header)
  BY <1>2, <1>3 DEF text
<1>6. \A i \in 1..4 : b[i] = header[i]
  BY <1>4, <1>5
<1> QED BY <1>1, <1>2, <1>3, <1>6 DEF header, text, b

-----------------------------------------------------------------------------
(* The sizes and the configuration. *)

\* What is counted against the limit on all payloads is what is loaded, and the
\* payload of the record that is being read.
Counted ==
  /\ stage # "rejected" =>
       total = TotalSize(loaded) + (IF InRecord THEN tensor.payloadSize ELSE 0)
  /\ stage \notin {"closed", "header", "rejected"} => config \in Configs

LEMMA CountedInit == ReaderInit => Counted
BY TotalOfNone DEF ReaderInit, Counted, InRecord

LEMMA CountedLoad == IInv /\ IInv' /\ Counted /\ Load => Counted'
<1> SUFFICES ASSUME IInv, IInv', Counted, Load PROVE Counted'
  OBVIOUS
<1>0. CASE Reject
  BY <1>0 DEF Reject, Counted
<1>1. CASE ReadGlobalHeader /\ ~Reject
  <2>1. /\ stage = "header" /\ stage' = "record" /\ total' = total /\ loaded' = loaded
        /\ config' \in Configs
    BY <1>1 DEF ReadGlobalHeader, GoodGlobalHeader
  <2> QED BY <2>1 DEF Counted, InRecord
<1>2. CASE ReadTensorHeader /\ ~Reject
  <2>1. /\ stage = "record" /\ stage' = "shape" /\ total' = total + tensor'.payloadSize
        /\ loaded' = loaded /\ config' = config
    BY <1>2 DEF ReadTensorHeader
  <2>2. TotalSize(loaded) \in Nat /\ tensor'.payloadSize \in Nat
    <3>1. tensor'.payloadSize \in Nat /\ loaded \in Seq(Tensors)
      BY DEF IInv, Locals, Headers
    <3>2. Len(loaded) <= Len(loaded)
      BY <3>1, LenProperties
    <3> QED BY <3>1, <3>2, TotalIsMonotonic
  <2> QED BY <2>1, <2>2 DEF Counted, InRecord
<1>3. CASE ReadShape /\ ~Reject
  <2>1. /\ stage = "shape" /\ stage' = "name" /\ total' = total
        /\ tensor' = [tensor EXCEPT !.shape = Ahead(tensor.rank)]
        /\ loaded' = loaded /\ config' = config
    BY <1>3 DEF ReadShape
  <2>2. tensor'.payloadSize = tensor.payloadSize
    BY <2>1 DEF IInv, Locals, Headers
  <2> QED BY <2>1, <2>2 DEF Counted, InRecord
<1>4. CASE ReadName /\ ~Reject
  <2>1. /\ stage = "name" /\ stage' = "payload" /\ total' = total
        /\ tensor' = [tensor EXCEPT !.name = Ahead(tensor.nameLength)]
        /\ loaded' = loaded /\ config' = config
    BY <1>4 DEF ReadName
  <2>2. tensor'.payloadSize = tensor.payloadSize
    BY <2>1 DEF IInv, Locals, Headers
  <2> QED BY <2>1, <2>2 DEF Counted, InRecord
<1>5. CASE ReadPayload /\ ~Reject
  <2> DEFINE values == Ahead(PayloadUnits)
             t == [name |-> tensor.name, type |-> tensor.type,
                   shape |-> tensor.shape, payload |-> values]
  <2>1. /\ stage = "payload" /\ stage' = "record" /\ total' = total /\ config' = config
        /\ loaded' = Append(loaded, t) /\ Readable(PayloadUnits)
    BY <1>5 DEF ReadPayload
  <2>2. PayloadUnits \in Nat
    BY PayloadType DEF IInv
  <2>3. values \in Seq(Nat) /\ Len(values) = PayloadUnits
    BY <2>1, <2>2, AheadUnits DEF IInv
  <2> HIDE DEF values
  <2>4. t \in Tensors /\ t.payload = values
    BY <2>3 DEF IInv, Locals, Headers, Tensors
  <2>5. tensor.payloadSize = PayloadUnits
    BY <2>1 DEF IInv, ShapeRead
  <2> HIDE DEF t
  <2>6. TotalSize(Append(loaded, t)) = TotalSize(loaded) + Len(t.payload)
        /\ TotalSize(loaded) \in Nat
    BY <2>4, TotalOfAppend DEF IInv, Locals
  <2>7. TotalSize(loaded') = total' /\ TotalSize(loaded') \in Nat
    BY <2>1, <2>2, <2>3, <2>4, <2>5, <2>6 DEF Counted, InRecord
  <2> QED BY <2>1, <2>7 DEF Counted, InRecord
<1>6. CASE Finish /\ ~Reject
  BY <1>6 DEF Finish, Counted, InRecord
<1> QED BY <1>0, <1>1, <1>2, <1>3, <1>4, <1>5, <1>6 DEF Load

LEMMA LoadedStorable == IInv => loaded \in Seq(Storable)
<1> SUFFICES ASSUME IInv PROVE loaded \in Seq(Storable)
  OBVIOUS
<1>1. loaded \in Seq(Tensors) /\ \A i \in 1..Len(loaded) : ValidTensor(loaded[i])
  BY DEF IInv, Locals, Loaded
<1>2. Len(loaded) \in Nat /\ loaded \in [1..Len(loaded) -> Tensors]
  BY <1>1, LenProperties
<1>3. \A i \in 1..Len(loaded) : loaded[i] \in Storable
  BY <1>1, <1>2 DEF ValidTensor, Storable
<1>4. loaded \in [1..Len(loaded) -> Storable]
  BY <1>2, <1>3
<1> QED BY <1>2, <1>4, SeqDef

-----------------------------------------------------------------------------
(* What was read is what is in the file. *)

TensorUnits ==
  <<tensor.nameLength, tensor.type, tensor.rank, 0, tensor.elementCount, tensor.payloadSize>>

\* The units of the record that is being read.
PartRead == IF InRecord THEN (TensorUnits \o tensor.shape) \o tensor.name ELSE <<>>

Sized == stage # "closed" => position + remaining = Len(file)

NotYetRead ==
  /\ stage = "header" => position = 0
  /\ stage = "shape" => tensor.shape = <<>>
  /\ stage \in {"shape", "name"} => tensor.name = <<>>

ReadSoFar ==
  stage \notin {"closed", "header", "rejected"} =>
    SubSeq(file, 1, position) = (GlobalHeader(config, tensorCount) \o Text(loaded)) \o PartRead

Finished ==
  stage = "accepted" => Len(loaded) = tensorCount /\ position = Len(file)

WholeInv == Sized /\ NotYetRead /\ ReadSoFar /\ Finished

\* Reading moves the end of what was read.
LEMMA Longer ==
  ASSUME Locals, NEW n \in Nat, Readable(n)
  PROVE  SubSeq(file, 1, position + n) = SubSeq(file, 1, position) \o Ahead(n)
<1>1. position \in Nat /\ file \in Seq(Nat) /\ position + n <= Len(file) /\ Len(file) \in Nat
  BY LenProperties DEF Locals, Readable
<1> DEFINE last == position + n
<1>2. 1 \in 1..(Len(file) + 1) /\ position \in (1 - 1)..Len(file) /\ last \in position..Len(file)
  BY <1>1
<1> HIDE DEF last
<1>3. SubSeq(file, 1, position) \o SubSeq(file, position + 1, last) = SubSeq(file, 1, last)
  BY <1>1, <1>2, ConcatAdjacentSubSeq
<1> QED BY <1>3 DEF Ahead, last

\* What is read in one piece has the units it was taken apart into.
LEMMA SixUnits ==
  ASSUME NEW s \in Seq(Nat), Len(s) = 6
  PROVE  s = <<s[1], s[2], s[3], s[4], s[5], s[6]>>
<1>1. \A i \in 1..6 : s[i] \in Nat
  BY ElementOfSeq
<1> DEFINE t == <<s[1], s[2], s[3], s[4], s[5], s[6]>>
<1>2. t \in Seq(Nat) /\ Len(t) = 6
  BY <1>1
<1>3. \A i \in 1..6 : s[i] = t[i]
  <2> TAKE i \in 1..6
  <2>1. i = 1 \/ i = 2 \/ i = 3 \/ i = 4 \/ i = 5 \/ i = 6
    OBVIOUS
  <2> QED BY <2>1
<1> HIDE DEF t
<1>4. s = t
  BY <1>2, <1>3, SeqEqual
<1> QED BY <1>4 DEF t

LEMMA FourUnits ==
  ASSUME NEW s \in Seq(Nat), Len(s) = 4
  PROVE  s = <<s[1], s[2], s[3], s[4]>>
<1>1. \A i \in 1..4 : s[i] \in Nat
  BY ElementOfSeq
<1> DEFINE t == <<s[1], s[2], s[3], s[4]>>
<1>2. t \in Seq(Nat) /\ Len(t) = 4
  BY <1>1
<1>3. \A i \in 1..4 : s[i] = t[i]
  <2> TAKE i \in 1..4
  <2>1. i = 1 \/ i = 2 \/ i = 3 \/ i = 4
    OBVIOUS
  <2> QED BY <2>1
<1> HIDE DEF t
<1>4. s = t
  BY <1>2, <1>3, SeqEqual
<1> QED BY <1>4 DEF t

LEMMA GlobalHeaderType ==
  ASSUME NEW c \in Nat, NEW n \in Nat
  PROVE  GlobalHeader(c, n) \in Seq(Nat) /\ Len(GlobalHeader(c, n)) = 4
<1>1. Magic \in Nat
  BY FormatAssumption DEF FormatAssumption
<1> QED BY <1>1 DEF GlobalHeader

LEMMA TensorUnitsType ==
  Locals => /\ TensorUnits \in Seq(Nat) /\ tensor.shape \in Seq(Nat) /\ tensor.name \in Seq(Nat)
            /\ TensorUnits \o tensor.shape \in Seq(Nat)
            /\ (TensorUnits \o tensor.shape) \o tensor.name \in Seq(Nat)
<1> SUFFICES ASSUME Locals
             PROVE  /\ TensorUnits \in Seq(Nat)
                    /\ tensor.shape \in Seq(Nat) /\ tensor.name \in Seq(Nat)
                    /\ TensorUnits \o tensor.shape \in Seq(Nat)
                    /\ (TensorUnits \o tensor.shape) \o tensor.name \in Seq(Nat)
  OBVIOUS
<1>1. TensorUnits \in Seq(Nat) /\ tensor.shape \in Seq(Nat) /\ tensor.name \in Seq(Nat)
  BY DEF Locals, Headers, TensorUnits
<1>2. TensorUnits \o tensor.shape \in Seq(Nat)
  BY <1>1, ConcatProperties
<1>3. (TensorUnits \o tensor.shape) \o tensor.name \in Seq(Nat)
  BY <1>1, <1>2, ConcatProperties
<1> QED BY <1>1, <1>2, <1>3

LEMMA ConfigType == Counted /\ stage \notin {"closed", "header", "rejected"} => config \in Nat
BY FormatAssumption DEF Counted, FormatAssumption

LEMMA WholeReject == stage # "closed" /\ WholeInv /\ Reject => WholeInv'
<1> SUFFICES ASSUME stage # "closed", WholeInv, Reject PROVE WholeInv'
  OBVIOUS
<1>1. Sized'
  BY DEF WholeInv, Reject, Sized
<1>2. NotYetRead' /\ ReadSoFar' /\ Finished'
  BY DEF Reject, NotYetRead, ReadSoFar, Finished
<1> QED BY <1>1, <1>2 DEF WholeInv

LEMMA WholeOpen == WholeInv /\ IInv /\ ReaderInit /\ Open => WholeInv'
<1> SUFFICES ASSUME IInv, ReaderInit, Open PROVE WholeInv'
  OBVIOUS
<1>1. Len(file) \in Nat
  BY LenProperties DEF IInv, Locals
<1> QED BY <1>1 DEF Open, ReaderInit, WholeInv, Sized, NotYetRead, ReadSoFar, Finished

LEMMA SizedLoad ==
  ASSUME Locals, Sized, stage # "closed", NEW n \in Nat, Readable(n), Consume(n), file' = file
  PROVE  Sized' /\ position' = position + n /\ position + n \in Nat
<1>1. position \in Nat /\ remaining \in Nat /\ position + remaining = Len(file)
  BY DEF Locals, Sized
<1>2. position' = position + n /\ remaining' = remaining - n
  BY DEF Consume
<1> QED BY <1>1, <1>2 DEF Sized

LEMMA WholeGlobalHeader == IInv /\ WholeInv /\ ReadGlobalHeader => WholeInv'
<1> SUFFICES ASSUME IInv, WholeInv, ReadGlobalHeader PROVE WholeInv'
  OBVIOUS
<1>1. CASE Reject
  BY <1>1, WholeReject DEF ReadGlobalHeader
<1>2. CASE ~Reject
  <2> DEFINE h == Ahead(4)
  <2>1. /\ Readable(4) /\ GoodGlobalHeader(h) /\ Consume(4)
        /\ tensorCount' = h[2] /\ config' = h[3]
        /\ stage = "header" /\ stage' = "record"
        /\ UNCHANGED <<file, tensor, total, loaded>>
    BY <1>2 DEF ReadGlobalHeader, GlobalHeaderSize
  <2>2. position = 0 /\ loaded = <<>> /\ Locals
    BY <2>1 DEF WholeInv, NotYetRead, IInv, Started
  <2>3. h \in Seq(Nat) /\ Len(h) = 4
    BY <2>1, <2>2, AheadUnits
  <2>4. Sized' /\ position' = 4
    BY <2>1, <2>2, SizedLoad DEF WholeInv
  <2>5. SubSeq(file, 1, position') = h
    BY <2>2, <2>4 DEF Ahead
  <2> HIDE DEF h
  <2>6. h = GlobalHeader(config', tensorCount')
    <3>1. h = <<h[1], h[2], h[3], h[4]>>
      BY <2>3, FourUnits
    <3>2. h[1] = Magic /\ h[4] = 0
      BY <2>1 DEF GoodGlobalHeader
    <3> QED BY <2>1, <3>1, <3>2 DEF GlobalHeader
  <2>7. (h \o <<>>) \o <<>> = h
    BY <2>3, ConcatEmptySeq
  <2>8. ReadSoFar'
    <3>1. PartRead' = <<>> /\ Text(loaded') = <<>>
      BY <2>1, <2>2, TextOfNone DEF PartRead, InRecord
    <3>2. SubSeq(file', 1, position')
            = (GlobalHeader(config', tensorCount') \o Text(loaded')) \o PartRead'
      BY <2>1, <2>5, <2>6, <2>7, <3>1
    <3> QED BY <3>2 DEF ReadSoFar
  <2> QED BY <2>1, <2>4, <2>8 DEF WholeInv, NotYetRead, Finished
<1> QED BY <1>1, <1>2

\* What was read before the parts of a record.
Records == GlobalHeader(config, tensorCount) \o Text(loaded)

LEMMA RecordsType ==
  IInv /\ Counted /\ stage \notin {"closed", "header", "rejected"} => Records \in Seq(Nat)
<1> SUFFICES ASSUME IInv, Counted, stage \notin {"closed", "header", "rejected"}
             PROVE  Records \in Seq(Nat)
  OBVIOUS
<1>1. config \in Nat /\ tensorCount \in Nat
  BY ConfigType, SizesType DEF IInv, Locals
<1>2. GlobalHeader(config, tensorCount) \in Seq(Nat)
  BY <1>1, GlobalHeaderType
<1>3. Text(loaded) \in Seq(Nat)
  BY LoadedStorable, TextType
<1> QED BY <1>2, <1>3, ConcatProperties DEF Records

LEMMA WholeTensorHeader == IInv /\ Counted /\ WholeInv /\ ReadTensorHeader => WholeInv'
<1> SUFFICES ASSUME IInv, Counted, WholeInv, ReadTensorHeader PROVE WholeInv'
  OBVIOUS
<1>1. CASE Reject
  BY <1>1, WholeReject DEF ReadTensorHeader
<1>2. CASE ~Reject
  <2> DEFINE h == Ahead(6)
  <2>1. /\ Readable(6) /\ GoodTensorHeader(Header(h)) /\ Consume(6)
        /\ tensor' = Header(h)
        /\ stage = "record" /\ stage' = "shape"
        /\ UNCHANGED <<file, config, tensorCount, loaded>>
    BY <1>2 DEF ReadTensorHeader, TensorHeaderSize
  <2>2. Locals
    BY DEF IInv
  <2>3. h \in Seq(Nat) /\ Len(h) = 6
    BY <2>1, <2>2, AheadUnits
  <2>4. Sized' /\ position' = position + 6
    BY <2>1, <2>2, SizedLoad DEF WholeInv
  <2>5. SubSeq(file, 1, position') = SubSeq(file, 1, position) \o h
    BY <2>1, <2>2, <2>4, Longer
  <2> HIDE DEF h
  <2>6. /\ TensorUnits' = h /\ tensor'.shape = <<>> /\ tensor'.name = <<>>
    <3>1. h = <<h[1], h[2], h[3], h[4], h[5], h[6]>>
      BY <2>3, SixUnits
    <3>2. h[4] = 0
      BY <2>1 DEF GoodTensorHeader, Header
    <3>3. TensorUnits' = <<h[1], h[2], h[3], 0, h[5], h[6]>>
      BY <2>1 DEF TensorUnits, Header
    <3> QED BY <2>1, <3>1, <3>2, <3>3 DEF Header
  <2>7. (h \o <<>>) \o <<>> = h
    BY <2>3, ConcatEmptySeq
  <2>8. SubSeq(file, 1, position) = Records
    <3>1. SubSeq(file, 1, position) = Records \o PartRead /\ PartRead = <<>>
      BY <2>1 DEF WholeInv, ReadSoFar, Records, PartRead, InRecord
    <3>2. Records \in Seq(Nat)
      BY <2>1, RecordsType
    <3>3. Records \o <<>> = Records
      BY <3>2, ConcatEmptySeq
    <3> QED BY <3>1, <3>3
  <2>9. ReadSoFar'
    <3>1. PartRead' = h
      BY <2>1, <2>6, <2>7 DEF PartRead, InRecord
    <3>2. Records' = Records
      BY <2>1 DEF Records
    <3>3. SubSeq(file', 1, position') = Records' \o PartRead'
      BY <2>1, <2>5, <2>8, <3>1, <3>2
    <3> QED BY <3>3 DEF ReadSoFar, Records
  <2> QED BY <2>1, <2>4, <2>6, <2>9 DEF WholeInv, NotYetRead, Finished
<1> QED BY <1>1, <1>2

LEMMA WholeShape == IInv /\ Counted /\ WholeInv /\ ReadShape => WholeInv'
<1> SUFFICES ASSUME IInv, Counted, WholeInv, ReadShape PROVE WholeInv'
  OBVIOUS
<1>1. CASE Reject
  BY <1>1, WholeReject DEF ReadShape
<1>2. CASE ~Reject
  <2> DEFINE shape == Ahead(tensor.rank)
             n == tensor.rank
  <2>1. /\ Readable(n) /\ Consume(n)
        /\ tensor' = [tensor EXCEPT !.shape = shape]
        /\ stage = "shape" /\ stage' = "name"
        /\ UNCHANGED <<file, config, tensorCount, total, loaded>>
    BY <1>2 DEF ReadShape
  <2>2. Locals /\ tensor \in Headers /\ n \in Nat
    BY DEF IInv, Locals, Headers
  <2>3. shape \in Seq(Nat)
    BY <2>1, <2>2, AheadUnits
  <2>4. Sized' /\ position' = position + n
    BY <2>1, <2>2, SizedLoad DEF WholeInv
  <2>5. SubSeq(file, 1, position') = SubSeq(file, 1, position) \o shape
    BY <2>1, <2>2, <2>4, Longer
  <2> HIDE DEF shape, n
  <2>6. /\ tensor.shape = <<>> /\ tensor.name = <<>>
        /\ tensor'.shape = shape /\ tensor'.name = <<>> /\ TensorUnits' = TensorUnits
    BY <2>1, <2>2, <2>3 DEF WholeInv, NotYetRead, Headers, TensorUnits
  <2>7. TensorUnits \in Seq(Nat) /\ TensorUnits \o shape \in Seq(Nat)
    BY <2>2, <2>3, TensorUnitsType, ConcatProperties
  <2>8. /\ (TensorUnits \o <<>>) \o <<>> = TensorUnits
        /\ (TensorUnits \o shape) \o <<>> = TensorUnits \o shape
    BY <2>7, ConcatEmptySeq
  <2>9. SubSeq(file, 1, position) = Records \o TensorUnits /\ Records \in Seq(Nat)
    <3>1. PartRead = TensorUnits
      BY <2>1, <2>6, <2>8 DEF PartRead, InRecord
    <3>2. SubSeq(file, 1, position) = Records \o PartRead
      BY <2>1 DEF WholeInv, ReadSoFar, Records
    <3>3. Records \in Seq(Nat)
      BY <2>1, RecordsType
    <3> QED BY <3>1, <3>2, <3>3
  <2>10. (Records \o TensorUnits) \o shape = Records \o (TensorUnits \o shape)
    BY <2>3, <2>7, <2>9, NumbersAssociative
  <2>11. ReadSoFar'
    <3>1. PartRead' = TensorUnits \o shape
      BY <2>1, <2>6, <2>8 DEF PartRead, InRecord
    <3>2. Records' = Records
      BY <2>1 DEF Records
    <3>3. SubSeq(file', 1, position') = Records' \o PartRead'
      BY <2>1, <2>5, <2>9, <2>10, <3>1, <3>2
    <3> QED BY <3>3 DEF ReadSoFar, Records
  <2> QED BY <2>1, <2>4, <2>6, <2>11 DEF WholeInv, NotYetRead, Finished
<1> QED BY <1>1, <1>2

LEMMA WholeName == IInv /\ Counted /\ WholeInv /\ ReadName => WholeInv'
<1> SUFFICES ASSUME IInv, Counted, WholeInv, ReadName PROVE WholeInv'
  OBVIOUS
<1>1. CASE Reject
  BY <1>1, WholeReject DEF ReadName
<1>2. CASE ~Reject
  <2> DEFINE name == Ahead(tensor.nameLength)
             n == tensor.nameLength
             start == TensorUnits \o tensor.shape
  <2>1. /\ Readable(n) /\ Consume(n)
        /\ tensor' = [tensor EXCEPT !.name = name]
        /\ stage = "name" /\ stage' = "payload"
        /\ UNCHANGED <<file, config, tensorCount, total, loaded>>
    BY <1>2 DEF ReadName
  <2>2. Locals /\ tensor \in Headers /\ n \in Nat
    BY DEF IInv, Locals, Headers
  <2>3. name \in Seq(Nat)
    BY <2>1, <2>2, AheadUnits
  <2>4. Sized' /\ position' = position + n
    BY <2>1, <2>2, SizedLoad DEF WholeInv
  <2>5. SubSeq(file, 1, position') = SubSeq(file, 1, position) \o name
    BY <2>1, <2>2, <2>4, Longer
  <2> HIDE DEF name, n
  <2>6. /\ tensor.name = <<>> /\ tensor'.name = name
        /\ tensor'.shape = tensor.shape /\ TensorUnits' = TensorUnits
    BY <2>1, <2>2, <2>3 DEF WholeInv, NotYetRead, Headers, TensorUnits
  <2>7. start \in Seq(Nat)
    BY <2>2, TensorUnitsType
  <2>8. /\ PartRead = start \o <<>> /\ PartRead' = start \o name
    BY <2>1, <2>6 DEF PartRead, InRecord
  <2> HIDE DEF start
  <2>9. start \o <<>> = start
    BY <2>7, ConcatEmptySeq
  <2>10. SubSeq(file, 1, position) = Records \o start /\ Records \in Seq(Nat)
    <3>1. SubSeq(file, 1, position) = Records \o PartRead
      BY <2>1 DEF WholeInv, ReadSoFar, Records
    <3>2. Records \in Seq(Nat)
      BY <2>1, RecordsType
    <3> QED BY <2>8, <2>9, <3>1, <3>2
  <2>11. (Records \o start) \o name = Records \o (start \o name)
    BY <2>3, <2>7, <2>10, NumbersAssociative
  <2>12. ReadSoFar'
    <3>1. Records' = Records
      BY <2>1 DEF Records
    <3>2. SubSeq(file', 1, position') = Records' \o PartRead'
      BY <2>1, <2>5, <2>8, <2>10, <2>11, <3>1
    <3> QED BY <3>2 DEF ReadSoFar, Records
  <2> QED BY <2>1, <2>4, <2>12 DEF WholeInv, NotYetRead, Finished
<1> QED BY <1>1, <1>2

\* The record of the tensor that is put together from its parts.
LEMMA WholePayload == IInv /\ IInv' /\ Counted /\ WholeInv /\ ReadPayload => WholeInv'
<1> SUFFICES ASSUME IInv, IInv', Counted, WholeInv, ReadPayload PROVE WholeInv'
  OBVIOUS
<1>1. CASE Reject
  BY <1>1, WholeReject DEF ReadPayload
<1>2. CASE ~Reject
  <2> DEFINE n == PayloadUnits
             values == Ahead(n)
             t == [name |-> tensor.name, type |-> tensor.type,
                   shape |-> tensor.shape, payload |-> values]
             start == (TensorUnits \o tensor.shape) \o tensor.name
             text == Text(loaded)
             r == RecordBytes(t)
             header == GlobalHeader(config, tensorCount)
  <2>1. /\ Readable(n) /\ Consume(n)
        /\ loaded' = Append(loaded, t) /\ tensor' = NoTensor
        /\ stage = "payload" /\ stage' = "record"
        /\ UNCHANGED <<file, config, tensorCount, total>>
    BY <1>2 DEF ReadPayload
  <2>2. Locals /\ n \in Nat
    BY PayloadType DEF IInv
  <2>3. values \in Seq(Nat) /\ Len(values) = n
    BY <2>1, <2>2, AheadUnits
  <2>4. Sized' /\ position' = position + n
    BY <2>1, <2>2, SizedLoad DEF WholeInv
  <2>5. SubSeq(file, 1, position') = SubSeq(file, 1, position) \o values
    BY <2>1, <2>2, <2>4, Longer
  <2>6. loaded \in Seq(Storable) /\ t \in Storable
    <3>1. loaded \in Seq(Storable)
      BY LoadedStorable
    <3>2. loaded' \in Seq(Storable)
      <4>1. loaded' \in Seq(Tensors) /\ \A i \in 1..Len(loaded') : ValidTensor(loaded'[i])
        BY DEF IInv, Locals, Loaded, ValidTensor
      <4>2. Len(loaded') \in Nat /\ loaded' \in [1..Len(loaded') -> Tensors]
        BY <4>1, LenProperties
      <4>3. \A i \in 1..Len(loaded') : loaded'[i] \in Storable
        BY <4>1, <4>2 DEF ValidTensor, Storable
      <4>4. loaded' \in [1..Len(loaded') -> Storable]
        BY <4>2, <4>3
      <4> QED BY <4>2, <4>4, SeqDef
    <3>3. t \in Tensors
      BY <2>2, <2>3 DEF Locals, Headers, Tensors
    <3> HIDE DEF t
    <3>4. Len(loaded') = Len(loaded) + 1 /\ loaded'[Len(loaded) + 1] = t /\ Len(loaded) \in Nat
      BY <2>1, <3>3, AppendProperties, LenProperties DEF IInv, Locals
    <3>5. Len(loaded) + 1 \in 1..Len(loaded')
      BY <3>4
    <3>6. loaded'[Len(loaded) + 1] \in Storable
      BY <3>2, <3>5, ElementOfSeq
    <3> QED BY <3>1, <3>4, <3>6
  <2>7. r = start \o values
    <3>1. /\ tensor.nameLength = Len(tensor.name) /\ tensor.rank = Len(tensor.shape)
          /\ tensor.elementCount = ElementCount(tensor.shape) /\ tensor.payloadSize = n
      BY <2>1 DEF IInv, NameRead, ShapeRead
    <3>2. TensorHeader(t) = TensorUnits
      <4> HIDE DEF values, n
      <4> QED BY <2>3, <3>1 DEF TensorHeader, TensorUnits
    <3> QED BY <3>2 DEF RecordBytes
  <2>8. start \in Seq(Nat)
    BY <2>2, TensorUnitsType
  <2>9. PartRead = start /\ PartRead' = <<>>
    BY <2>1 DEF PartRead, InRecord
  <2>10. r \in Seq(Nat) /\ text \in Seq(Nat)
    <3> HIDE DEF t
    <3> QED BY <2>6, RecordParts, TextType
  <2>11. Text(loaded') = text \o r
    <3> HIDE DEF t
    <3> QED BY <2>1, <2>6, TextOfAppend
  <2>12. header \in Seq(Nat)
    <3>1. config \in Nat /\ tensorCount \in Nat
      BY <2>1, ConfigType, SizesType DEF IInv, Locals
    <3> QED BY <3>1, GlobalHeaderType
  <2>13. SubSeq(file, 1, position) = (header \o text) \o start
    BY <2>1, <2>9 DEF WholeInv, ReadSoFar
  <2>14. Sized' /\ UNCHANGED <<file, config, tensorCount>>
    BY <2>1, <2>4
  <2> HIDE DEF start, r, text, header, values, n, t
  <2>15. header \o text \in Seq(Nat)
    BY <2>10, <2>12, ConcatProperties
  <2>16. ((header \o text) \o start) \o values = (header \o text) \o (start \o values)
    <3> DEFINE before == header \o text
    <3>1. before \in Seq(Nat)
      BY <2>15
    <3> HIDE DEF before
    <3>2. (before \o start) \o values = before \o (start \o values)
      BY <2>3, <2>8, <3>1, NumbersAssociative
    <3> QED BY <3>2 DEF before
  <2>17. (header \o text) \o r = header \o (text \o r)
    BY <2>10, <2>12, NumbersAssociative
  <2>18. header \o (text \o r) \in Seq(Nat)
    <3>1. text \o r \in Seq(Nat)
      BY <2>10, ConcatProperties
    <3> QED BY <2>12, <3>1, ConcatProperties
  <2>19. (header \o (text \o r)) \o <<>> = header \o (text \o r)
    BY <2>18, ConcatEmptySeq
  <2>20. SubSeq(file, 1, position') = (header \o (text \o r)) \o <<>>
    BY <2>5, <2>7, <2>13, <2>16, <2>17, <2>19
  <2>21. GlobalHeader(config', tensorCount') = header
    BY <2>14 DEF header
  <2>22. SubSeq(file', 1, position')
           = (GlobalHeader(config', tensorCount') \o Text(loaded')) \o PartRead'
    BY <2>9, <2>11, <2>14, <2>20, <2>21
  <2>23. ReadSoFar'
    BY <2>22 DEF ReadSoFar
  <2> QED BY <2>1, <2>14, <2>23 DEF WholeInv, NotYetRead, Finished
<1> QED BY <1>1, <1>2

LEMMA WholeFinish == IInv /\ WholeInv /\ Finish => WholeInv'
<1> SUFFICES ASSUME IInv, WholeInv, Finish PROVE WholeInv'
  OBVIOUS
<1>1. CASE Reject
  BY <1>1, WholeReject DEF Finish
<1>2. CASE ~Reject
  <2>1. /\ stage = "record" /\ stage' = "accepted" /\ Len(loaded) = tensorCount
        /\ remaining = 0
        /\ UNCHANGED <<file, position, remaining, config, tensorCount, tensor, total, loaded>>
    BY <1>2 DEF Finish, AtEnd
  <2>2. position = Len(file)
    BY <2>1 DEF WholeInv, Sized, IInv, Locals
  <2>3. ReadSoFar'
    <3>1. PartRead = <<>> /\ PartRead' = <<>>
      BY <2>1 DEF PartRead, InRecord
    <3>2. SubSeq(file, 1, position)
            = (GlobalHeader(config, tensorCount) \o Text(loaded)) \o PartRead
      BY <2>1 DEF WholeInv, ReadSoFar
    <3> QED BY <2>1, <3>1, <3>2 DEF ReadSoFar
  <2> QED BY <2>1, <2>2, <2>3 DEF WholeInv, Sized, NotYetRead, Finished
<1> QED BY <1>1, <1>2

LEMMA WholeLoad == IInv /\ IInv' /\ Counted /\ WholeInv /\ Load => WholeInv'
BY WholeGlobalHeader, WholeTensorHeader, WholeShape, WholeName, WholePayload, WholeFinish
   DEF Load

\* A file that is accepted is what the writer writes.
LEMMA AcceptedWhole ==
  IInv /\ Counted /\ WholeInv /\ stage = "accepted" => file = Bytes(config, loaded)
<1> SUFFICES ASSUME IInv, Counted, WholeInv, stage = "accepted"
             PROVE  file = Bytes(config, loaded)
  OBVIOUS
<1>1. config \in Nat /\ loaded \in Seq(Storable)
  BY ConfigType, LoadedStorable
<1>2. Bytes(config, loaded) = GlobalHeader(config, Len(loaded)) \o Text(loaded)
      /\ Bytes(config, loaded) \in Seq(Nat)
  BY <1>1, BytesAre
<1>3. SubSeq(file, 1, position) = Bytes(config, loaded) \o <<>>
  BY <1>2 DEF WholeInv, ReadSoFar, Finished, PartRead, InRecord
<1>4. SubSeq(file, 1, position) = file
  <2>1. file \in Seq(Nat) /\ position = Len(file)
    BY DEF IInv, Locals, WholeInv, Finished
  <2> QED BY <2>1, SubSeqFull
<1>5. Bytes(config, loaded) \o <<>> = Bytes(config, loaded)
  BY <1>2, ConcatEmptySeq
<1> QED BY <1>3, <1>4, <1>5

LEMMA AcceptedValid ==
  IInv /\ Counted /\ stage = "accepted" => config \in Configs /\ Valid(loaded)
<1> SUFFICES ASSUME IInv, Counted, stage = "accepted" PROVE config \in Configs /\ Valid(loaded)
  OBVIOUS
<1>1. WellFormed(loaded)
  BY WellFormedIfAccepted
<1>2. total = TotalSize(loaded) + 0 /\ total <= MaxTotalPayload /\ config \in Configs
  BY SizesType DEF Counted, InRecord, IInv, Locals
<1>3. TotalSize(loaded) \in Nat
  <2>1. loaded \in Seq(Tensors) /\ Len(loaded) <= Len(loaded)
    BY LenProperties DEF IInv, Locals
  <2> QED BY <2>1, TotalIsMonotonic
<1> QED BY <1>1, <1>2, <1>3 DEF Valid

-----------------------------------------------------------------------------
(* A file that begins like what the writer writes for some tensors is read *)
(* as these tensors, and if it is all of it and they are a checkpoint no    *)
(* check fails.                                                             *)

\* The units of one record in the file of a list of tensors.
LEMMA RecordUnits ==
  ASSUME NEW c \in Nat, NEW tensors \in Seq(Storable), NEW k \in 0..(Len(tensors) - 1)
  PROVE  LET t == tensors[k + 1]
             b == Bytes(c, tensors)
             o == Offset(tensors, k)
             afterShape == o + 6 + Len(t.shape)
             afterName == afterShape + Len(t.name)
             after == afterName + Len(t.payload)
         IN  /\ t \in Storable /\ o \in Nat /\ Len(b) \in Nat
             /\ afterShape \in Nat /\ afterName \in Nat /\ after \in Nat
             /\ after <= Len(b) /\ Offset(tensors, k + 1) = after
             /\ \A i \in 1..6 : b[o + i] = TensorHeader(t)[i]
             /\ \A i \in 1..Len(t.shape) : b[(o + 6) + i] = t.shape[i]
             /\ \A i \in 1..Len(t.name) : b[afterShape + i] = t.name[i]
             /\ \A i \in 1..Len(t.payload) : b[afterName + i] = t.payload[i]
<1> DEFINE t == tensors[k + 1]
           b == Bytes(c, tensors)
           o == Offset(tensors, k)
           r == RecordBytes(t)
           x == Len(t.shape)
           y == Len(t.name)
           z == Len(t.payload)
<1>1. t \in Storable
  BY UptoNext
<1>2. x \in Nat /\ y \in Nat /\ z \in Nat
  <2> HIDE DEF t
  <2> QED BY <1>1, StorableType
<1>3. /\ o \in Nat /\ Len(r) \in Nat /\ o + Len(r) <= Len(b)
      /\ \A i \in 1..Len(r) : b[o + i] = r[i]
      /\ Offset(tensors, k + 1) = o + Len(r)
  BY NextRecord
<1>4. /\ Len(r) = 6 + x + y + z
      /\ \A i \in 1..6 : r[i] = TensorHeader(t)[i]
      /\ \A i \in 1..x : r[6 + i] = t.shape[i]
      /\ \A i \in 1..y : r[6 + x + i] = t.name[i]
      /\ \A i \in 1..z : r[6 + x + y + i] = t.payload[i]
  <2> HIDE DEF t
  <2> QED BY <1>1, RecordParts
<1>5. Len(b) \in Nat
  BY OffsetEnds
<1> HIDE DEF t, b, o, r, x, y, z
<1>6. \A i \in 1..6 : b[o + i] = TensorHeader(t)[i]
  <2> TAKE i \in 1..6
  <2>1. i \in 1..Len(r)
    BY <1>2, <1>4
  <2> QED BY <1>3, <1>4, <2>1
<1>7. \A i \in 1..x : b[(o + 6) + i] = t.shape[i]
  <2> TAKE i \in 1..x
  <2>0. i \in Nat /\ 1 <= i /\ i <= x
    BY <1>2
  <2>1. 6 + i \in 1..Len(r) /\ (o + 6) + i = o + (6 + i)
    BY <1>2, <1>3, <1>4, <2>0
  <2> QED BY <1>3, <1>4, <2>1
<1>8. \A i \in 1..y : b[(o + 6 + x) + i] = t.name[i]
  <2> TAKE i \in 1..y
  <2>0. i \in Nat /\ 1 <= i /\ i <= y
    BY <1>2
  <2>1. 6 + x + i \in 1..Len(r) /\ (o + 6 + x) + i = o + (6 + x + i)
    BY <1>2, <1>3, <1>4, <2>0
  <2> QED BY <1>3, <1>4, <2>1
<1>9. \A i \in 1..z : b[(o + 6 + x + y) + i] = t.payload[i]
  <2> TAKE i \in 1..z
  <2>0. i \in Nat /\ 1 <= i /\ i <= z
    BY <1>2
  <2>1. 6 + x + y + i \in 1..Len(r) /\ (o + 6 + x + y) + i = o + (6 + x + y + i)
    BY <1>2, <1>3, <1>4, <2>0
  <2> QED BY <1>3, <1>4, <2>1
<1>10. /\ o + 6 + x \in Nat /\ o + 6 + x + y \in Nat /\ o + 6 + x + y + z \in Nat
       /\ o + 6 + x + y + z = o + Len(r)
  BY <1>2, <1>3, <1>4
<1> QED BY <1>1, <1>3, <1>5, <1>6, <1>7, <1>8, <1>9, <1>10 DEF t, b, o, x, y, z

\* The same, one part at a time.
LEMMA OffsetOfNext ==
  ASSUME NEW c \in Nat, NEW tensors \in Seq(Storable), NEW k \in 0..(Len(tensors) - 1)
  PROVE  Offset(tensors, k + 1)
           = Offset(tensors, k) + 6 + Len(tensors[k + 1].shape) + Len(tensors[k + 1].name)
               + Len(tensors[k + 1].payload)
BY RecordUnits

LEMMA ShapeUnits ==
  ASSUME NEW c \in Nat, NEW tensors \in Seq(Storable), NEW k \in 0..(Len(tensors) - 1)
  PROVE  \A i \in 1..Len(tensors[k + 1].shape) :
           Bytes(c, tensors)[(Offset(tensors, k) + 6) + i] = tensors[k + 1].shape[i]
BY RecordUnits

LEMMA NameUnits ==
  ASSUME NEW c \in Nat, NEW tensors \in Seq(Storable), NEW k \in 0..(Len(tensors) - 1)
  PROVE  \A i \in 1..Len(tensors[k + 1].name) :
           Bytes(c, tensors)[(Offset(tensors, k) + 6 + Len(tensors[k + 1].shape)) + i]
             = tensors[k + 1].name[i]
BY RecordUnits

LEMMA PayloadUnitsAre ==
  ASSUME NEW c \in Nat, NEW tensors \in Seq(Storable), NEW k \in 0..(Len(tensors) - 1)
  PROVE  \A i \in 1..Len(tensors[k + 1].payload) :
           Bytes(c, tensors)[(Offset(tensors, k) + 6 + Len(tensors[k + 1].shape)
                                + Len(tensors[k + 1].name)) + i]
             = tensors[k + 1].payload[i]
BY RecordUnits

\* Every record takes some units.
LEMMA RoomForRecords ==
  ASSUME NEW c \in Nat, NEW tensors \in Seq(Storable), WellFormed(tensors)
  PROVE  4 + 9 * Len(tensors) <= Len(Bytes(c, tensors))
<1> DEFINE S == {k \in Nat : k <= Len(tensors) => 4 + 9 * k <= Offset(tensors, k)}
<1>1. Len(tensors) \in Nat
  BY LenProperties
<1>2. 0 \in S
  BY OffsetEnds
<1>3. ASSUME NEW k \in Nat, k \in S, k + 1 <= Len(tensors)
      PROVE  4 + 9 * (k + 1) <= Offset(tensors, k + 1)
  <2> DEFINE t == tensors[k + 1]
  <2>1. k \in 0..(Len(tensors) - 1) /\ k + 1 \in 1..Len(tensors)
    BY <1>1, <1>3
  <2>2. /\ t \in Storable /\ Offset(tensors, k) \in Nat
        /\ Offset(tensors, k + 1)
             = Offset(tensors, k) + 6 + Len(t.shape) + Len(t.name) + Len(t.payload)
    <3> HIDE DEF t
    <3>1. Offset(tensors, k + 1)
            = Offset(tensors, k) + 6 + Len(tensors[k + 1].shape) + Len(tensors[k + 1].name)
                + Len(tensors[k + 1].payload)
      BY <2>1, OffsetOfNext
    <3>2. tensors[k + 1] \in Storable /\ Offset(tensors, k) \in Nat
      BY <2>1, RecordUnits
    <3> QED BY <3>1, <3>2 DEF t
  <2>3. Len(t.shape) \in 1..MaxRank /\ Len(t.name) \in 1..MaxNameSize
    BY <2>1 DEF WellFormed, ValidTensor
  <2> HIDE DEF t
  <2>4. Len(t.payload) \in Nat \ {0} /\ Len(t.shape) \in Nat /\ Len(t.name) \in Nat
    BY <2>2, StorableType
  <2>5. 4 + 9 * k <= Offset(tensors, k)
    BY <1>1, <1>3
  <2>6. 1 <= Len(t.shape) /\ 1 <= Len(t.name) /\ 1 <= Len(t.payload)
    <3>1. MaxRank \in Nat /\ MaxNameSize \in Nat
      BY SizesType
    <3> QED BY <2>3, <2>4, <3>1
  <2> DEFINE x == Len(t.shape)
             y == Len(t.name)
             z == Len(t.payload)
             o == Offset(tensors, k)
             next == Offset(tensors, k + 1)
  <2>7. /\ k \in Nat /\ o \in Nat /\ x \in Nat /\ y \in Nat /\ z \in Nat
        /\ 1 <= x /\ 1 <= y /\ 1 <= z /\ next = o + 6 + x + y + z /\ 4 + 9 * k <= o
    BY <1>3, <2>2, <2>4, <2>5, <2>6
  <2> HIDE DEF x, y, z, o, next
  <2>8. 4 + 9 * (k + 1) <= next
    BY ONLY <2>7
  <2> QED BY <2>8 DEF next
<1>4. \A k \in Nat : k \in S
  <2>1. \A k \in Nat : k \in S => k + 1 \in S
    BY <1>3
  <2> HIDE DEF S
  <2> QED BY <1>2, <2>1, Induction
<1>5. 4 + 9 * Len(tensors) <= Offset(tensors, Len(tensors))
  BY <1>1, <1>4
<1> QED BY <1>5, OffsetEnds

\* The file as far as it goes.
Begins(c, tensors) ==
  /\ Len(file) <= Len(Bytes(c, tensors))
  /\ \A i \in 1..Len(file) : file[i] = Bytes(c, tensors)[i]

Follows(c, tensors) ==
  LET k == Len(loaded)
      t == tensors[k + 1]
      o == Offset(tensors, k)
  IN  stage \notin {"closed", "header", "rejected"} =>
        /\ config = c /\ tensorCount = Len(tensors)
        /\ loaded = Upto(tensors, k)
        /\ stage \in {"record", "accepted"} => position = o
        /\ stage = "shape" => position = o + 6
        /\ stage = "name" => position = o + 6 + Len(t.shape)
        /\ stage = "payload" => position = o + 6 + Len(t.shape) + Len(t.name)
        /\ InRecord => /\ tensor.nameLength = Len(t.name) /\ tensor.type = t.type
                       /\ tensor.rank = Len(t.shape) /\ tensor.payloadSize = Len(t.payload)
                       /\ tensor.elementCount = ElementCount(t.shape)
        /\ stage \in {"name", "payload"} => tensor.shape = t.shape
        /\ stage = "payload" => tensor.name = t.name

\* All of it, when the file was opened and now.
Entire(c, tensors) ==
  /\ c \in Configs /\ Valid(tensors)
  /\ Len(file) = Len(Bytes(c, tensors))
  /\ position + remaining = Len(file)

LEMMA AheadAre ==
  ASSUME Locals, NEW n \in Nat, Readable(n)
  PROVE  \A i \in 1..n : Ahead(n)[i] = file[position + i] /\ position + i \in 1..Len(file)
<1>1. /\ position \in Nat /\ file \in Seq(Nat) /\ position + n <= Len(file)
      /\ Len(file) \in Nat
  BY LenProperties DEF Locals, Readable
<1> DEFINE first == position + 1
           last == position + n
<1>2. first \in Int /\ last \in Int /\ \A i \in first..last : i \in 1..Len(file)
  BY <1>1
<1>3. \A i \in first..last : file[i] \in Nat
  BY <1>1, <1>2, ElementOfSeq
<1>4. \A i \in 1..n : /\ i \in 1..(last - first + 1) /\ first + i - 1 = position + i
                      /\ position + i \in 1..Len(file)
  BY <1>1
<1> HIDE DEF first, last
<1>5. \A i \in 1..(last - first + 1) : SubSeq(file, first, last)[i] = file[first + i - 1]
  BY <1>2, <1>3, SubSeqProperties
<1> QED BY <1>4, <1>5 DEF Ahead, first, last

\* What the writer writes from here on.
GoesOn(c, tensors, s) == \A i \in 1..Len(s) : Bytes(c, tensors)[position + i] = s[i]

\* What is ahead, when the file goes on like this.
LEMMA AheadIs ==
  ASSUME Locals, NEW c, NEW tensors, Begins(c, tensors),
         NEW s \in Seq(Nat), GoesOn(c, tensors, s), Readable(Len(s))
  PROVE  Ahead(Len(s)) = s
<1> DEFINE n == Len(s)
<1>1. n \in Nat
  BY LenProperties
<1> HIDE DEF n
<1>2. Readable(n)
  BY DEF n
<1>3. Ahead(n) \in Seq(Nat) /\ Len(Ahead(n)) = n
  BY <1>1, <1>2, AheadUnits
<1>4. \A i \in 1..n : Ahead(n)[i] = s[i]
  <2>1. \A i \in 1..n : Ahead(n)[i] = file[position + i] /\ position + i \in 1..Len(file)
    BY <1>1, <1>2, AheadAre
  <2> QED BY <2>1 DEF Begins, GoesOn, n
<1> HIDE DEF Ahead
<1>5. Ahead(n) = s
  BY <1>3, <1>4, SeqEqual DEF n
<1> QED BY <1>5 DEF n

\* There are n units ahead, when the file goes on that long.
LEMMA ReadableIf ==
  ASSUME Locals, NEW c \in Nat, NEW tensors \in Seq(Storable), Entire(c, tensors),
         NEW n \in Nat, position + n <= Len(Bytes(c, tensors))
  PROVE  Readable(n) /\ remaining = Len(Bytes(c, tensors)) - position
BY OffsetEnds DEF Locals, Entire, Readable

LEMMA QuotientBound ==
  ASSUME NEW m \in Int, NEW n \in Int, 0 < n, NEW w \in Int, m * n <= w
  PROVE  m <= w \div n
OBVIOUS

LEMMA FollowsGlobalHeader ==
  ASSUME NEW c \in Nat, NEW tensors \in Seq(Storable), IInv, NotYetRead,
         Begins(c, tensors), ReadGlobalHeader
  PROVE  Follows(c, tensors)' /\ (Entire(c, tensors) => stage' # "rejected")
<1> DEFINE h == Ahead(4)
           b == Bytes(c, tensors)
           n == Len(tensors)
<1>1. stage = "header" /\ position = 0 /\ loaded = <<>> /\ Locals /\ Len(loaded) = 0
  BY DEF ReadGlobalHeader, NotYetRead, IInv, Started
<1>2. Len(b) \in Nat /\ 4 <= Len(b) /\ n \in Nat
      /\ \A i \in 1..4 : b[i] = GlobalHeader(c, n)[i]
  BY OffsetEnds, LenProperties
<1>3. GlobalHeader(c, n) \in Seq(Nat) /\ Len(GlobalHeader(c, n)) = 4
  BY <1>2, GlobalHeaderType
<1>4. Readable(4) => h = GlobalHeader(c, n)
  <2>1. \A i \in 1..4 : b[position + i] = GlobalHeader(c, n)[i]
    BY <1>1, <1>2
  <2> HIDE DEF b, n
  <2>2. ASSUME Readable(4) PROVE h = GlobalHeader(c, n)
    <3> DEFINE s == GlobalHeader(c, n)
    <3>1. s \in Seq(Nat) /\ Len(s) = 4 /\ \A i \in 1..4 : b[position + i] = s[i]
      BY <1>3, <2>1
    <3> HIDE DEF s
    <3>2. GoesOn(c, tensors, s) /\ Readable(Len(s))
      BY <2>2, <3>1 DEF b, GoesOn
    <3>3. Ahead(Len(s)) = s
      BY <1>1, <3>1, <3>2, AheadIs
    <3> QED BY <3>1, <3>3 DEF s
  <2> QED BY <2>2
<1>5. CASE ~Reject
  <2>1. /\ Readable(4) /\ Consume(4) /\ tensorCount' = h[2] /\ config' = h[3]
        /\ stage' = "record" /\ UNCHANGED <<file, tensor, total, loaded>>
    BY <1>5 DEF ReadGlobalHeader, GlobalHeaderSize
  <2>2. tensorCount' = n /\ config' = c /\ position' = 4
    <3>1. h = <<Magic, n, c, 0>>
      BY <1>4, <2>1 DEF GlobalHeader
    <3> HIDE DEF h
    <3> QED BY <1>1, <2>1, <3>1 DEF Consume
  <2>3. Len(loaded') = 0 /\ loaded' = Upto(tensors, 0) /\ Offset(tensors, 0) = 4
    BY <1>1, <2>1, UptoAll, OffsetEnds
  <2> QED BY <2>1, <2>2, <2>3 DEF Follows, InRecord
<1>6. CASE Reject
  <2>1. stage' = "rejected"
    BY <1>6 DEF Reject
  <2>2. ASSUME Entire(c, tensors) PROVE FALSE
    <3>1. Readable(4) /\ remaining = Len(b)
      <4>1. position + 4 <= Len(Bytes(c, tensors))
        BY <1>1, <1>2
      <4>2. Readable(4) /\ remaining = Len(Bytes(c, tensors)) - position
        BY <1>1, <2>2, <4>1, ReadableIf
      <4> QED BY <1>1, <1>2, <4>2
    <3>2. h = <<Magic, n, c, 0>>
      BY <1>4, <3>1 DEF GlobalHeader
    <3>3. c \in Configs /\ WellFormed(tensors)
      BY <2>2 DEF Entire, Valid
    <3>4. CountFits(n)
      <4>1. 4 + 9 * n <= Len(b)
        BY <3>3, RoomForRecords
      <4>2. n <= (Len(b) - 4) \div 9
        <5> HIDE DEF n, b
        <5>1. n * 9 <= Len(b) - 4 /\ Len(b) - 4 \in Int /\ n \in Int /\ 9 \in Int /\ 0 < 9
          BY <1>2, <4>1
        <5> QED BY <5>1, QuotientBound
      <4>3. n <= MaxTensors
        BY <3>3 DEF WellFormed
      <4>4. GlobalHeaderSize = 4 /\ MinimumRecordSize = 9
        BY DEF GlobalHeaderSize, MinimumRecordSize, TensorHeaderSize
      <4> QED BY <3>1, <4>2, <4>3, <4>4 DEF CountFits
    <3> HIDE DEF h
    <3>5. GoodGlobalHeader(h)
      BY <3>2, <3>3, <3>4 DEF GoodGlobalHeader
    <3>6. ReadGlobalHeader => stage' = "record"
      BY <3>1, <3>5 DEF ReadGlobalHeader, GlobalHeaderSize, h
    <3> QED BY <2>1, <3>6
  <2> QED BY <2>1, <2>2 DEF Follows
<1> QED BY <1>5, <1>6

\* Where the record starts, in the middle of it.
LEMMA FollowsPlace ==
  ASSUME NEW c \in Nat, NEW tensors \in Seq(Storable), IInv, Follows(c, tensors),
         stage \notin {"closed", "header", "rejected"}, Len(loaded) < tensorCount
  PROVE  Len(loaded) \in 0..(Len(tensors) - 1)
<1>1. tensorCount = Len(tensors) /\ Len(loaded) \in Nat /\ Len(tensors) \in Nat
  BY LenProperties DEF Follows, IInv, Locals
<1> QED BY <1>1

LEMMA FollowsTensorHeader ==
  ASSUME NEW c \in Nat, NEW tensors \in Seq(Storable), IInv, Counted, Begins(c, tensors),
         Follows(c, tensors), ReadTensorHeader
  PROVE  Follows(c, tensors)' /\ (Entire(c, tensors) => stage' # "rejected")
<1> DEFINE h == Ahead(6)
           b == Bytes(c, tensors)
           k == Len(loaded)
           t == tensors[k + 1]
           s == TensorHeader(t)
<1>1. stage = "record" /\ k \in 0..(Len(tensors) - 1) /\ Locals
  BY FollowsPlace DEF ReadTensorHeader, IInv
<1>2. position = Offset(tensors, k) /\ loaded = Upto(tensors, k)
      /\ config = c /\ tensorCount = Len(tensors)
  BY <1>1 DEF Follows
<1>3. /\ t \in Storable /\ Len(b) \in Nat /\ Offset(tensors, k) \in Nat
      /\ Offset(tensors, k) + 6 + Len(t.shape) + Len(t.name) + Len(t.payload) <= Len(b)
      /\ \A i \in 1..6 : b[Offset(tensors, k) + i] = s[i]
  BY <1>1, RecordUnits
<1>4. /\ s \in Seq(Nat) /\ Len(s) = 6
      /\ s[1] = Len(t.name) /\ s[2] = t.type /\ s[3] = Len(t.shape) /\ s[4] = 0
      /\ s[5] = ElementCount(t.shape) /\ s[6] = Len(t.payload)
      /\ Len(t.name) \in Nat /\ Len(t.shape) \in Nat /\ Len(t.payload) \in Nat
  <2> HIDE DEF t
  <2> QED BY <1>3, TensorHeaderType, StorableType
<1>5. Readable(6) => h = s
  <2>1. \A i \in 1..6 : Bytes(c, tensors)[position + i] = s[i]
    BY <1>2, <1>3
  <2> HIDE DEF s
  <2>2. ASSUME Readable(6) PROVE Ahead(6) = s
    <3>1. GoesOn(c, tensors, s) /\ Readable(Len(s))
      BY <1>4, <2>1, <2>2 DEF GoesOn
    <3>2. Ahead(Len(s)) = s
      BY <1>1, <1>4, <3>1, AheadIs
    <3> QED BY <1>4, <3>2
  <2> QED BY <2>2
<1>8. /\ position \in Nat /\ position + 6 <= Len(b)
      /\ Len(t.shape) + Len(t.name) + Len(t.payload) <= Len(b) - position - 6
  <2> DEFINE o == Offset(tensors, k)
             x == Len(t.shape)
             y == Len(t.name)
             z == Len(t.payload)
  <2>1. position = o /\ o \in Nat /\ Len(b) \in Nat /\ o + 6 + x + y + z <= Len(b)
    BY <1>2, <1>3
  <2>2. x \in Nat /\ y \in Nat /\ z \in Nat
    BY <1>4
  <2> HIDE DEF o, x, y, z, t, b
  <2>3. position \in Nat /\ position + 6 <= Len(b) /\ x + y + z <= Len(b) - position - 6
    BY <2>1, <2>2
  <2> QED BY <2>3 DEF x, y, z
<1> HIDE DEF h, b, s, t
<1>6. CASE ~Reject
  <2>1. /\ Readable(6) /\ Consume(6) /\ tensor' = Header(h)
        /\ stage' = "shape" /\ UNCHANGED <<file, config, tensorCount, loaded>>
    BY <1>6 DEF ReadTensorHeader, TensorHeaderSize, h
  <2>2. /\ tensor'.nameLength = Len(t.name) /\ tensor'.type = t.type
        /\ tensor'.rank = Len(t.shape) /\ tensor'.payloadSize = Len(t.payload)
        /\ tensor'.elementCount = ElementCount(t.shape)
    BY <1>4, <1>5, <2>1 DEF Header
  <2>3. position' = Offset(tensors, k) + 6
    BY <1>2, <2>1 DEF Consume
  <2> QED BY <1>2, <2>1, <2>2, <2>3 DEF Follows, t
<1>7. CASE Reject
  <2>1. stage' = "rejected"
    BY <1>7 DEF Reject
  <2>2. ASSUME Entire(c, tensors) PROVE FALSE
    <3>1. Readable(6) /\ remaining = Len(b) - position
      <4>1. position + 6 <= Len(Bytes(c, tensors))
        BY <1>8 DEF b
      <4> QED BY <1>1, <2>2, <4>1, ReadableIf DEF b
    <3>2. /\ Header(h).nameLength = Len(t.name) /\ Header(h).type = t.type
          /\ Header(h).rank = Len(t.shape) /\ Header(h).payloadSize = Len(t.payload)
          /\ Header(h).flags = 0
      BY <1>4, <1>5, <3>1 DEF Header
    <3>3. WellFormed(tensors) /\ TotalSize(tensors) <= MaxTotalPayload
      BY <2>2 DEF Entire, Valid
    <3>4. ValidTensor(t)
      <4>1. k + 1 \in 1..Len(tensors)
        BY <1>1
      <4> QED BY <3>3, <4>1 DEF WellFormed, t
    <3>5. total + Len(t.payload) <= MaxTotalPayload /\ total \in Nat
      <4>1. total = TotalSize(loaded) + 0 /\ total \in Nat
        BY <1>1 DEF Counted, InRecord, Locals
      <4> DEFINE u == Upto(tensors, k)
                 v == Upto(tensors, k + 1)
      <4>2. v = Append(u, t) /\ k \in 0..Len(tensors) /\ k + 1 \in 0..Len(tensors)
        BY <1>1, UptoNext DEF t
      <4>3. u \in Seq(Storable) /\ v \in Seq(Storable) /\ Len(v) = k + 1
            /\ \A i \in 1..(k + 1) : v[i] = tensors[i]
        BY <4>2, UptoType
      <4> HIDE DEF u, v
      <4>4. Storable \subseteq Tensors
        BY DEF Storable
      <4>5. t \in Tensors
        BY <1>3, <4>4
      <4>6. u \in Seq(Tensors)
        BY <4>3, <4>4, SeqMonotonic
      <4>7. v \in Seq(Tensors)
        BY <4>3, <4>4, SeqMonotonic
      <4>8. tensors \in Seq(Tensors)
        BY <4>4, SeqMonotonic
      <4>9. TotalSize(v) = TotalSize(u) + Len(t.payload)
            /\ TotalSize(u) \in Nat /\ Len(t.payload) \in Nat
        BY <4>2, <4>5, <4>6, TotalOfAppend
      <4>10. TotalSize(v) <= TotalSize(tensors)
        <5>1. Len(v) <= Len(tensors) /\ \A i \in 1..Len(v) : v[i] = tensors[i]
          BY <1>1, <4>3
        <5> QED BY <4>7, <4>8, <5>1, TotalIsMonotonic
      <4>11. TotalSize(tensors) \in Nat
        <5>1. Len(tensors) <= Len(tensors)
          BY <4>8, LenProperties
        <5> QED BY <4>8, <5>1, TotalIsMonotonic
      <4>12. loaded = u
        BY <1>2 DEF u
      <4> QED BY <3>3, <4>1, <4>9, <4>10, <4>11, <4>12, SizesType
    <3>6. RestOfRecord(Header(h)) <= remaining - 6
      <4>1. RestOfRecord(Header(h)) = Len(t.shape) + Len(t.name) + Len(t.payload)
        BY <3>2 DEF RestOfRecord
      <4> QED BY <1>8, <3>1, <4>1
    <3>7. TotalAllows(Header(h))
      BY <1>4, <3>2, <3>5, SizesType DEF TotalAllows
    <3>8. GoodTensorHeader(Header(h))
      <4> HIDE DEF k
      <4> QED BY <1>4, <3>2, <3>4, <3>6, <3>7 DEF GoodTensorHeader, ValidTensor, TensorHeaderSize
    <3>9. ReadTensorHeader => stage' = "shape"
      BY <3>1, <3>8 DEF ReadTensorHeader, TensorHeaderSize, h
    <3> QED BY <2>1, <3>9
  <2> QED BY <2>1, <2>2 DEF Follows
<1> QED BY <1>6, <1>7


\* In the middle of a record: which one, and its units.
LEMMA FollowsRecord ==
  ASSUME NEW c \in Nat, NEW tensors \in Seq(Storable), IInv, Follows(c, tensors), InRecord
  PROVE  LET k == Len(loaded)
             t == tensors[k + 1]
             b == Bytes(c, tensors)
             o == Offset(tensors, k)
         IN  /\ k \in 0..(Len(tensors) - 1) /\ t \in Storable
             /\ Len(t.name) \in Nat /\ Len(t.shape) \in Nat /\ Len(t.payload) \in Nat
             /\ o \in Nat /\ Len(b) \in Nat
             /\ o + 6 + Len(t.shape) + Len(t.name) + Len(t.payload) <= Len(b)
             /\ config = c /\ tensorCount = Len(tensors) /\ loaded = Upto(tensors, k)
             /\ tensor.nameLength = Len(t.name) /\ tensor.type = t.type
             /\ tensor.rank = Len(t.shape) /\ tensor.payloadSize = Len(t.payload)
             /\ tensor.elementCount = ElementCount(t.shape)
             /\ Entire(c, tensors) => ValidTensor(t)
<1> DEFINE k == Len(loaded)
           t == tensors[k + 1]
<1>1. k \in 0..(Len(tensors) - 1)
  BY FollowsPlace DEF IInv, HeaderRead, InRecord
<1>2. /\ t \in Storable /\ Offset(tensors, k) \in Nat /\ Len(Bytes(c, tensors)) \in Nat
      /\ Offset(tensors, k) + 6 + Len(t.shape) + Len(t.name) + Len(t.payload)
           <= Len(Bytes(c, tensors))
  BY <1>1, RecordUnits
<1>3. Len(t.name) \in Nat /\ Len(t.shape) \in Nat /\ Len(t.payload) \in Nat
  <2> HIDE DEF t
  <2> QED BY <1>2, StorableType
<1>4. Entire(c, tensors) => ValidTensor(t)
  <2>1. k + 1 \in 1..Len(tensors)
    BY <1>1
  <2> QED BY <2>1 DEF Entire, Valid, WellFormed
<1> QED BY <1>1, <1>2, <1>3, <1>4 DEF Follows, InRecord

\* What is read next of a record is there, if all of the file is, and is what
\* the writer wrote.
LEMMA PartAhead ==
  ASSUME NEW c \in Nat, NEW tensors \in Seq(Storable), IInv, Begins(c, tensors),
         NEW s \in Seq(Nat), GoesOn(c, tensors, s),
         position + Len(s) <= Len(Bytes(c, tensors))
  PROVE  /\ Readable(Len(s)) => Ahead(Len(s)) = s
         /\ Entire(c, tensors) => Readable(Len(s))
<1>1. Locals /\ Len(s) \in Nat
  BY LenProperties DEF IInv
<1>2. Readable(Len(s)) => Ahead(Len(s)) = s
  BY <1>1, AheadIs
<1>3. Entire(c, tensors) => Readable(Len(s))
  BY <1>1, ReadableIf
<1> QED BY <1>2, <1>3

LEMMA FollowsShape ==
  ASSUME NEW c \in Nat, NEW tensors \in Seq(Storable), IInv, Begins(c, tensors),
         Follows(c, tensors), ReadShape
  PROVE  Follows(c, tensors)' /\ (Entire(c, tensors) => stage' # "rejected")
<1> DEFINE b == Bytes(c, tensors)
           k == Len(loaded)
           t == tensors[k + 1]
           o == Offset(tensors, k)
           n == tensor.rank
           s == t.shape
<1>1. stage = "shape" /\ InRecord /\ position = o + 6
  BY DEF ReadShape, InRecord, Follows
<1>2. /\ k \in 0..(Len(tensors) - 1) /\ t \in Storable
      /\ Len(t.name) \in Nat /\ Len(s) \in Nat /\ Len(t.payload) \in Nat
      /\ o \in Nat /\ Len(b) \in Nat
      /\ o + 6 + Len(s) + Len(t.name) + Len(t.payload) <= Len(b)
      /\ config = c /\ tensorCount = Len(tensors) /\ loaded = Upto(tensors, k)
      /\ tensor.nameLength = Len(t.name) /\ tensor.type = t.type
      /\ n = Len(s) /\ tensor.payloadSize = Len(t.payload)
      /\ tensor.elementCount = ElementCount(s)
      /\ Entire(c, tensors) => ValidTensor(t)
  BY <1>1, FollowsRecord
<1>3. \A i \in 1..Len(s) : b[position + i] = s[i]
  <2>1. \A i \in 1..Len(s) : b[(o + 6) + i] = s[i]
    BY <1>2, ShapeUnits
  <2> HIDE DEF b, s, o, t
  <2> QED BY <1>1, <2>1
<1>4. s \in Seq(Nat)
  <2> HIDE DEF t
  <2> QED BY <1>2, StorableType
<1> HIDE DEF o, b, t
<1>5. position + Len(s) <= Len(b)
  <2> DEFINE x == Len(s)
             y == Len(t.name)
             z == Len(t.payload)
  <2>1. x \in Nat /\ y \in Nat /\ z \in Nat /\ o + 6 + x + y + z <= Len(b)
        /\ position = o + 6 /\ o \in Nat /\ Len(b) \in Nat
    BY <1>1, <1>2
  <2> HIDE DEF x, y, z
  <2>2. position + x <= Len(b)
    BY <2>1
  <2> QED BY <2>2 DEF x
<1>6. (Readable(n) => Ahead(n) = s) /\ (Entire(c, tensors) => Readable(n))
  <2> HIDE DEF s
  <2>1. GoesOn(c, tensors, s)
    BY <1>3 DEF GoesOn, b
  <2> QED BY <1>2, <1>4, <1>5, <2>1, PartAhead DEF b
<1>7. CASE ~Reject
  <2>1. /\ Readable(n) /\ Consume(n) /\ tensor' = [tensor EXCEPT !.shape = Ahead(n)]
        /\ stage' = "name" /\ UNCHANGED <<file, config, tensorCount, total, loaded>>
    BY <1>7 DEF ReadShape
  <2>2. tensor \in Headers
    BY DEF IInv, Locals
  <2>3. /\ tensor'.nameLength = tensor.nameLength /\ tensor'.type = tensor.type
        /\ tensor'.rank = n /\ tensor'.payloadSize = tensor.payloadSize
        /\ tensor'.elementCount = tensor.elementCount /\ tensor'.shape = s
    BY <1>6, <2>1, <2>2 DEF Headers
  <2>4. position' = o + 6 + Len(s)
    BY <1>1, <1>2, <2>1 DEF Consume
  <2> QED BY <1>2, <2>1, <2>3, <2>4 DEF Follows, t, o
<1>8. CASE Reject
  <2>1. stage' = "rejected"
    BY <1>8 DEF Reject
  <2>2. ASSUME Entire(c, tensors) PROVE FALSE
    <3>1. Readable(n) /\ Ahead(n) = s /\ ValidTensor(t)
      BY <1>2, <1>6, <2>2
    <3> DEFINE e == ElementCount(s)
               w == BytesPerElement(t.type)
               z == Len(t.payload)
    <3>2. /\ \A axis \in 1..Len(s) : s[axis] > 0 /\ s[axis] \in Nat
          /\ z = e * w /\ z <= MaxPayload
      <4>1. \A axis \in 1..Len(s) : s[axis] \in Nat
        BY <1>4, ElementOfSeq
      <4> QED BY <3>1, <4>1 DEF ValidTensor
    <3>3. e \in Nat /\ w \in Nat \ {0} /\ MaxPayload <= MaxWord /\ MaxWord \in Nat
      <4>1. \A axis \in 1..Len(s) : s[axis] \in Nat \ {0}
        BY <3>2
      <4>2. e \in Nat \ {0}
        BY <1>4, <4>1, ElementCountPositive
      <4>3. MaxPayload <= MaxWord /\ MaxWord \in Nat
        BY LimitsAssumption, FormatAssumption DEF LimitsAssumption, FormatAssumption
      <4> QED BY <4>2, <4>3, SizesType
    <3> HIDE DEF e, w, z
    <3>4. e * w <= MaxWord /\ z \in Nat /\ MaxPayload \in Nat
      <4>1. z \in Nat /\ MaxPayload \in Nat
        BY <1>2, SizesType DEF z
      <4> QED BY <3>2, <3>3, <4>1
    <3>5. e <= MaxWord \div w
      BY <3>3, <3>4, QuotientBound
    <3>6. e <= MaxWord
      <4>1. \A p \in Nat, q \in Nat \ {0}, m \in Nat : p * q <= m => p <= m
        <5>1. ASSUME NEW p \in Nat, NEW q \in Nat \ {0}, NEW m \in Nat, p * q <= m
              PROVE  p <= m
          <6>1. q = 1 + (q - 1) /\ q - 1 \in Nat
            OBVIOUS
          <6> DEFINE r == q - 1
          <6>2. p * (1 + r) = p + p * r /\ p * r \in Nat
            <7>1. r \in Nat
              BY <6>1
            <7> HIDE DEF r
            <7> QED BY <7>1
          <6> QED BY <5>1, <6>1, <6>2
        <5> QED BY <5>1
      <4> QED BY <3>3, <3>4, <4>1
    <3>7. ShapeMatches(s)
      BY <1>2, <3>2, <3>5, <3>6 DEF ShapeMatches, e, w, z
    <3>8. ReadShape => stage' = "name"
      BY <3>1, <3>7 DEF ReadShape
    <3> QED BY <2>1, <3>8
  <2> QED BY <2>1, <2>2 DEF Follows
<1> QED BY <1>7, <1>8


LEMMA FollowsName ==
  ASSUME NEW c \in Nat, NEW tensors \in Seq(Storable), IInv, Begins(c, tensors),
         Follows(c, tensors), ReadName
  PROVE  Follows(c, tensors)' /\ (Entire(c, tensors) => stage' # "rejected")
<1> DEFINE b == Bytes(c, tensors)
           k == Len(loaded)
           t == tensors[k + 1]
           o == Offset(tensors, k)
           n == tensor.nameLength
           s == t.name
<1>1. stage = "name" /\ InRecord /\ position = o + 6 + Len(t.shape) /\ tensor.shape = t.shape
  BY DEF ReadName, InRecord, Follows
<1>2. /\ k \in 0..(Len(tensors) - 1) /\ t \in Storable
      /\ Len(s) \in Nat /\ Len(t.shape) \in Nat /\ Len(t.payload) \in Nat
      /\ o \in Nat /\ Len(b) \in Nat
      /\ o + 6 + Len(t.shape) + Len(s) + Len(t.payload) <= Len(b)
      /\ config = c /\ tensorCount = Len(tensors) /\ loaded = Upto(tensors, k)
      /\ n = Len(s) /\ tensor.type = t.type
      /\ tensor.rank = Len(t.shape) /\ tensor.payloadSize = Len(t.payload)
      /\ tensor.elementCount = ElementCount(t.shape)
      /\ Entire(c, tensors) => ValidTensor(t)
  BY <1>1, FollowsRecord
<1>3. \A i \in 1..Len(s) : b[position + i] = s[i]
  <2>1. \A i \in 1..Len(s) : b[(o + 6 + Len(t.shape)) + i] = s[i]
    BY <1>2, NameUnits
  <2> HIDE DEF b, s, o, t
  <2> QED BY <1>1, <2>1
<1>4. s \in Seq(Nat)
  <2> HIDE DEF t
  <2> QED BY <1>2, StorableType
<1>5. \A i \in 1..Len(loaded) : loaded[i] = tensors[i] /\ i \in 1..Len(tensors) /\ i # k + 1
  <2>1. k \in 0..Len(tensors) /\ k \in Nat /\ Len(tensors) \in Nat
    BY <1>2, LenProperties
  <2>2. \A i \in 1..k : Upto(tensors, k)[i] = tensors[i]
    BY <2>1, UptoType
  <2> QED BY <1>2, <2>1, <2>2
<1> HIDE DEF o, b, t
<1>6. position + Len(s) <= Len(b)
  <2> DEFINE x == Len(t.shape)
             y == Len(s)
             z == Len(t.payload)
  <2>1. x \in Nat /\ y \in Nat /\ z \in Nat /\ o + 6 + x + y + z <= Len(b)
        /\ position = o + 6 + x /\ o \in Nat /\ Len(b) \in Nat
    BY <1>1, <1>2
  <2> HIDE DEF x, y, z
  <2>2. position + y <= Len(b)
    BY <2>1
  <2> QED BY <2>2 DEF y
<1>7. (Readable(n) => Ahead(n) = s) /\ (Entire(c, tensors) => Readable(n))
  <2> HIDE DEF s
  <2>1. GoesOn(c, tensors, s)
    BY <1>3 DEF GoesOn, b
  <2> QED BY <1>2, <1>4, <1>6, <2>1, PartAhead DEF b
<1>8. CASE ~Reject
  <2>1. /\ Readable(n) /\ Consume(n) /\ tensor' = [tensor EXCEPT !.name = Ahead(n)]
        /\ stage' = "payload" /\ UNCHANGED <<file, config, tensorCount, total, loaded>>
    BY <1>8 DEF ReadName
  <2>2. tensor \in Headers
    BY DEF IInv, Locals
  <2>3. /\ tensor'.nameLength = n /\ tensor'.type = tensor.type
        /\ tensor'.rank = tensor.rank /\ tensor'.payloadSize = tensor.payloadSize
        /\ tensor'.elementCount = tensor.elementCount /\ tensor'.shape = tensor.shape
        /\ tensor'.name = s
    BY <1>7, <2>1, <2>2 DEF Headers
  <2>4. position' = o + 6 + Len(t.shape) + Len(s)
    BY <1>1, <1>2, <2>1 DEF Consume
  <2> QED BY <1>1, <1>2, <2>1, <2>3, <2>4 DEF Follows, t, o
<1>9. CASE Reject
  <2>1. stage' = "rejected"
    BY <1>9 DEF Reject
  <2>2. ASSUME Entire(c, tensors) PROVE FALSE
    <3>1. Readable(n) /\ Ahead(n) = s /\ IsUtf8(s)
      BY <1>2, <1>7, <2>2 DEF ValidTensor
    <3>2. NewName(s)
      <4>1. \A i, j \in 1..Len(tensors) : i # j => tensors[i].name # tensors[j].name
        BY <2>2 DEF Entire, Valid, WellFormed
      <4>2. k + 1 \in 1..Len(tensors)
        BY <1>2
      <4> QED BY <1>5, <4>1, <4>2 DEF NewName, t
    <3>3. ReadName => stage' = "payload"
      BY <3>1, <3>2 DEF ReadName
    <3> QED BY <2>1, <3>3
  <2> QED BY <2>1, <2>2 DEF Follows
<1> QED BY <1>8, <1>9

LEMMA FollowsPayload ==
  ASSUME NEW c \in Nat, NEW tensors \in Seq(Storable), IInv, Begins(c, tensors),
         Follows(c, tensors), ReadPayload
  PROVE  Follows(c, tensors)' /\ (Entire(c, tensors) => stage' # "rejected")
<1> DEFINE b == Bytes(c, tensors)
           k == Len(loaded)
           t == tensors[k + 1]
           o == Offset(tensors, k)
           n == PayloadUnits
           s == t.payload
<1>1. /\ stage = "payload" /\ InRecord
      /\ position = o + 6 + Len(t.shape) + Len(t.name)
      /\ tensor.shape = t.shape /\ tensor.name = t.name
  BY DEF ReadPayload, InRecord, Follows
<1>2. /\ k \in 0..(Len(tensors) - 1) /\ t \in Storable
      /\ Len(t.name) \in Nat /\ Len(t.shape) \in Nat /\ Len(s) \in Nat
      /\ o \in Nat /\ Len(b) \in Nat
      /\ o + 6 + Len(t.shape) + Len(t.name) + Len(s) <= Len(b)
      /\ config = c /\ tensorCount = Len(tensors) /\ loaded = Upto(tensors, k)
      /\ tensor.type = t.type /\ tensor.payloadSize = Len(s)
      /\ Entire(c, tensors) => ValidTensor(t)
  BY <1>1, FollowsRecord
<1>3. \A i \in 1..Len(s) : b[position + i] = s[i]
  <2>1. \A i \in 1..Len(s) : b[(o + 6 + Len(t.shape) + Len(t.name)) + i] = s[i]
    BY <1>2, PayloadUnitsAre
  <2> HIDE DEF b, s, o, t
  <2> QED BY <1>1, <2>1
<1>4. s \in Seq(Nat) /\ [name |-> t.name, type |-> t.type, shape |-> t.shape, payload |-> s] = t
  <2> HIDE DEF t
  <2>1. s \in Seq(Nat)
    BY <1>2, StorableType
  <2>2. t \in Tensors
    BY <1>2 DEF Storable
  <2>3. [name |-> t.name, type |-> t.type, shape |-> t.shape, payload |-> t.payload] = t
    BY <2>2 DEF Tensors
  <2> QED BY <2>1, <2>3
<1>5. /\ Offset(tensors, k + 1) = o + 6 + Len(t.shape) + Len(t.name) + Len(s)
      /\ Upto(tensors, k + 1) = Append(Upto(tensors, k), t)
      /\ Len(Upto(tensors, k + 1)) = k + 1
  <2>1. Offset(tensors, k + 1) = o + 6 + Len(t.shape) + Len(t.name) + Len(s)
    <3>1. k \in 0..(Len(tensors) - 1)
      BY <1>2
    <3> HIDE DEF k
    <3> QED BY <3>1, OffsetOfNext
  <2>2. Upto(tensors, k + 1) = Append(Upto(tensors, k), t)
    BY <1>2, UptoNext
  <2>3. k + 1 \in 0..Len(tensors)
    BY <1>2
  <2>4. Len(Upto(tensors, k + 1)) = k + 1
    BY <2>3, UptoType
  <2> QED BY <2>1, <2>2, <2>4
<1> HIDE DEF o, b, t
<1>6. position + Len(s) <= Len(b)
  BY <1>1, <1>2
<1>7. n = Len(s)
  BY <1>1, <1>2 DEF IInv, ShapeRead
<1>8. (Readable(n) => Ahead(n) = s) /\ (Entire(c, tensors) => Readable(n))
  <2> HIDE DEF s, n
  <2>1. GoesOn(c, tensors, s)
    BY <1>3 DEF GoesOn, b
  <2> QED BY <1>4, <1>6, <1>7, <2>1, PartAhead DEF b
<1>9. CASE ~Reject
  <2>1. /\ Readable(n) /\ Consume(n) /\ stage' = "record"
        /\ loaded' = Append(loaded, [name |-> tensor.name, type |-> tensor.type,
                                     shape |-> tensor.shape, payload |-> Ahead(n)])
        /\ UNCHANGED <<file, config, tensorCount>>
    BY <1>9 DEF ReadPayload
  <2>2. loaded' = Upto(tensors, k + 1)
    BY <1>1, <1>2, <1>4, <1>5, <1>8, <2>1
  <2>3. Len(loaded') = k + 1
    BY <1>5, <2>2
  <2>4. position' = Offset(tensors, k + 1)
    BY <1>1, <1>5, <1>7, <2>1 DEF Consume
  <2>5. config' = c /\ tensorCount' = Len(tensors)
    BY <1>2, <2>1
  <2> HIDE DEF k
  <2> QED BY <2>1, <2>2, <2>3, <2>4, <2>5 DEF Follows, InRecord
<1>10. CASE Reject
  <2>1. stage' = "rejected"
    BY <1>10 DEF Reject
  <2>2. ASSUME Entire(c, tensors) PROVE FALSE
    <3>1. Readable(n) /\ Ahead(n) = s /\ GoodPayload(s)
      BY <1>2, <1>8, <2>2 DEF ValidTensor, GoodPayload
    <3>2. ReadPayload => stage' = "record"
      BY <3>1 DEF ReadPayload
    <3> QED BY <2>1, <3>2
  <2> QED BY <2>1, <2>2 DEF Follows
<1> QED BY <1>9, <1>10

LEMMA FollowsFinish ==
  ASSUME NEW c \in Nat, NEW tensors \in Seq(Storable), IInv, Begins(c, tensors),
         Follows(c, tensors), Finish
  PROVE  Follows(c, tensors)' /\ (Entire(c, tensors) => stage' # "rejected")
<1> DEFINE k == Len(loaded)
<1>1. /\ stage = "record" /\ k = Len(tensors)
      /\ position = Offset(tensors, k) /\ loaded = Upto(tensors, k)
      /\ config = c /\ tensorCount = Len(tensors)
  BY DEF Finish, Follows
<1>2. loaded = tensors /\ position = Len(Bytes(c, tensors)) /\ Len(Bytes(c, tensors)) \in Nat
  BY <1>1, UptoAll, OffsetEnds
<1>3. CASE ~Reject
  <2>1. /\ stage' = "accepted"
        /\ UNCHANGED <<file, position, remaining, config, tensorCount, tensor, total, loaded>>
    BY <1>3 DEF Finish
  <2> QED BY <1>1, <2>1 DEF Follows, InRecord
<1>4. CASE Reject
  <2>1. stage' = "rejected"
    BY <1>4 DEF Reject
  <2>2. ASSUME Entire(c, tensors) PROVE FALSE
    <3>1. AtEnd
      BY <1>2, <2>2 DEF Entire, AtEnd, IInv, Locals
    <3>2. \A i \in 1..Len(loaded) : loaded[i].type = INT8 => HasScale(loaded[i], loaded)
      BY <1>2, <2>2 DEF Entire, Valid, WellFormed, HasScale
    <3>3. Finish => stage' = "accepted"
      BY <3>1, <3>2 DEF Finish
    <3> QED BY <2>1, <3>3
  <2> QED BY <2>1, <2>2 DEF Follows
<1> QED BY <1>3, <1>4


LEMMA FollowsLoad ==
  ASSUME NEW c \in Nat, NEW tensors \in Seq(Storable), IInv, Counted, NotYetRead,
         Begins(c, tensors), Follows(c, tensors), Load
  PROVE  Follows(c, tensors)' /\ (Entire(c, tensors) => stage' # "rejected")
BY FollowsGlobalHeader, FollowsTensorHeader, FollowsShape, FollowsName, FollowsPayload,
   FollowsFinish DEF Load

LEMMA NotYetReadLoad == NotYetRead /\ Load => NotYetRead'
<1> SUFFICES ASSUME NotYetRead, Load PROVE NotYetRead'
  OBVIOUS
<1>0. CASE Reject
  BY <1>0 DEF Reject, NotYetRead
<1>1. CASE ReadGlobalHeader /\ ~Reject
  BY <1>1 DEF ReadGlobalHeader, NotYetRead
<1>2. CASE ReadTensorHeader /\ ~Reject
  BY <1>2 DEF ReadTensorHeader, NotYetRead, Header
<1>3. CASE ReadShape /\ ~Reject
  <2>1. /\ stage = "shape" /\ stage' = "name"
        /\ tensor' = [tensor EXCEPT !.shape = Ahead(tensor.rank)]
    BY <1>3 DEF ReadShape
  <2>2. tensor'.name = tensor.name
    BY <2>1
  <2> QED BY <2>1, <2>2 DEF NotYetRead
<1>4. CASE ReadName /\ ~Reject
  BY <1>4 DEF ReadName, NotYetRead
<1>5. CASE ReadPayload /\ ~Reject
  BY <1>5 DEF ReadPayload, NotYetRead
<1>6. CASE Finish /\ ~Reject
  BY <1>6 DEF Finish, NotYetRead
<1> QED BY <1>0, <1>1, <1>2, <1>3, <1>4, <1>5, <1>6 DEF Load

\* A reader has not read anything before it opens the file.
Closed == stage = "closed" => ReaderInit

LEMMA LoadEffect ==
  IInv /\ Load => /\ position' + remaining' = position + remaining
                  /\ stage # "closed" /\ stage' # "closed" /\ file' = file
<1> SUFFICES ASSUME IInv, Load
             PROVE  /\ position' + remaining' = position + remaining
                    /\ stage # "closed" /\ stage' # "closed" /\ file' = file
  OBVIOUS
<1>1. position \in Nat /\ remaining \in Nat
  BY DEF IInv, Locals
<1>2. ASSUME NEW n \in Nat, Consume(n) PROVE position' + remaining' = position + remaining
  BY <1>1, <1>2 DEF Consume
<1>3. tensor.rank \in Nat /\ tensor.nameLength \in Nat /\ PayloadUnits \in Nat
  BY PayloadType DEF IInv, Locals, Headers
<1>0. CASE Reject
  BY <1>0 DEF Reject, Load, ReadGlobalHeader, ReadTensorHeader, ReadShape, ReadName,
     ReadPayload, Finish
<1>4. CASE ReadGlobalHeader /\ ~Reject
  BY <1>2, <1>4, SizesType DEF ReadGlobalHeader
<1>5. CASE ReadTensorHeader /\ ~Reject
  BY <1>2, <1>5, SizesType DEF ReadTensorHeader
<1>6. CASE ReadShape /\ ~Reject
  BY <1>2, <1>3, <1>6 DEF ReadShape
<1>7. CASE ReadName /\ ~Reject
  BY <1>2, <1>3, <1>7 DEF ReadName
<1>8. CASE ReadPayload /\ ~Reject
  BY <1>2, <1>3, <1>8 DEF ReadPayload
<1>9. CASE Finish /\ ~Reject
  BY <1>9 DEF Finish
<1> QED BY <1>0, <1>4, <1>5, <1>6, <1>7, <1>8, <1>9 DEF Load

LEMMA ListsStorable ==
  ASSUME NEW tensors \in TensorLists,
         \A i \in 1..Len(tensors) :
           /\ \A axis \in 1..Len(tensors[i].shape) : tensors[i].shape[axis] > 0
           /\ Len(tensors[i].payload)
                = ElementCount(tensors[i].shape) * BytesPerElement(tensors[i].type)
  PROVE  tensors \in Seq(Storable)
<1> DEFINE Words == [name : Seq(0..MaxWord), type : 0..MaxWord,
                     shape : Seq(0..MaxWord), payload : Seq(0..MaxWord)]
<1>1. tensors \in Seq(Words)
  BY LimitsAssumption DEF LimitsAssumption
<1>2. Words \subseteq Tensors
  <2>1. 0..MaxWord \subseteq Nat
    BY FormatAssumption DEF FormatAssumption
  <2>2. \A s \in Seq(0..MaxWord) : s \in Seq(Nat)
    BY <2>1, SeqMonotonic
  <2> QED BY <2>1, <2>2 DEF Tensors
<1> HIDE DEF Words
<1>3. Len(tensors) \in Nat /\ tensors \in [1..Len(tensors) -> Words]
  BY <1>1, LenProperties
<1>4. \A i \in 1..Len(tensors) : tensors[i] \in Storable
  BY <1>2, <1>3 DEF Storable
<1>5. tensors \in [1..Len(tensors) -> Storable]
  BY <1>3, <1>4
<1> QED BY <1>3, <1>5, SeqDef

-----------------------------------------------------------------------------
(* A reader that has its file to itself. *)

Followed == \A c \in Nat, tensors \in Seq(Storable) : Begins(c, tensors) => Follows(c, tensors)

NotRejected ==
  \A c \in Configs, tensors \in Seq(Storable) :
    Valid(tensors) /\ file = Bytes(c, tensors) => stage # "rejected"

ExactInv == IInv /\ Counted /\ WholeInv /\ Closed /\ Followed /\ NotRejected

LEMMA ExactInit == Init => ExactInv
<1> SUFFICES ASSUME Init PROVE ExactInv
  OBVIOUS
<1>1. IInv /\ Counted /\ ReaderInit
  BY InitInv, CountedInit DEF Init
<1>2. WholeInv /\ Closed /\ NotRejected
  BY <1>1 DEF ReaderInit, WholeInv, Sized, NotYetRead, ReadSoFar, Finished, Closed, NotRejected
<1>3. Followed
  BY <1>1 DEF ReaderInit, Followed, Follows, InRecord
<1> QED BY <1>1, <1>2, <1>3 DEF ExactInv

LEMMA ExactOpen == ExactInv /\ Open => ExactInv'
<1> SUFFICES ASSUME ExactInv, Open PROVE ExactInv'
  OBVIOUS
<1>1. ReaderInit /\ stage' = "header"
      /\ UNCHANGED <<file, position, config, tensorCount, tensor, total, loaded>>
  BY DEF Open, ExactInv, Closed
<1>2. IInv' /\ WholeInv'
  BY <1>1, OpenInv, WholeOpen DEF ExactInv
<1>3. Counted'
  BY <1>1 DEF ExactInv, Counted, ReaderInit, InRecord
<1>4. Closed' /\ NotRejected'
  BY <1>1 DEF Closed, NotRejected
<1>5. Followed'
  BY <1>1 DEF Followed, Follows
<1> QED BY <1>2, <1>3, <1>4, <1>5 DEF ExactInv

LEMMA ExactLoad == ExactInv /\ Load => ExactInv'
<1> SUFFICES ASSUME ExactInv, Load PROVE ExactInv'
  OBVIOUS
<1>1. IInv /\ IInv' /\ Counted /\ WholeInv /\ NotYetRead
  BY NextInv DEF ExactInv, WholeInv, Next
<1>2. Counted' /\ WholeInv'
  BY <1>1, CountedLoad, WholeLoad
<1>3. stage # "closed" /\ stage' # "closed" /\ file' = file
  BY <1>1, LoadEffect
<1>4. Followed'
  <2> SUFFICES ASSUME NEW c \in Nat, NEW tensors \in Seq(Storable), Begins(c, tensors)'
               PROVE  Follows(c, tensors)'
    BY DEF Followed
  <2>1. Begins(c, tensors)
    BY <1>3 DEF Begins
  <2> QED BY <1>1, <2>1, FollowsLoad DEF ExactInv, Followed
<1>5. NotRejected'
  <2> SUFFICES ASSUME NEW c \in Configs, NEW tensors \in Seq(Storable), Valid(tensors),
                      file = Bytes(c, tensors)
               PROVE  stage' # "rejected"
    BY <1>3 DEF NotRejected
  <2>1. c \in Nat
    BY FormatAssumption DEF FormatAssumption
  <2>2. Begins(c, tensors) /\ Follows(c, tensors)
    <3>1. Begins(c, tensors)
      BY <2>1, OffsetEnds DEF Begins
    <3> QED BY <2>1, <3>1 DEF ExactInv, Followed
  <2>3. Entire(c, tensors)
    BY <1>1, <1>3 DEF Entire, WholeInv, Sized
  <2> QED BY <1>1, <2>1, <2>2, <2>3, FollowsLoad
<1> QED BY <1>1, <1>2, <1>3, <1>4, <1>5 DEF ExactInv, Closed

LEMMA ExactNext == ExactInv /\ [Next]_vars => ExactInv'
<1> SUFFICES ASSUME ExactInv, [Next]_vars PROVE ExactInv'
  OBVIOUS
<1>1. CASE UNCHANGED vars
  <2>1. UNCHANGED <<file, stage, position, remaining, config, tensorCount, tensor, total, loaded>>
    BY <1>1 DEF vars, reader
  <2>2. IInv'
    BY <1>1, NextInv DEF ExactInv
  <2>3. Counted' /\ Closed' /\ NotRejected'
    BY <2>1 DEF ExactInv, Counted, InRecord, Closed, ReaderInit, NotRejected
  <2>4. WholeInv'
    <3>1. Sized' /\ NotYetRead' /\ Finished'
      BY <2>1 DEF ExactInv, WholeInv, Sized, NotYetRead, Finished
    <3>2. PartRead' = PartRead
      BY <2>1 DEF PartRead, InRecord, TensorUnits
    <3>3. ReadSoFar'
      BY <2>1, <3>2 DEF ExactInv, WholeInv, ReadSoFar
    <3> QED BY <3>1, <3>3 DEF WholeInv
  <2>5. Followed'
    <3> SUFFICES ASSUME NEW c \in Nat, NEW tensors \in Seq(Storable), Begins(c, tensors)'
                 PROVE  Follows(c, tensors)'
      BY DEF Followed
    <3>1. Begins(c, tensors)
      BY <2>1 DEF Begins
    <3>2. Follows(c, tensors)
      BY <3>1 DEF ExactInv, Followed
    <3> QED BY <2>1, <3>2 DEF Follows, InRecord
  <2> QED BY <2>2, <2>3, <2>4, <2>5 DEF ExactInv
<1> QED BY <1>1, ExactOpen, ExactLoad DEF Next, Ended

\* What the loader accepts is, unit for unit, a checkpoint as the writer writes it, and no
\* checkpoint is rejected: whatever the limits, the format's sizes and the files.
THEOREM AlwaysAcceptsExactlyCheckpoints == Spec => []AcceptsExactlyCheckpoints
<1>1. ExactInv => AcceptedIsWhole
  BY AcceptedWhole, AcceptedValid DEF ExactInv, AcceptedIsWhole
<1>2. ExactInv => RejectedIsNoCheckpoint
  <2> SUFFICES ASSUME ExactInv, stage = "rejected", NEW c \in Configs, NEW tensors \in TensorLists,
                      Valid(tensors), file = Bytes(c, tensors)
               PROVE  FALSE
    BY DEF RejectedIsNoCheckpoint, ValidFiles
  <2>1. tensors \in Seq(Storable)
    BY ListsStorable DEF Valid, WellFormed, ValidTensor
  <2> QED BY <2>1 DEF ExactInv, NotRejected
<1>3. ExactInv => AcceptsExactlyCheckpoints
  BY <1>1, <1>2 DEF AcceptsExactlyCheckpoints
<1> QED BY <1>3, ExactInit, ExactNext, PTL DEF Spec


-----------------------------------------------------------------------------
(* A reader and a writer on one file. *)

\* What is in the file is what the writer has written of its last export.
WriterType ==
  /\ exported \in [config : Nat, tensors : Seq(Storable)]
  /\ exported = NoExport \/ exported.config \in Configs
  /\ flushed \in 0..Len(ExportedBytes)
  /\ file = SubSeq(ExportedBytes, 1, flushed)

\* The units the reader counts on are in the file, if no export began since it
\* was opened: what is being written only grows.
Reached == ~rewritten => position + remaining <= Len(file)

\* What the reader has read is the last export so far.
FollowsExport ==
  ~rewritten =>
    \A c \in Nat, tensors \in Seq(Storable) :
      exported.config = c /\ exported.tensors = tensors => Follows(c, tensors)

Complete == stage = "accepted" => Len(loaded) = tensorCount

\* The part of it that is about the reader alone.
ReaderInv == IInv /\ Counted /\ NotYetRead /\ Closed /\ Complete

SharedInv ==
  ReaderInv /\ WriterType /\ Reached /\ FollowsExport /\ WrittenCanBeRead

LEMMA ReaderInvInit == file \in Seq(Nat) /\ ReaderInit => ReaderInv
<1> SUFFICES ASSUME file \in Seq(Nat), ReaderInit PROVE ReaderInv
  OBVIOUS
<1>1. IInv /\ Counted
  BY ReaderInitInv, CountedInit
<1> QED BY <1>1 DEF ReaderInv, NotYetRead, Closed, Complete, ReaderInit

LEMMA ReaderInvOpen == ReaderInv /\ Open => ReaderInv'
<1> SUFFICES ASSUME ReaderInv, Open PROVE ReaderInv'
  OBVIOUS
<1>1. ReaderInit /\ stage' = "header" /\ UNCHANGED <<position, config, tensor, total, loaded>>
  BY DEF Open, ReaderInv, Closed
<1>2. IInv'
  BY OpenInv DEF ReaderInv
<1> QED
  BY <1>1, <1>2 DEF ReaderInv, Counted, NotYetRead, Closed, Complete, ReaderInit, InRecord

LEMMA ReaderInvLoad == ReaderInv /\ Load => ReaderInv'
<1> SUFFICES ASSUME ReaderInv, Load PROVE ReaderInv'
  OBVIOUS
<1>1. IInv'
  BY NextInv DEF ReaderInv, Next
<1>2. Complete'
  BY DEF Load, Reject, ReadGlobalHeader, ReadTensorHeader, ReadShape, ReadName, ReadPayload,
     Finish, Complete
<1> QED BY <1>1, <1>2, CountedLoad, NotYetReadLoad, LoadEffect DEF ReaderInv, Closed

LEMMA ReaderInvUnchanged == ReaderInv /\ file' \in Seq(Nat) /\ UNCHANGED reader => ReaderInv'
<1> SUFFICES ASSUME ReaderInv, file' \in Seq(Nat), UNCHANGED reader PROVE ReaderInv'
  OBVIOUS
<1>1. IInv'
  BY ReaderUnchangedInv DEF ReaderInv
<1> QED
  BY <1>1 DEF reader, ReaderInv, Counted, NotYetRead, Closed, Complete, ReaderInit, InRecord

LEMMA ReaderInvAgain == ReaderInv /\ LoadAgain => ReaderInv'
<1> SUFFICES ASSUME ReaderInv, LoadAgain PROVE ReaderInv'
  OBVIOUS
<1>1. ReaderInit' /\ file' \in Seq(Nat)
  BY DEF LoadAgain, ReaderInit, ReaderInv, IInv, Locals
<1>2. (file \in Seq(Nat) /\ ReaderInit => ReaderInv)'
  BY ReaderInvInit, PTL
<1> QED BY <1>1, <1>2

\* The file holds the beginning of the last export.
LEMMA FileOfExport ==
  ASSUME WriterType
  PROVE  /\ exported.config \in Nat /\ exported.tensors \in Seq(Storable)
         /\ ExportedBytes = Bytes(exported.config, exported.tensors)
         /\ ExportedBytes \in Seq(Nat) /\ Len(ExportedBytes) \in Nat
         /\ Len(file) = flushed /\ file \in Seq(Nat)
         /\ Begins(exported.config, exported.tensors)
<1>1. exported.config \in Nat /\ exported.tensors \in Seq(Storable)
  BY DEF WriterType
<1> DEFINE b == ExportedBytes
<1>2. b = Bytes(exported.config, exported.tensors)
  BY DEF ExportedBytes
<1>3. b \in Seq(Nat) /\ Len(b) \in Nat
  BY <1>1, <1>2, BytesAre, LenProperties
<1> HIDE DEF b
<1>4. flushed \in 0..Len(b) /\ file = SubSeq(b, 1, flushed)
  BY DEF WriterType, b
<1>5. flushed \in Int /\ 1 \in Int /\ \A i \in 1..flushed : i \in 1..Len(b)
  BY <1>3, <1>4
<1>6. \A i \in 1..flushed : b[i] \in Nat
  BY <1>3, <1>5, ElementOfSeq
<1>7. /\ SubSeq(b, 1, flushed) \in Seq(Nat)
      /\ Len(SubSeq(b, 1, flushed)) = IF 1 <= flushed THEN flushed - 1 + 1 ELSE 0
      /\ \A i \in 1..(flushed - 1 + 1) : SubSeq(b, 1, flushed)[i] = b[1 + i - 1]
  BY <1>5, <1>6, SubSeqProperties
<1>8. (IF 1 <= flushed THEN flushed - 1 + 1 ELSE 0) = flushed
      /\ \A i \in 1..flushed : i \in 1..(flushed - 1 + 1) /\ 1 + i - 1 = i
  BY <1>3, <1>4
<1>9. file \in Seq(Nat) /\ Len(file) = flushed /\ \A i \in 1..flushed : file[i] = b[i]
  BY <1>4, <1>7, <1>8
<1>10. Begins(exported.config, exported.tensors)
  BY <1>2, <1>3, <1>4, <1>9 DEF Begins
<1> QED BY <1>1, <1>2, <1>3, <1>9, <1>10 DEF b


LEMMA FileUnits == WriterType => file \in Seq(Nat) /\ Len(file) = flushed
BY FileOfExport

LEMMA SharedInit == FileInit => SharedInv
<1> SUFFICES ASSUME FileInit PROVE SharedInv
  OBVIOUS
<1>1. ReaderInv
  <2>1. file \in Seq(Nat)
    BY DEF FileInit
  <2> QED BY <2>1, ReaderInvInit DEF FileInit
<1>2. exported = NoExport /\ flushed = 0 /\ file = <<>>
  BY DEF FileInit
<1>3. exported \in [config : Nat, tensors : Seq(Storable)]
  <2>1. <<>> \in Seq(Storable)
    OBVIOUS
  <2> QED BY <1>2, <2>1 DEF NoExport
<1>4. ExportedBytes \in Seq(Nat) /\ Len(ExportedBytes) \in Nat
  <2>1. exported.config \in Nat /\ exported.tensors \in Seq(Storable)
    BY <1>3
  <2> QED BY <2>1, BytesAre, LenProperties DEF ExportedBytes
<1>5. file = SubSeq(ExportedBytes, 1, 0)
  BY <1>2, SubSeqEmpty
<1>6. WriterType
  BY <1>2, <1>3, <1>4, <1>5 DEF WriterType
<1>7. Reached
  BY <1>2 DEF FileInit, ReaderInit, Reached
<1>8. FollowsExport /\ WrittenCanBeRead
  BY DEF FileInit, ReaderInit, FollowsExport, Follows, InRecord, WrittenCanBeRead
<1> QED BY <1>1, <1>6, <1>7, <1>8 DEF SharedInv

LEMMA SharedExport ==
  ASSUME SharedInv, NEW c \in Configs, NEW tensors \in TensorLists, Export(c, tensors)
  PROVE  SharedInv'
<1>1. /\ Prepared(tensors) /\ file' = <<>> /\ flushed' = 0 /\ rewritten' = TRUE
      /\ exported' = [config |-> c, tensors |-> tensors] /\ UNCHANGED reader
  BY DEF Export, Opened
<1>2. exported' \in [config : Nat, tensors : Seq(Storable)] /\ exported'.config \in Configs
  <2>1. tensors \in Seq(Storable)
    BY <1>1, ListsStorable DEF Prepared, PreparedTensor
  <2>2. c \in Nat
    BY FormatAssumption DEF FormatAssumption
  <2> QED BY <1>1, <2>1, <2>2
<1>3. ExportedBytes' \in Seq(Nat) /\ Len(ExportedBytes') \in Nat
  <2>1. exported'.config \in Nat /\ exported'.tensors \in Seq(Storable)
    BY <1>2
  <2> QED BY <2>1, BytesAre, LenProperties DEF ExportedBytes
<1>4. SubSeq(ExportedBytes', 1, 0) = <<>>
  BY SubSeqEmpty
<1>5. WriterType'
  BY <1>1, <1>2, <1>3, <1>4 DEF WriterType
<1>6. ReaderInv'
  <2>1. file' \in Seq(Nat)
    BY <1>1
  <2> QED BY <1>1, <2>1, ReaderInvUnchanged DEF SharedInv
<1> QED BY <1>1, <1>5, <1>6 DEF SharedInv, Reached, FollowsExport, WrittenCanBeRead

LEMMA SharedFlush ==
  ASSUME SharedInv, NEW n \in 1..Len(ExportedBytes), Flush(n)
  PROVE  SharedInv'
<1>1. /\ flushed < n /\ flushed' = n
      /\ file' = SubSeq(ExportedBytes, 1, n) \o SubSeq(file, n + 1, Len(file))
      /\ UNCHANGED <<reader, exported, rewritten>> /\ ExportedBytes' = ExportedBytes
  BY DEF Flush, ExportedBytes
<1>2. /\ ExportedBytes \in Seq(Nat) /\ Len(ExportedBytes) \in Nat
      /\ Len(file) = flushed /\ flushed \in 0..Len(ExportedBytes) /\ n \in Nat
  BY FileOfExport DEF SharedInv, WriterType
<1>3. SubSeq(file, n + 1, Len(file)) = <<>>
  <2>1. n + 1 \in Int /\ Len(file) \in Int /\ Len(file) < n + 1
    BY <1>1, <1>2
  <2> QED BY <2>1, SubSeqEmpty
<1>4. SubSeq(ExportedBytes, 1, n) \in Seq(Nat)
  <2> DEFINE b == ExportedBytes
  <2>1. b \in Seq(Nat) /\ n \in Int /\ 1 \in Int /\ \A i \in 1..n : i \in 1..Len(b)
    BY <1>2
  <2> HIDE DEF b
  <2>2. \A i \in 1..n : b[i] \in Nat
    BY <2>1, ElementOfSeq
  <2>3. SubSeq(b, 1, n) \in Seq(Nat)
    BY <2>1, <2>2, SubSeqProperties
  <2> QED BY <2>3 DEF b
<1>5. file' = SubSeq(ExportedBytes, 1, n)
  <2> DEFINE s == SubSeq(ExportedBytes, 1, n)
  <2>1. s \in Seq(Nat) /\ file' = s \o <<>>
    BY <1>1, <1>3, <1>4
  <2> HIDE DEF s
  <2>2. s \o <<>> = s
    BY <2>1, ConcatEmptySeq
  <2> QED BY <2>1, <2>2 DEF s
<1>6. WriterType'
  BY <1>1, <1>2, <1>5 DEF SharedInv, WriterType
<1>7. file' \in Seq(Nat) /\ Len(file') = n
  <2>1. (WriterType => file \in Seq(Nat) /\ Len(file) = flushed)'
    BY FileUnits, PTL
  <2> QED BY <1>1, <1>6, <2>1
<1>8. ReaderInv'
  BY <1>1, <1>7, ReaderInvUnchanged DEF SharedInv
<1>9. UNCHANGED <<stage, position, remaining, config, tensorCount, tensor, total, loaded>>
  BY <1>1 DEF reader
<1>10. Reached'
  <2>1. position \in Nat /\ remaining \in Nat
    BY DEF SharedInv, ReaderInv, IInv, Locals
  <2> QED BY <1>1, <1>2, <1>7, <1>9, <2>1 DEF SharedInv, Reached
<1>11. FollowsExport'
  <2> SUFFICES ASSUME ~rewritten', NEW c \in Nat, NEW tensors \in Seq(Storable),
                      exported'.config = c, exported'.tensors = tensors
               PROVE  Follows(c, tensors)'
    BY DEF FollowsExport
  <2>1. Follows(c, tensors)
    BY <1>1 DEF SharedInv, FollowsExport
  <2> QED BY <1>9, <2>1 DEF Follows, InRecord
<1>12. WrittenCanBeRead'
  BY <1>1, <1>9 DEF SharedInv, WrittenCanBeRead, OpenedSize
<1> QED BY <1>6, <1>8, <1>10, <1>11, <1>12 DEF SharedInv

\* The writer stops, or nothing happens.
LEMMA SharedUnchanged ==
  ASSUME SharedInv, UNCHANGED <<vars, exported, flushed, rewritten>>
  PROVE  SharedInv'
<1>1. /\ UNCHANGED <<file, reader>>
      /\ UNCHANGED <<stage, position, remaining, config, tensorCount, tensor, total, loaded>>
      /\ ExportedBytes' = ExportedBytes
  BY DEF vars, reader, ExportedBytes
<1>2. WriterType'
  BY <1>1 DEF SharedInv, WriterType
<1>3. ReaderInv'
  <2>1. file' \in Seq(Nat)
    BY <1>1 DEF SharedInv, ReaderInv, IInv, Locals
  <2> QED BY <1>1, <2>1, ReaderInvUnchanged DEF SharedInv
<1>4. FollowsExport'
  <2> SUFFICES ASSUME ~rewritten', NEW c \in Nat, NEW tensors \in Seq(Storable),
                      exported'.config = c, exported'.tensors = tensors
               PROVE  Follows(c, tensors)'
    BY DEF FollowsExport
  <2>1. Follows(c, tensors)
    BY <1>1 DEF SharedInv, FollowsExport
  <2> QED BY <1>1, <2>1 DEF Follows, InRecord
<1>5. Reached' /\ WrittenCanBeRead'
  BY <1>1 DEF SharedInv, Reached, WrittenCanBeRead, OpenedSize
<1> QED BY <1>2, <1>3, <1>4, <1>5 DEF SharedInv

LEMMA SharedOpen == SharedInv /\ OpenFile => SharedInv'
<1> SUFFICES ASSUME SharedInv, OpenFile PROVE SharedInv'
  OBVIOUS
<1>1. /\ ReaderInit /\ stage' = "header" /\ remaining' = Len(file) /\ position' = position
      /\ file' = file /\ rewritten' = FALSE /\ UNCHANGED <<exported, flushed>>
      /\ ExportedBytes' = ExportedBytes
  BY DEF OpenFile, Open, writer, ExportedBytes, SharedInv, ReaderInv, Closed
<1>2. ReaderInv'
  BY ReaderInvOpen DEF SharedInv, OpenFile
<1>3. WriterType'
  BY <1>1 DEF SharedInv, WriterType
<1>4. Reached'
  <2>1. Len(file) \in Nat /\ position = 0
    BY <1>1, LenProperties DEF SharedInv, ReaderInv, IInv, Locals, ReaderInit
  <2> QED BY <1>1, <2>1 DEF Reached
<1>5. FollowsExport' /\ WrittenCanBeRead'
  BY <1>1 DEF FollowsExport, Follows, WrittenCanBeRead
<1> QED BY <1>2, <1>3, <1>4, <1>5 DEF SharedInv

LEMMA SharedAgain == SharedInv /\ LoadAgain => SharedInv'
<1> SUFFICES ASSUME SharedInv, LoadAgain PROVE SharedInv'
  OBVIOUS
<1>1. /\ stage' = "closed" /\ position' = 0 /\ remaining' = 0
      /\ UNCHANGED <<file, exported, flushed, rewritten>> /\ ExportedBytes' = ExportedBytes
  BY DEF LoadAgain, writer, ExportedBytes
<1>2. ReaderInv'
  BY ReaderInvAgain DEF SharedInv
<1>3. WriterType'
  BY <1>1 DEF SharedInv, WriterType
<1>4. Reached'
  <2>1. Len(file) \in Nat
    BY LenProperties DEF SharedInv, ReaderInv, IInv, Locals
  <2> QED BY <1>1, <2>1 DEF Reached
<1>5. FollowsExport' /\ WrittenCanBeRead'
  BY <1>1 DEF FollowsExport, Follows, WrittenCanBeRead
<1> QED BY <1>2, <1>3, <1>4, <1>5 DEF SharedInv

LEMMA SharedLoad == SharedInv /\ LoadFile => SharedInv'
<1> SUFFICES ASSUME SharedInv, LoadFile PROVE SharedInv'
  OBVIOUS
<1>1. /\ Load /\ UNCHANGED <<exported, flushed, rewritten>> /\ ExportedBytes' = ExportedBytes
      /\ IInv /\ Counted /\ NotYetRead
  BY DEF LoadFile, writer, ExportedBytes, SharedInv, ReaderInv
<1>2. ReaderInv'
  BY <1>1, ReaderInvLoad DEF SharedInv
<1>3. position' + remaining' = position + remaining /\ file' = file
  BY <1>1, LoadEffect
<1>4. WriterType' /\ Reached'
  BY <1>1, <1>3 DEF SharedInv, WriterType, Reached
<1>5. PICK c \in Nat, tensors \in Seq(Storable) :
        exported.config = c /\ exported.tensors = tensors
  BY FileOfExport DEF SharedInv
<1>6. Begins(c, tensors)
  BY <1>5, FileOfExport DEF SharedInv
<1>7. ASSUME ~rewritten
      PROVE  Follows(c, tensors)' /\ (Entire(c, tensors) => stage' # "rejected")
  <2>1. Follows(c, tensors)
    BY <1>5, <1>7 DEF SharedInv, FollowsExport
  <2> QED BY <1>1, <1>6, <2>1, FollowsLoad
<1>8. FollowsExport'
  <2> SUFFICES ASSUME ~rewritten', NEW d \in Nat, NEW list \in Seq(Storable),
                      exported'.config = d, exported'.tensors = list
               PROVE  Follows(d, list)'
    BY DEF FollowsExport
  <2>1. d = c /\ list = tensors
    BY <1>1, <1>5
  <2> QED BY <1>1, <1>7, <2>1
<1>9. WrittenCanBeRead'
  <2> SUFFICES ASSUME stage' = "rejected", ~rewritten', OpenedSize' = Len(ExportedBytes'),
                      exported' # NoExport, Valid(exported'.tensors)
               PROVE  FALSE
    BY DEF WrittenCanBeRead, Valid, WellFormed, ValidTensor
  <2>1. /\ ~rewritten /\ exported.config \in Configs /\ Valid(tensors)
        /\ position + remaining = Len(ExportedBytes)
    BY <1>1, <1>3, <1>5 DEF OpenedSize, SharedInv, WriterType, Valid, WellFormed, ValidTensor
  <2>2. /\ Len(file) = flushed /\ flushed \in 0..Len(ExportedBytes)
        /\ Len(ExportedBytes) \in Nat /\ ExportedBytes = Bytes(c, tensors)
    BY <1>5, FileOfExport DEF SharedInv, WriterType
  <2>3. position + remaining <= Len(file)
    BY <2>1 DEF SharedInv, Reached
  <2>4. Len(file) = Len(ExportedBytes) /\ position + remaining = Len(file)
    BY <2>1, <2>2, <2>3
  <2>5. Entire(c, tensors)
    BY <1>5, <2>1, <2>2, <2>4 DEF Entire
  <2> QED BY <1>7, <2>1, <2>5
<1> QED BY <1>2, <1>4, <1>8, <1>9 DEF SharedInv

LEMMA SharedNext == SharedInv /\ [FileNext]_fileVars => SharedInv'
<1> SUFFICES ASSUME SharedInv, [FileNext]_fileVars PROVE SharedInv'
  OBVIOUS
<1>1. CASE \E c \in Configs, tensors \in TensorLists : Export(c, tensors)
  BY <1>1, SharedExport
<1>2. CASE \E n \in 1..Len(ExportedBytes) : Flush(n)
  BY <1>2, SharedFlush
<1>3. CASE Close \/ Crash \/ UNCHANGED fileVars
  <2>1. UNCHANGED <<vars, exported, flushed, rewritten>>
    BY <1>3 DEF Close, Crash, fileVars, writer
  <2> QED BY <2>1, SharedUnchanged
<1> QED
  BY <1>1, <1>2, <1>3, SharedOpen, SharedLoad, SharedAgain DEF FileNext, Write

LEMMA SharedInductive == FileSpec => []SharedInv
BY SharedInit, SharedNext, PTL DEF FileSpec

\* Even if the file is rewritten under its hands the loader returns nothing but a checkpoint.
THEOREM AcceptedAlwaysValid == FileSpec => []AcceptedIsValid
<1>1. SharedInv => AcceptedIsValid
  BY AcceptedValid DEF SharedInv, ReaderInv, AcceptedIsValid
<1> QED BY <1>1, SharedInductive, PTL

\* A reader that no export overtakes loads the last export, and all of it, wherever the writer
\* is or died.
THEOREM LoadedIsAlwaysTheExport == FileSpec => []LoadedIsTheExport
<1>1. SharedInv => LoadedIsTheExport
  <2> SUFFICES ASSUME SharedInv, stage = "accepted", ~rewritten
               PROVE  /\ exported = [config |-> config, tensors |-> loaded]
                      /\ flushed = Len(ExportedBytes)
    BY DEF LoadedIsTheExport
  <2>1. PICK c \in Nat, tensors \in Seq(Storable) :
          exported.config = c /\ exported.tensors = tensors
    BY FileOfExport DEF SharedInv
  <2>2. Follows(c, tensors)
    BY <2>1 DEF SharedInv, FollowsExport
  <2>3. /\ config = c /\ tensorCount = Len(tensors) /\ Len(loaded) = Len(tensors)
        /\ loaded = Upto(tensors, Len(loaded)) /\ position = Offset(tensors, Len(loaded))
    BY <2>2 DEF Follows, SharedInv, ReaderInv, Complete
  <2>4. loaded = tensors /\ position = Len(Bytes(c, tensors))
    BY <2>3, UptoAll, OffsetEnds
  <2>5. exported = [config |-> config, tensors |-> loaded]
    BY <2>1, <2>3, <2>4 DEF SharedInv, WriterType
  <2>6. flushed = Len(ExportedBytes)
    <3>1. /\ Len(file) = flushed /\ flushed \in 0..Len(ExportedBytes)
          /\ Len(ExportedBytes) \in Nat /\ ExportedBytes = Bytes(c, tensors)
      BY <2>1, FileOfExport DEF SharedInv, WriterType
    <3>2. position + remaining <= Len(file) /\ position \in Nat /\ remaining \in Nat
      BY DEF SharedInv, Reached, ReaderInv, IInv, Locals
    <3> QED BY <2>4, <3>1, <3>2
  <2> QED BY <2>5, <2>6
<1> QED BY <1>1, SharedInductive, PTL

\* What the writer writes the loader reads, unless it is beyond the loader's limits or a
\* quantized tensor has no scale.
THEOREM WrittenCanAlwaysBeRead == FileSpec => []WrittenCanBeRead
<1>1. SharedInv => WrittenCanBeRead
  BY DEF SharedInv
<1> QED BY <1>1, SharedInductive, PTL
=============================================================================
