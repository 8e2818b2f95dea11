-------------------------- MODULE CheckpointFormat --------------------------
(***************************************************************************)
(* The layout of a checkpoint file (include/gpt2/checkpoint_format.h,      *)
(* tools/checkpoint_writer.py).  A file is a sequence of units, natural    *)
(* numbers up to MaxWord; every field of a header, every dimension, every  *)
(* byte of a name and every byte of a payload is one unit, so a reader     *)
(* that is out of step with the file reads any of them as any other.  A    *)
(* float takes Float32Size units, as it takes four bytes.                  *)
(***************************************************************************)
EXTENDS Naturals, FiniteSets, SequencesExt

CONSTANTS
  MaxWord,       \* the largest uint64
  Float32Size,   \* units of a float; an int8 has one
  MinInt8,       \* the unit that stands for the byte of -128
  Magic,         \* the unit of an intact magic, version, header size, flags
  Configs,       \* the units of configurations without zeros, divisible
  ScaleSuffix    \* ".quant_scale", units

ASSUME FormatAssumption ==
  /\ MaxWord \in Nat
  /\ Float32Size \in Nat \ {0}
  /\ {MinInt8, Magic} \cup Configs \subseteq 0..MaxWord
  /\ ScaleSuffix \in Seq(0..MaxWord)

FLOAT32 == 1
INT8 == 2

GlobalHeaderSize == 4
TensorHeaderSize == 6
MinimumRecordSize == TensorHeaderSize + 1 + 1 + 1

BytesPerElement(type) == IF type = INT8 THEN 1 ELSE Float32Size

ElementCount(shape) == FoldLeft(LAMBDA n, dimension : n * dimension, 1, shape)

ScaleOf(name) == name \o ScaleSuffix

\* What the writer writes for a configuration and a list of tensors.
GlobalHeader(config, count) == <<Magic, count, config, 0>>

TensorHeader(t) ==
  <<Len(t.name), t.type, Len(t.shape), 0, ElementCount(t.shape), Len(t.payload)>>

RecordBytes(t) == TensorHeader(t) \o t.shape \o t.name \o t.payload

Bytes(config, tensors) ==
  GlobalHeader(config, Len(tensors))
    \o FlattenSeq([i \in 1..Len(tensors) |-> RecordBytes(tensors[i])])
=============================================================================
