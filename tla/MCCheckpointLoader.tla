------------------------- MODULE MCCheckpointLoader -------------------------
(***************************************************************************)
(* The loader on every file of a small set: the encodings of lists of      *)
(* tensors, good and bad, and what becomes of good ones when one unit is   *)
(* changed, lost or added, or the end is missing.                          *)
(***************************************************************************)
EXTENDS CheckpointLoader

CONSTANTS Names, Damage   \* names; what a damaged unit may become

MCSuffix == <<7>>
MCNames == {<<1>>, <<1, 7>>, <<9>>}

MCIsUtf8(name) == \A i \in 1..Len(name) : name[i] # 9

Filled(n, unit) == [i \in 1..n |-> unit]

\* Floats of one, two and four elements, the last too large; int8 tensors with
\* and without a -128; an empty shape, a zero and a rank too many.
MCTensors ==
  {[name |-> n, type |-> FLOAT32, shape |-> s,
    payload |-> Filled(ElementCount(s) * Float32Size, MinInt8)] :
     n \in Names, s \in {<<1>>, <<2>>, <<2, 2>>}}
  \cup
  {[name |-> n, type |-> INT8, shape |-> s, payload |-> Filled(ElementCount(s), v)] :
     n \in Names, v \in {5, MinInt8},
     s \in {<<1>>, <<2, 1>>, <<2, 2>>, <<>>, <<0>>, <<1, 1, 1>>}}

MCTensorLists ==
  {<<>>} \cup {<<t>> : t \in MCTensors} \cup {<<t, u>> : t, u \in MCTensors}

MCDamaged(bytes) ==
  {SubSeq(bytes, 1, n) : n \in 0..Len(bytes)}
    \cup {Append(bytes, u) : u \in Damage}
    \cup {ReplaceAt(bytes, i, u) : i \in 1..Len(bytes), u \in Damage}
    \cup {RemoveAt(bytes, i) : i \in 1..Len(bytes)}
    \cup {InsertAt(bytes, i, u) : i \in 1..Len(bytes), u \in Damage}

MCFiles ==
  {Bytes(c, tensors) : c \in Configs, tensors \in MCTensorLists}
    \cup UNION {MCDamaged(bytes) : bytes \in ValidFiles}

\* The names a scale's own scale has.
MCScaleNames == {<<1>>, <<1, 7>>, <<1, 7, 7>>}

MCWholeFiles == {Bytes(c, tensors) : c \in Configs, tensors \in MCTensorLists}
=============================================================================
