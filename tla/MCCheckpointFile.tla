-------------------------- MODULE MCCheckpointFile --------------------------
(***************************************************************************)
(* One file, exports that follow one another, one reader: lists of         *)
(* tensors that have the same layout and other contents, that lack a       *)
(* scale or have one of the wrong size, and that are too large.            *)
(***************************************************************************)
EXTENDS CheckpointFile

MCSuffix == <<7>>
MCIsUtf8(name) == TRUE

Float(name, shape, unit) ==
  [name |-> name, type |-> FLOAT32, shape |-> shape,
   payload |-> [i \in 1..ElementCount(shape) * Float32Size |-> unit]]
Int8(name, shape, unit) ==
  [name |-> name, type |-> INT8, shape |-> shape,
   payload |-> [i \in 1..ElementCount(shape) |-> unit]]

MCTensorLists ==
  {<<>>,
   <<Float(<<1>>, <<1>>, 4)>>,
   <<Float(<<1>>, <<1>>, 5)>>,
   <<Float(<<1>>, <<5>>, 5)>>,
   <<Int8(<<1>>, <<2>>, 6)>>,
   <<Int8(<<1>>, <<2>>, 6), Float(<<1, 7>>, <<1>>, 4)>>,
   <<Int8(<<1>>, <<2>>, 6), Float(<<1, 7>>, <<2>>, 4)>>,
   <<Float(<<1, 7>>, <<2>>, 5), Int8(<<1>>, <<2>>, 6)>>}
=============================================================================
