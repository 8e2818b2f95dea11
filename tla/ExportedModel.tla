---------------------------- MODULE ExportedModel ----------------------------
(***************************************************************************)
(* From the exporter to a forward pass: what the exporter collects becomes *)
(* the checkpoint of a model, which is validated and used.  A checkpoint   *)
(* may also come from anywhere else.  The file between the two is the      *)
(* subject of CheckpointFile.                                              *)
(***************************************************************************)
EXTENDS Exporter, PassShapes

allVars == <<source, flags, phase, records, checkpoint, stage, layer, precision, quantized,
             pass>>

NoCheckpoint == [config |-> [vocabulary |-> 1, context |-> 1, embedding |-> 1, heads |-> 1,
                             layers |-> 1],
                 floats |-> <<>>, int8s |-> <<>>]

NoSource == "none"
NoFlags == [layers |-> FALSE, embedding |-> FALSE]

\* The name of a scale is the name of its tensor with a suffix.
Joined(name) == IF Len(name) = 3 THEN <<name[1], ScalePart(name[2])>> ELSE name

ShapesOf(dtype) ==
  LET indices == {i \in DOMAIN records : records[i].dtype = dtype}
      Index(name) == CHOOSE i \in indices : Joined(records[i].name) = name
  IN [name \in {Joined(records[i].name) : i \in indices} |-> records[Index(name)].shape]

Exported == [config |-> source.config,
             floats |-> ShapesOf("float32"), int8s |-> ShapesOf("int8")]

\* Before there is a checkpoint the engine is as one without tensors leaves it.
ComposedInit ==
  \/ /\ ExportInit
     /\ checkpoint = NoCheckpoint /\ stage = "rejected"
     /\ layer = 0 /\ precision = "unknown" /\ quantized = 0
     /\ pass = NoPass
  \/ /\ PassInit
     /\ source = NoSource /\ flags = NoFlags /\ phase = "none" /\ records = <<>>

\* Gpt2Model's constructor, on what was exported.
Construct ==
  /\ phase = "exported"
  /\ phase' = "constructed"
  /\ checkpoint' = Exported /\ stage' = "sizes"
  /\ layer' = 0 /\ precision' = "unknown" /\ quantized' = 0
  /\ UNCHANGED <<source, flags, records, pass>>

ComposedNext ==
  \/ ExportNext /\ UNCHANGED passVars
  \/ Construct
  \/ phase \in {"constructed", "none"} /\ PassNext /\ UNCHANGED exportVars
  \/ phase = "refused" /\ UNCHANGED allVars

ComposedSpec == ComposedInit /\ [][ComposedNext]_allVars

\* Whatever is quantized and whatever the model, what the exporter writes is a model to
\* the engine, unless the engine cannot count its tensors: two lists of names and shapes,
\* one in Python and one in C++, agree.
ExportIsAccepted ==
  phase = "constructed" /\ stage = "rejected" => ~GoodSizes
=============================================================================
