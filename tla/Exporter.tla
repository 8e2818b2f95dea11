------------------------------ MODULE Exporter ------------------------------
(***************************************************************************)
(* collect_tensor_records (tools/export_gpt2.py): from a Hugging Face      *)
(* model to the records of a checkpoint, with its transformer weights and  *)
(* its tied embedding quantized or not.                                    *)
(*                                                                         *)
(* A name is a layer (from 1; 0 outside the layers) and a part, as in      *)
(* CheckpointSchema, without the prefix "transformer".  The values of a    *)
(* tensor are integers at the flat indices of a row-major array.  A scale  *)
(* is kept as the largest magnitude of its channel: the factor 1 / Levels  *)
(* of every scale is left out, and so is the rounding of scales to float.  *)
(***************************************************************************)
EXTENDS Integers, Sequences, FiniteSetsExt

CONSTANTS
  Sources,   \* [config, supported, tied, state]: what load_model may return
  Levels     \* 127

\* A tensor of a source: its shape and its values.
IsTensor(t) ==
  /\ t.shape \in Seq(Nat \ {0})
  /\ \A x \in DOMAIN t.data : t.data[x] \in Int
  /\ Len(t.shape) = 2 => DOMAIN t.data = 0..(t.shape[1] * t.shape[2] - 1)

ASSUME ExporterAssumption ==
  /\ Levels \in Nat \ {0}
  /\ \A s \in Sources :
       /\ {s.config.vocabulary, s.config.context, s.config.embedding, s.config.heads,
           s.config.layers} \subseteq Nat \ {0}
       /\ {s.supported, s.tied} \subseteq BOOLEAN
       /\ DOMAIN s.state \subseteq Nat \X STRING
       /\ \A name \in DOMAIN s.state : IsTensor(s.state[name])

VARIABLES
  source,     \* the model, and its config
  flags,      \* quantize_transformer_weights and quantize_tied_embedding
  phase,      \* what is done next, or how it ended
  records     \* the records collected so far

exportVars == <<source, flags, phase, records>>

-----------------------------------------------------------------------------
(* expected_tensor_specs, in its order *)

Spec1(name, size) == [name |-> name, shape |-> <<size>>]
Spec2(name, rows, columns) == [name |-> name, shape |-> <<rows, columns>>]

LayerSpecs(l, e) == <<
  Spec1(<<l, "ln_1.weight">>, e),
  Spec1(<<l, "ln_1.bias">>, e),
  Spec2(<<l, "attn.c_attn.weight">>, e, 3 * e),
  Spec1(<<l, "attn.c_attn.bias">>, 3 * e),
  Spec2(<<l, "attn.c_proj.weight">>, e, e),
  Spec1(<<l, "attn.c_proj.bias">>, e),
  Spec1(<<l, "ln_2.weight">>, e),
  Spec1(<<l, "ln_2.bias">>, e),
  Spec2(<<l, "mlp.c_fc.weight">>, e, 4 * e),
  Spec1(<<l, "mlp.c_fc.bias">>, 4 * e),
  Spec2(<<l, "mlp.c_proj.weight">>, 4 * e, e),
  Spec1(<<l, "mlp.c_proj.bias">>, e) >>

TensorSpecs(config) ==
  LET e == config.embedding
      layers[l \in 0..config.layers] == IF l = 0 THEN <<>> ELSE layers[l - 1] \o LayerSpecs(l, e)
  IN <<Spec2(<<0, "wte.weight">>, config.vocabulary, e),
       Spec2(<<0, "wpe.weight">>, config.context, e)>>
     \o layers[config.layers]
     \o <<Spec1(<<0, "ln_f.weight">>, e), Spec1(<<0, "ln_f.bias">>, e)>>

Specs == TensorSpecs(source.config)
ExpectedNames == {Specs[i].name : i \in DOMAIN Specs}
IgnoredBuffers == (1..source.config.layers) \X {"attn.bias", "attn.masked_bias"}

-----------------------------------------------------------------------------
(* quantize_per_channel.  Axes are counted from 1. *)

Magnitude(w) == IF w < 0 THEN -w ELSE w

Channel(shape, axis, x) == IF axis = 1 THEN x \div shape[2] ELSE x % shape[2]

\* numpy.round of n / d: to the nearest integer, a tie to the even one.
Rounded(n, d) ==
  LET q == n \div d
      r == n % d
  IN IF 2 * r < d \/ (2 * r = d /\ q % 2 = 0) THEN q ELSE q + 1

Clipped(q) == Max({-Levels, Min({q, Levels})})

Scales(tensor, axis) ==
  [i \in 0..(tensor.shape[axis] - 1) |->
     Max({Magnitude(tensor.data[x]) :
            x \in {y \in DOMAIN tensor.data : Channel(tensor.shape, axis, y) = i}})]

\* A channel that is all zero is divided by one.
Quantized(tensor, axis) ==
  LET scales == Scales(tensor, axis)
  IN [x \in DOMAIN tensor.data |->
        LET s == scales[Channel(tensor.shape, axis, x)]
        IN Clipped(Rounded(tensor.data[x] * Levels, IF s > 0 THEN s ELSE 1))]

PartsQuantizedInAttention == {"attn.c_attn.weight", "attn.c_proj.weight"}

QuantizedParts == {"attn.c_attn.weight", "attn.c_proj.weight",
                   "mlp.c_fc.weight", "mlp.c_proj.weight"}

\* _quantization_axis: the columns of a weight, the rows of the embedding.
Unquantized == 0

AxisWithSquareByRows(name) ==
  IF flags.embedding /\ name = <<0, "wte.weight">> THEN 1
  ELSE IF flags.layers /\ name[2] \in QuantizedParts
  THEN IF name[2] = "attn.c_proj.weight" THEN 1 ELSE 2
  ELSE Unquantized

AxisOf(name) ==
  IF flags.embedding /\ name = <<0, "wte.weight">> THEN 1
  ELSE IF flags.layers /\ name[2] \in QuantizedParts THEN 2
  ELSE Unquantized

ScaleOf(name) == <<name[1], name[2], "quant_scale">>

Record(name, dtype, shape, data) ==
  [name |-> name, dtype |-> dtype, shape |-> shape, data |-> data]

RecordsOf(name, tensor) ==
  LET axis == AxisOf(name) IN
  IF axis = Unquantized THEN <<Record(name, "float32", tensor.shape, tensor.data)>>
  ELSE <<Record(name, "int8", tensor.shape, Quantized(tensor, axis)),
         Record(ScaleOf(name), "float32", <<tensor.shape[axis]>>, Scales(tensor, axis))>>

-----------------------------------------------------------------------------
(* collect_tensor_records *)

ExportInit ==
  /\ source \in Sources
  /\ flags \in [layers : BOOLEAN, embedding : BOOLEAN]
  /\ phase = "config"
  /\ records = <<>>

Continue(next) == phase' = next /\ UNCHANGED <<source, flags, records>>
Refuse == Continue("refused")

\* model_config_from_hf: `supported` stands for the settings that must have one value.
CheckConfig ==
  /\ phase = "config"
  /\ IF source.supported /\ source.config.embedding % source.config.heads = 0
     THEN Continue("names") ELSE Refuse

NamesAreNotMissing == ExpectedNames \subseteq DOMAIN source.state

NamesAreExpected ==
  /\ ExpectedNames \subseteq DOMAIN source.state
  /\ DOMAIN source.state \subseteq ExpectedNames \cup IgnoredBuffers

\* Missing and unexpected tensors, and the output embedding.
CheckNames ==
  /\ phase = "names"
  /\ IF NamesAreExpected /\ source.tied THEN Continue("tensors") ELSE Refuse

\* The specs that have a record are those before the first that has none.
Collected == Cardinality({i \in DOMAIN records : Len(records[i].name) = 2})

CollectTensor ==
  /\ phase = "tensors" /\ Collected < Len(Specs)
  /\ LET spec == Specs[Collected + 1]
         tensor == source.state[spec.name]
     IN IF tensor.shape = spec.shape
        THEN /\ records' = records \o RecordsOf(spec.name, tensor)
             /\ UNCHANGED <<source, flags, phase>>
        ELSE Refuse

FinishExport ==
  /\ phase = "tensors" /\ Collected = Len(Specs)
  /\ Continue("exported")

ExportNext == CheckConfig \/ CheckNames \/ CollectTensor \/ FinishExport

-----------------------------------------------------------------------------
(* Properties *)

\* How the engine reads a quantized tensor: quantized_matmul takes the scale of the
\* column, the embedding lookup and the tied projection that of the row.
ReadChannel(name, shape, x) ==
  IF name = <<0, "wte.weight">> THEN x \div shape[2] ELSE x % shape[2]

\* Every weight that was quantized comes back, by the scale the engine multiplies it
\* with, within half a step of its channel (docs/quantization.md:50-56), and its int8
\* value is one the loader takes.  No kernel compares a scale with anything but its
\* length, so a scale of the other axis would be silent where a matrix is square.
DequantizedIsNear ==
  \A i \in DOMAIN records :
    records[i].dtype = "int8" =>
      LET name == records[i].name
          weights == source.state[name].data
          scales == records[i + 1].data
      IN \A x \in DOMAIN weights :
           LET q == records[i].data[x]
               channel == ReadChannel(name, records[i].shape, x)
           IN /\ q \in -Levels..Levels
              /\ channel \in DOMAIN scales
              /\ 2 * Magnitude(q * scales[channel] - weights[x] * Levels) <= scales[channel]

\* The names of a state dictionary that is a GPT-2 of the configuration, and nothing but
\* buffers beside them.
IsExportable(s) ==
  /\ s.supported /\ s.tied /\ s.config.embedding % s.config.heads = 0
  /\ \A i \in DOMAIN TensorSpecs(s.config) :
       LET spec == TensorSpecs(s.config)[i]
       IN spec.name \in DOMAIN s.state /\ s.state[spec.name].shape = spec.shape
  /\ \A name \in DOMAIN s.state :
       \/ name[2] \in {"attn.bias", "attn.masked_bias"} /\ name[1] \in 1..s.config.layers
       \/ \E i \in DOMAIN TensorSpecs(s.config) : TensorSpecs(s.config)[i].name = name

\* What is exported is a model of the kind the engine runs, all of it, and no other is:
\* a model with a tensor the engine has no place for is refused, not cut down to what it
\* has one for.
ExportsExactlyModels ==
  /\ phase = "exported" => IsExportable(source)
  /\ phase = "refused" => ~IsExportable(source)
=============================================================================
