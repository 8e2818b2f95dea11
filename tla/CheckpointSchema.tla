-------------------------- MODULE CheckpointSchema --------------------------
(***************************************************************************)
(* validate_checkpoint_schema (src/model.cpp): which checkpoints become a  *)
(* model, and what the forward pass later looks up in them without a       *)
(* check of its own.                                                       *)
(*                                                                         *)
(* A name is a pair of a layer (from 1; 0 for the tensors outside the      *)
(* layers) and the part of the layer, as the code puts a prefix before a   *)
(* fixed suffix.  A checkpoint maps names to shapes, floats and int8s      *)
(* apart; load_checkpoint makes sure that no name is both.                 *)
(***************************************************************************)
EXTENDS Naturals, Sequences, FiniteSets

CONSTANTS
  Checkpoints,   \* [config, floats, int8s]
  MaxSize        \* the largest size_t

TopLevelTensorCount == 4
TensorsPerLayer == 12

EmbeddingPart == "wte.weight"
TopParts == {"wte.weight", "wpe.weight", "ln_f.weight", "ln_f.bias"}

LinearParts == {"attn.c_attn.weight", "attn.c_proj.weight",
                "mlp.c_fc.weight", "mlp.c_proj.weight"}

PlainParts == {"ln_1.weight", "ln_1.bias", "ln_2.weight", "ln_2.bias",
               "attn.c_attn.bias", "attn.c_proj.bias",
               "mlp.c_fc.bias", "mlp.c_proj.bias"}

ScaleParts == {"attn.c_attn.weight.quant_scale", "attn.c_proj.weight.quant_scale",
               "mlp.c_fc.weight.quant_scale", "mlp.c_proj.weight.quant_scale"}

ScalePart(part) ==
  CASE part = "wte.weight"         -> "wte.weight.quant_scale"
    [] part = "attn.c_attn.weight" -> "attn.c_attn.weight.quant_scale"
    [] part = "attn.c_proj.weight" -> "attn.c_proj.weight.quant_scale"
    [] part = "mlp.c_fc.weight"    -> "mlp.c_fc.weight.quant_scale"
    [] part = "mlp.c_proj.weight"  -> "mlp.c_proj.weight.quant_scale"

ScaleName(name) == <<name[1], ScalePart(name[2])>>

\* The shape a part has in a model of a configuration.
ShapeOf(config, part) ==
  LET e == config.embedding IN
  CASE part = "wte.weight"         -> <<config.vocabulary, e>>
    [] part = "wpe.weight"         -> <<config.context, e>>
    [] part = "attn.c_attn.weight" -> <<e, 3 * e>>
    [] part = "attn.c_attn.bias"   -> <<3 * e>>
    [] part = "attn.c_proj.weight" -> <<e, e>>
    [] part = "mlp.c_fc.weight"    -> <<e, 4 * e>>
    [] part = "mlp.c_fc.bias"      -> <<4 * e>>
    [] part = "mlp.c_proj.weight"  -> <<4 * e, e>>
    [] OTHER                       -> <<e>>

\* One scale for each channel: a row of the embedding, a column of a weight.
ScaleShape(config, part) ==
  <<ShapeOf(config, part)[IF part = EmbeddingPart THEN 1 ELSE 2]>>

ASSUME SchemaAssumption ==
  /\ MaxSize \in Nat
  /\ \A c \in Checkpoints :
       /\ {c.config.vocabulary, c.config.context, c.config.embedding,
            c.config.heads, c.config.layers} \subseteq Nat \ {0}
       /\ IsFiniteSet(DOMAIN c.floats) /\ IsFiniteSet(DOMAIN c.int8s)
       /\ DOMAIN c.floats \cap DOMAIN c.int8s = {}

VARIABLES
  checkpoint,   \* the checkpoint to validate
  stage,        \* what is looked at next, or the verdict
  layer,        \* layers that passed
  precision,    \* transformer_weight_precision, or "unknown"
  quantized     \* quantized_tensor_count

vars == <<checkpoint, stage, layer, precision, quantized>>

Floats == DOMAIN checkpoint.floats
Int8s == DOMAIN checkpoint.int8s
Config == checkpoint.config

Init ==
  /\ checkpoint \in Checkpoints
  /\ stage = "sizes"
  /\ layer = 0
  /\ precision = "unknown"
  /\ quantized = 0

Reject == stage' = "rejected" /\ UNCHANGED <<checkpoint, layer, precision, quantized>>

\* require_tensor and require_linear_weight.
HasTensor(l, part) ==
  /\ <<l, part>> \in Floats
  /\ checkpoint.floats[<<l, part>>] = ShapeOf(Config, part)

IsInt8(l, part) == <<l, part>> \in Int8s

HasWeight(l, part) ==
  IF IsInt8(l, part)
  THEN /\ checkpoint.int8s[<<l, part>>] = ShapeOf(Config, part)
       /\ ScaleName(<<l, part>>) \in Floats
       /\ checkpoint.floats[ScaleName(<<l, part>>)] = ScaleShape(Config, part)
  ELSE HasTensor(l, part)

\* The arithmetic on the configuration.
LayersCountableWithoutScales ==
  Config.layers <= (MaxSize - TopLevelTensorCount) \div TensorsPerLayer
LayersCountable ==
  Config.layers <= (MaxSize - (TopLevelTensorCount + 1)) \div (TensorsPerLayer + 4)

GoodSizes ==
  /\ Config.embedding % Config.heads = 0
  /\ LayersCountable
  /\ 4 * Config.embedding <= MaxSize

CheckSizes ==
  /\ stage = "sizes"
  /\ IF GoodSizes
     THEN stage' = "embeddings" /\ UNCHANGED <<checkpoint, layer, precision, quantized>>
     ELSE Reject

CheckEmbeddings ==
  /\ stage = "embeddings"
  /\ IF HasWeight(0, "wte.weight") /\ HasTensor(0, "wpe.weight")
     THEN /\ stage' = "layers"
          /\ quantized' = IF IsInt8(0, "wte.weight") THEN 1 ELSE 0
          /\ UNCHANGED <<checkpoint, layer, precision>>
     ELSE Reject

\* A layer is of one precision, and of the precision of the layers before it.
LayerPrecision(l) == IF IsInt8(l, "attn.c_attn.weight") THEN "int8" ELSE "fp32"

UniformWithAttention(l) ==
  /\ IsInt8(l, "attn.c_proj.weight") <=> IsInt8(l, "attn.c_attn.weight")
  /\ precision \in {"unknown", LayerPrecision(l)}
Uniform(l) ==
  /\ \A part \in LinearParts : IsInt8(l, part) <=> IsInt8(l, "attn.c_attn.weight")
  /\ precision \in {"unknown", LayerPrecision(l)}

CheckLayer ==
  /\ stage = "layers" /\ layer < Config.layers
  /\ LET l == layer + 1 IN
     IF /\ \A part \in LinearParts : HasWeight(l, part)
        /\ \A part \in PlainParts : HasTensor(l, part)
        /\ Uniform(l)
     THEN /\ layer' = l
          /\ precision' = LayerPrecision(l)
          /\ quantized' = quantized + (IF LayerPrecision(l) = "int8" THEN 4 ELSE 0)
          /\ UNCHANGED <<checkpoint, stage>>
     ELSE Reject

\* The final norm, and the number of tensors: everything looked up so far is
\* there, so only the number can tell that there is something else.
TensorCount == Cardinality(Floats) + Cardinality(Int8s)

ExpectedCount ==
  Config.layers * TensorsPerLayer + TopLevelTensorCount + quantized

CountIsEnough == TensorCount >= ExpectedCount
CountIsRight == TensorCount = ExpectedCount

CheckEnd ==
  /\ stage = "layers" /\ layer = Config.layers
  /\ IF HasTensor(0, "ln_f.weight") /\ HasTensor(0, "ln_f.bias") /\ CountIsRight
     THEN stage' = "accepted" /\ UNCHANGED <<checkpoint, layer, precision, quantized>>
     ELSE Reject

Ended == stage \in {"accepted", "rejected"} /\ UNCHANGED vars

Next == CheckSizes \/ CheckEmbeddings \/ CheckLayer \/ CheckEnd \/ Ended

Spec == Init /\ [][Next]_vars

-----------------------------------------------------------------------------
(* What the forward pass looks up: lookup_token_embeddings,                *)
(* compute_tied_logits, bind_block and bind_quantized_block.  A lookup of  *)
(* a name that is not there throws out of a pass.                          *)

EmbeddingLookups ==
  /\ IF IsInt8(0, "wte.weight")
     THEN <<0, "wte.weight">> \in Int8s /\ <<0, "wte.weight.quant_scale">> \in Floats
     ELSE <<0, "wte.weight">> \in Floats
  /\ {<<0, "wpe.weight">>, <<0, "ln_f.weight">>, <<0, "ln_f.bias">>} \subseteq Floats

\* run_transformer_layer asks c_attn alone which block to bind.
LayerLookups(l) ==
  /\ \A part \in PlainParts : <<l, part>> \in Floats
  /\ IF IsInt8(l, "attn.c_attn.weight")
     THEN /\ \A part \in LinearParts : <<l, part>> \in Int8s
          /\ \A part \in ScaleParts : <<l, part>> \in Floats
     ELSE \A part \in LinearParts : <<l, part>> \in Floats

-----------------------------------------------------------------------------
(* Properties. *)

\* The sum the count is compared with does not wrap around.
TypeOK ==
  /\ stage \in {"sizes", "embeddings", "layers", "accepted", "rejected"}
  /\ layer \in 0..Config.layers
  /\ precision \in {"unknown", "fp32", "int8"}
  /\ quantized \in 0..(4 * layer + 1)
  /\ stage = "layers" => ExpectedCount <= MaxSize

\* No pass on a model that was constructed asks the checkpoint for a tensor it
\* does not have, or for one of the other precision.
LookupsSucceed ==
  stage = "accepted" =>
    EmbeddingLookups /\ \A l \in 1..Config.layers : LayerLookups(l)

\* The names of the tensors of a model, with the embedding quantized or not, and
\* the layers.
QuantizedNames(config, wte, layers) ==
  (IF wte THEN {<<0, "wte.weight">>} ELSE {})
    \cup (IF layers THEN (1..config.layers) \X LinearParts ELSE {})

ScaleNames(config, wte, layers) ==
  (IF wte THEN {<<0, "wte.weight.quant_scale">>} ELSE {})
    \cup (IF layers THEN (1..config.layers) \X ScaleParts ELSE {})

BaseNames(config) ==
  ({0} \X TopParts) \cup ((1..config.layers) \X (LinearParts \cup PlainParts))

IsModel(wte, layers) ==
  LET q == QuantizedNames(Config, wte, layers)
      s == ScaleNames(Config, wte, layers)
  IN /\ Int8s = q
     /\ Floats = (BaseNames(Config) \ q) \cup s
     /\ \A n \in q :
          /\ checkpoint.int8s[n] = ShapeOf(Config, n[2])
          /\ checkpoint.floats[ScaleName(n)] = ScaleShape(Config, n[2])
     /\ \A n \in BaseNames(Config) \ q :
          checkpoint.floats[n] = ShapeOf(Config, n[2])

\* What is accepted has the tensors of a model, of the right shapes, and no
\* other: counting them after the lookups amounts to comparing the sets.
AcceptedIsModel ==
  stage = "accepted" => \E wte, layers \in BOOLEAN : IsModel(wte, layers)

\* And no model of a configuration the code can count is rejected.
RejectedIsNoModel ==
  stage = "rejected" /\ GoodSizes => ~\E wte, layers \in BOOLEAN : IsModel(wte, layers)

\* The two together: looking up the known names and counting the rest decides, over all
\* mixtures of precisions, what a model is.
AcceptsExactlyModels == AcceptedIsModel /\ RejectedIsNoModel
=============================================================================
