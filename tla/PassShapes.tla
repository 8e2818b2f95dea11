----------------------------- MODULE PassShapes -----------------------------
(***************************************************************************)
(* A forward pass over a checkpoint that validate_checkpoint_schema        *)
(* accepted, as far as shapes go: every lookup of a tensor, every check of *)
(* a rank, a dimension or a scale that src/model.cpp, transformer.cpp,     *)
(* attention.cpp, layers.cpp and tensor_ops.cpp make on the way, and the   *)
(* size of every tensor they allocate.                                     *)
(*                                                                         *)
(* The schema compares a checkpoint with a list of shapes; the kernels     *)
(* compare tensors with one another.  The composition of the two shows     *)
(* that the list is what the kernels want.                                 *)
(***************************************************************************)
EXTENDS CheckpointSchema

VARIABLE pass   \* the forward pass under way, or how it ended

passVars == <<checkpoint, stage, layer, precision, quantized, pass>>

NoPass == [stage |-> "none"]

PassInit == Init /\ pass = NoPass

\* checked_numel: no dimension is zero, and their product is a size_t.
Fits(shape) ==
  IF Len(shape) = 1 THEN shape[1] \in 1..MaxSize ELSE shape[1] * shape[2] \in 1..MaxSize

Width(shape) == shape[Len(shape)]

\* What is left of a step that makes the checks `valid` and allocates tensors of
\* the shapes `results`: an exception of one kind or the other, or the next step.
Perform(valid, results, next) ==
  pass' = IF ~valid THEN [pass EXCEPT !.stage = "failed", !.reason = "mismatch"]
          ELSE IF \A s \in results : Fits(s) THEN next
          ELSE [pass EXCEPT !.stage = "failed", !.reason = "overflow"]

To(next, work) == [pass EXCEPT !.stage = next, !.work = work]

-----------------------------------------------------------------------------
(* The checks of the kernels, on shapes *)

HasFloats(l, parts) == \A part \in parts : <<l, part>> \in Floats
FloatOf(l, part) == checkpoint.floats[<<l, part>>]

\* The block of a layer is quantized if its c_attn is.
WeightOf(l, part) ==
  IF IsInt8(l, "attn.c_attn.weight") THEN checkpoint.int8s[<<l, part>>] ELSE FloatOf(l, part)

IsVector(shape, size) == Len(shape) = 1 /\ shape[1] = size
IsMatrix(shape, rows, columns) == Len(shape) = 2 /\ shape[1] = rows /\ shape[2] = columns

NormChecks(input, l, weight, bias) ==
  /\ IsVector(FloatOf(l, weight), Width(input))
  /\ IsVector(FloatOf(l, bias), Width(input))

\* linear and quantized_linear, with quantized_matmul's check of the scale.
LinearChecks(input, l, weight, bias) ==
  LET w == WeightOf(l, weight) IN
  /\ Len(input) = 2 /\ Len(w) = 2 /\ w[1] = input[2]
  /\ IsVector(FloatOf(l, bias), w[2])
  /\ IsInt8(l, "attn.c_attn.weight") => IsVector(FloatOf(l, ScalePart(weight)), w[2])

LinearShape(input, l, weight) == <<input[1], WeightOf(l, weight)[2]>>

\* derive_attention_shapes, validate_attention and validate_quantized_attention.
AttentionChecks(input, l) ==
  LET e == input[2] IN
  /\ Len(input) = 2 /\ Config.heads # 0 /\ e % Config.heads = 0 /\ e <= MaxSize \div 3
  /\ IsMatrix(WeightOf(l, "attn.c_attn.weight"), e, 3 * e)
  /\ IsVector(FloatOf(l, "attn.c_attn.bias"), 3 * e)
  /\ IsMatrix(WeightOf(l, "attn.c_proj.weight"), e, e)
  /\ IsVector(FloatOf(l, "attn.c_proj.bias"), e)
  /\ IsInt8(l, "attn.c_attn.weight") =>
       /\ IsVector(FloatOf(l, "attn.c_attn.weight.quant_scale"), 3 * e)
       /\ IsVector(FloatOf(l, "attn.c_proj.weight.quant_scale"), e)

\* A cache of the model's configuration: its width and its room.
CacheChecks(input) ==
  pass.cached => /\ Config.embedding = input[2]
                 /\ pass.start <= Config.context /\ input[1] <= Config.context - pass.start

\* causal_scaled_dot_product_attention, softmax and matmul included, for a head.
HeadChecks(query, key, offset) ==
  /\ query[2] = key[2]
  /\ offset <= key[1] /\ query[1] <= key[1] - offset

\* The two embedding lookups, of token ids up to `token` and of the positions
\* from pass.start.
EmbeddingTableOf == IF IsInt8(0, "wte.weight") THEN checkpoint.int8s[<<0, "wte.weight">>]
                    ELSE FloatOf(0, "wte.weight")

EmbeddingChecks ==
  /\ EmbeddingLookups
  /\ Len(EmbeddingTableOf) = 2
  /\ IsInt8(0, "wte.weight") =>
       IsVector(FloatOf(0, "wte.weight.quant_scale"), EmbeddingTableOf[1])
  /\ Len(FloatOf(0, "wpe.weight")) = 2
  /\ pass.start + pass.tokens <= FloatOf(0, "wpe.weight")[1]
  /\ EmbeddingTableOf[2] = FloatOf(0, "wpe.weight")[2]

LogitsChecks(input) ==
  /\ Len(input) = 2 /\ Len(EmbeddingTableOf) = 2 /\ EmbeddingTableOf[2] = input[2]
  /\ IsInt8(0, "wte.weight") =>
       IsVector(FloatOf(0, "wte.weight.quant_scale"), EmbeddingTableOf[1])

-----------------------------------------------------------------------------
(* The pass *)

\* A pass of so many tokens, the ids of which go up to `token`.  A cached pass
\* starts behind what the cache holds.  A pass leaves no shape behind, so that one
\* of each kind stands for all that follow one another.
BeginPass(tokens, token, cached, start, lastOnly) ==
  /\ stage = "accepted" /\ pass = NoPass
  /\ ~cached => start = 0
  /\ tokens <= Config.context - start
  /\ pass' = [stage |-> "embed", tokens |-> tokens, token |-> token, cached |-> cached,
              start |-> start, lastOnly |-> lastOnly, layer |-> 1,
              hidden |-> <<>>, work |-> <<>>, reason |-> "none"]

Embed ==
  /\ pass.stage = "embed"
  /\ IF EmbeddingChecks /\ pass.token >= EmbeddingTableOf[1]
     THEN pass' = [pass EXCEPT !.stage = "failed", !.reason = "unknown token"]
     ELSE LET state == <<pass.tokens, EmbeddingTableOf[2]>>
          IN Perform(EmbeddingChecks, {state}, [pass EXCEPT !.stage = "bind", !.hidden = state])

\* run_transformer_layer: the block is bound, and its input normalised.
Bind ==
  /\ pass.stage = "bind" /\ pass.layer <= Config.layers
  /\ Perform(/\ LayerLookups(pass.layer)
             /\ Len(pass.hidden) = 2
             /\ NormChecks(pass.hidden, pass.layer, "ln_1.weight", "ln_1.bias"),
             {pass.hidden}, To("project", pass.hidden))

Project ==
  /\ pass.stage = "project"
  /\ LET qkv == LinearShape(pass.work, pass.layer, "attn.c_attn.weight")
     IN Perform(/\ AttentionChecks(pass.work, pass.layer)
                /\ CacheChecks(pass.work)
                /\ LinearChecks(pass.work, pass.layer, "attn.c_attn.weight", "attn.c_attn.bias"),
                {qkv}, To("heads", qkv))

\* The heads, which all have one shape, and the rows they are merged into.
Attend ==
  /\ pass.stage = "heads"
  /\ LET size == pass.hidden[2] \div Config.heads
         total == IF pass.cached THEN pass.start + pass.work[1] ELSE pass.work[1]
         offset == IF pass.cached THEN pass.start ELSE 0
         query == <<pass.work[1], size>>
         key == <<total, size>>
         merged == <<pass.work[1], pass.hidden[2]>>
     IN Perform(HeadChecks(query, key, offset),
                {query, key, <<size, total>>, <<pass.work[1], total>>, merged},
                To("output", merged))

\* The output projection, the residual, and the second norm.
Output ==
  /\ pass.stage = "output"
  /\ LET output == LinearShape(pass.work, pass.layer, "attn.c_proj.weight")
     IN Perform(/\ LinearChecks(pass.work, pass.layer, "attn.c_proj.weight", "attn.c_proj.bias")
                /\ output = pass.hidden
                /\ NormChecks(output, pass.layer, "ln_2.weight", "ln_2.bias"),
                {output}, To("expand", output))

\* The first half of feed_forward: linear and gelu.
Expand ==
  /\ pass.stage = "expand"
  /\ LET expanded == LinearShape(pass.work, pass.layer, "mlp.c_fc.weight")
     IN Perform(LinearChecks(pass.work, pass.layer, "mlp.c_fc.weight", "mlp.c_fc.bias"),
                {expanded}, To("contract", expanded))

\* The second half, the residual, and the next layer.
Contract ==
  /\ pass.stage = "contract"
  /\ LET contracted == LinearShape(pass.work, pass.layer, "mlp.c_proj.weight")
     IN Perform(/\ LinearChecks(pass.work, pass.layer, "mlp.c_proj.weight", "mlp.c_proj.bias")
                /\ contracted = pass.hidden,
                {contracted}, [pass EXCEPT !.stage = "bind", !.layer = @ + 1])

LogitsAsWideAsTheState(rows) == <<rows[1], EmbeddingTableOf[2]>>

LogitsShape(rows) == <<rows[1], EmbeddingTableOf[1]>>

\* The final norm, the last row, and the tied output projection.
Logits ==
  /\ pass.stage = "bind" /\ pass.layer > Config.layers
  /\ LET rows == IF pass.lastOnly THEN <<1, pass.hidden[2]>> ELSE pass.hidden
     IN Perform(/\ HasFloats(0, {"ln_f.weight", "ln_f.bias"})
                /\ NormChecks(pass.hidden, 0, "ln_f.weight", "ln_f.bias")
                /\ LogitsChecks(rows),
                {pass.hidden, rows, LogitsShape(rows)}, To("answered", LogitsShape(rows)))

PassStep == Embed \/ Bind \/ Project \/ Attend \/ Output \/ Expand \/ Contract \/ Logits

PassNext ==
  \/ Next /\ UNCHANGED pass
  \/ /\ \/ \E tokens \in 1..Config.context, token \in 0..Config.vocabulary,
              cached, lastOnly \in BOOLEAN, start \in 0..Config.context :
             BeginPass(tokens, token, cached, start, lastOnly)
        \/ PassStep
     /\ UNCHANGED vars

PassSpec == PassInit /\ [][PassNext]_passVars

-----------------------------------------------------------------------------
(* Properties *)

\* A model that was constructed answers every pass: no lookup of a tensor fails and no
\* kernel finds a rank, a dimension, a scale or a position that does not fit another,
\* whatever the mixture of precisions.  What is left to fail is an id the vocabulary
\* does not have, and a tensor of more elements than a size_t counts.
PassFailsOnlyForASize ==
  pass.stage = "failed" => pass.reason \in {"unknown token", "overflow"}

\* The logits have a row for each token, or for the last one, and a column for each word
\* of the vocabulary: generation indexes them without a check.
LogitsCoverTheVocabulary ==
  pass.stage = "answered" =>
    pass.work = <<IF pass.lastOnly THEN 1 ELSE pass.tokens, Config.vocabulary>>
=============================================================================
