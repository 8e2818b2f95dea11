# gpt2-cpp in TLA+

A verification project for gpt2-cpp, a GPT-2 inference engine: a C++20 library
and command line (`src/src`, `src/include/gpt2`) that loads a checkpoint,
tokenizes a prompt, runs the transformer with or without a key/value cache and
generates tokens, and Python tools (`src/tools`) that write the checkpoints.

## 1. Inventory

The engine is single-threaded (docs/benchmarks.md, "Thread configuration") and
nothing in it is persistent but the checkpoint file. What makes it hard is not
interleaving threads but *objects that outlive a failure*: a forward pass on a
`KvCache` is a long sequence of steps, every one of which may throw, and the
caller keeps the cache.

| Component | State it keeps | Operations | Talks to | What is hard | What makes it correct |
|---|---|---|---|---|---|
| Cached forward pass (`model.cpp`, `attention.cpp`, `transformer.cpp`) | `KvCache`: one `AttentionCache` (rows, length) per layer, owner id; `Gpt2Model`: tensors, identity | construct, move, `forward`, `forward_last_token_logits` (with and without cache), `clear`, `length`, `capacity` | checkpoint (reads tensors), generation (calls it once per token) | failure between layers, stale rows, identity through moves, capacity boundary | a cached pass answers what an uncached one would, or changes nothing |
| Generation (`generation.cpp`) | the text, the cache, the random engine | `generate_greedy`, `generate_sampled` | model, CLI | order of the limits, last pass, equality of cached and uncached runs | stops for the right reason, within every limit, independent of the cache |
| Sampling (`generation.cpp`) | none | softmax, top-k, top-p, draw | generation | ties, zero weights, rounding | only permitted tokens are drawn |
| Attention arithmetic (`attention.cpp`, `tensor_ops.cpp`) | the key and value rows of one layer | heads, mask, softmax, append | model | flat indices; non-finite values under the mask | each component is causal attention over the rows up to its own |
| Checkpoint schema (`model.cpp`) | none | `validate_checkpoint_schema`, `bind_block` | loader, model, kernels | counting plus lookup must amount to equality | what a pass looks up exists, in the shape its kernels want |
| Loader (`checkpoint.cpp`) | reader position, tensors read so far | `load_checkpoint` | file, model | truncation, duplicates, sizes that overflow, trailing bytes | accepts exactly complete files |
| Writer, exporter (`tools/*.py`) | the file being written, the records collected | `write_checkpoint`, `collect_tensor_records`, `quantize_per_channel` | file, schema | written in place, not atomically; two lists of names in two languages | a reader never takes a partial file for a whole one; what is exported is a model, and near the one exported |
| Tokenizer (`tokenizer.cpp`) | vocabulary, merges, byte alphabet | `load`, `encode`, `decode` | CLI, generation | overlapping merges, whitespace backtracking, tables that must be closed under their rules | encode is total, decode inverts it, pieces are those of the pattern |
| CLI (`cli.cpp`) | options, what was loaded, what was written | `parse_options`, `run_cli` | all | options in any order, a value that looks like an option, output before the last thing that can fail | runs what was asked for or says that it cannot |
| Layers and tensors (`tensor.cpp`, `int8_tensor.cpp`, `layers.cpp`, `tensor_ops.cpp`) | shape, data | construct, kernels | all | overflow of products, shapes that must fit one another | no check of a kernel fires in a model that was constructed |
| Benchmarks, generated tables | – | – | – | – | not modelled |

`PROJECT.json` lists every component with its status, and every hazard with its
line and the properties that cover it.

## 2. Modules

| Module | What it is |
|---|---|
| `TransformerStack` | The arithmetic of a pass, uninterpreted: constants `Embed`, `ProjectKV`, `Block`, `TiedLogits`, and `Uncached`, the row an uncached pass computes for the last token of a text |
| `KvCache` | Models, caches and forward passes: one action per operation on the objects and, inside a pass, one per stretch of code between two points whose difference a failure shows |
| `CachedDecoding` | What a cache promises its caller: it is a text and the model that reads it |
| `KvCacheRefinement` | The mapping from `KvCache` to `CachedDecoding` |
| `Generation` | `run_generation`, over the passes of `CachedDecoding` |
| `Cli` | `parse_options` and `run_cli`, down to the call of `Generation` and the output; extends it |
| `Sampling` | `sampling_distribution` and `sample_token` |
| `CheckpointFormat` | The file format: units, records, how tensors are written |
| `CheckpointLoader` | `load_checkpoint`, extends `CheckpointFormat` |
| `CheckpointFile` | A loader and a writer (`tools/checkpoint_writer.py`) that share a file, extends `CheckpointLoader` |
| `Attention` | `multi_head_self_attention` with its kernels, on numbers and flat indices |
| `CheckpointSchema` | `validate_checkpoint_schema`, and the lookups of the forward pass that rely on it |
| `PassShapes` | A pass as far as shapes go: every check of every kernel; extends `CheckpointSchema` |
| `Exporter` | `collect_tensor_records` and `quantize_per_channel` (`tools/export_gpt2.py`) |
| `ExportedModel` | From the exporter through the schema check to the logits; extends the two before |
| `PreTokenizer` | `match_piece`, and the regular expression of docs/tokenizer.md with the meaning a backtracking engine gives it |
| `TokenizerLoader` | `Gpt2Tokenizer::load` |
| `Tokenizer` | `load`, then `encode`, then `decode`; extends the two before |
| `TextPrefix` | The first tokens of a text, which three modules speak of |
| `DataLemmas` | Induction over numbers, finite sets and sequences in the form of sets, and what it says of `FlattenSeq`, sums and products; lemmas about prefixes and concatenation |
| `KvCacheProofs`, `AttentionProofs`, `GenerationProofs`, `SamplingProofs`, `CheckpointLoaderProofs`, `CheckpointSchemaProofs`, `TokenizerProofs` | Theorems about the module each one extends, for all values of its constants; `KvCacheProofs` extends `KvCacheRefinement`, `GenerationProofs` extends `Cli`, `CheckpointLoaderProofs` extends `CheckpointFile`, and `CheckpointSchemaProofs` extends `ExportedModel` |
| `MC*` | The instances TLC checks; a cfg file of the same name or with its first part |

How they compose: `KvCache` implements `CachedDecoding` (checked); `Generation`
uses `CachedDecoding`'s actions as its forward passes, so what is shown of the
loop holds over the real cache. `CheckpointFile` runs `CheckpointLoader`'s
actions, unchanged, on a file that another process writes.
`CheckpointSchema` starts from what `CheckpointLoader` returns (names unique
across both maps) or, in `ExportedModel`, from what the exporter collected, and
`PassShapes` goes on where it accepts. `Cli` puts the job of `Generation`
together, runs its steps and prints what came of them; a second kind of
initial state stands for the callers that use the library without the command.
`Attention` is the interior of the two steps `AppendRows` and `AttendAndCommit` of
`KvCache`: the text-prefix reading of a row that `TransformerStack` assumes is
what `Attention` shows of finite values.

### `KvCache`

`models[m]` is a `Gpt2Model` object (identity, configuration, tensors),
`nextIdentity` the static counter of `next_model_identity`, `caches[c]` a
`KvCache` (per layer the rows and `length_m`; shape; owner). `call` holds the
locals of the pass under way: its stage, layer, hidden rows and
`sequence_start`. `reply` is what the last pass returned or threw. Two
variables are ghosts: `fed[c]` is the text written to the cache's positions and
`minted[id]` the weights an identity was drawn for.

| Actions | Code |
|---|---|
| `ConstructModel`, `RejectCheckpoint`, `MoveModel` | `Gpt2Model`'s constructor (the identity is drawn before the schema check can throw), defaulted moves |
| `BuildCache`, `ClearCache`, `CopyCache`, `MoveCache` | `KvCache`'s constructor, `clear`, implicit copy and move: integers are copied, the vector is moved |
| `AcceptCached`, `RefuseCached`, `AcceptUncached`, `RefuseUncached` | `validate_cached_forward`, `validate_token_sequence`, in the order of their checks |
| `EmbedTokens` | position ids, both lookups, `add` |
| `AppendRows` | a cached attention layer up to the second `append_to_cache` |
| `AttendAndCommit` | its heads and `cache.length_m = total` |
| `RunUncachedLayer` | a layer without a cache |
| `FinishLayer` | output projection, feed-forward, next layer or final norm |
| `ReturnLogits` | last-row extraction, tied logits, the owner |
| `Throw`, `Rollback` | an exception from any stage, the handler that resets the lengths |

The quantized twins of these functions (`quantized_transformer_block`,
`quantized_multi_head_self_attention`, ...) have the same control; which of the
two runs is part of what `Block` means for a checkpoint. `forward` and
`forward_last_token_logits` differ in `lastOnly`.

`Throw` may fire at every stage because every stage allocates tensors. An
exception between the two `append_to_cache` calls is not modelled: neither call
can throw.

### `Generation`

`job` holds the arguments of the call, `feed` is `pending` in a cached run and
`sequence` in an uncached one, `length`, `new` and `stop` are the locals of the
same names, `draws` counts the random numbers taken, and `sessions` is the
call's own cache as `CachedDecoding` sees it.

| Actions | Code |
|---|---|
| `Begin` | the checks of the prompt, the first tokens to feed |
| `StopAtALimit` | the loop's condition and the test of the context at its top |
| `Forward` | `forward_last_token_logits`, cached or not; a pass may be refused, fail or answer |
| `NoChoice`, `ChooseToken` | `most_likely_token` or `sample_token` throws; the token is appended, compared with the end of the text, and becomes what is fed next |

### `Cli`

`phase` is how far `run_cli` is, `at` the index of `parse_options`, `given` the
options met so far, `tokenizer` and `model` what was loaded, `output` what has been
written to standard output and `outcome` why the command ended.

| Actions | Code |
|---|---|
| `ShowHelp` | `requests_help`, which looks at every argument before any is parsed |
| `TakeValue`, `TakeFlag`, `UnknownOption` | one turn of the loop of `parse_options`, with `set_once` and the conversion of the value |
| `CheckOptions` | what is judged after the loop |
| `LoadTokenizer`, `LoadModel` | the assets, and the comparison of the two vocabulary sizes |
| `CallGeneration` | `encode`, and the call of `generate_greedy` or `generate_sampled` |
| `Generate` | a step of `Generation` |
| `PrintPrompt`, `DecodeTokens` | the prompt is written; `decode`, and the rest of the output |

### `CheckpointFormat`, `CheckpointLoader`, `CheckpointFile`

A file is a sequence of *units*, numbers up to `MaxWord`. A field of a header,
a dimension, a byte of a name and a byte of an int8 payload take one unit,
a float takes `Float32Size`; the configuration is one unit, and so are magic,
version and header size together. Products that exceed `MaxWord` are what overflows
in the code. The loader's state is `BinaryReader` (`position`, `remaining`), the
record under way (`tensor`), the sum of payload sizes and the tensors read.

| Actions | Code |
|---|---|
| `Open` | the size is taken, once |
| `ReadGlobalHeader`, `ReadTensorHeader`, `ReadShape`, `ReadName`, `ReadPayload` | the functions of these names with the validation that follows each |
| `Finish` | the trailing-data check, then `require_quantization_scale` for every int8 tensor |
| `Export`, `Flush`, `Close`, `Crash` | `write_checkpoint`: the checks of `_prepare_tensors`, `open("wb")`, then the file grows by any amount at a time as the buffer is flushed; the writer may die at any unit |
| `OpenFile`, `LoadFile`, `LoadAgain` | a caller that loads the file at any moment, again and again |

### `Attention`

A row of the QKV projection is a tuple of numbers; a number is an integer, an
infinity or NaN, with IEEE's rules for their sums, products and comparisons.
`keys` and `values` are the two tensors of an `AttentionCache`, kept as functions
of the flat index, `length` its `length_m`, and `pass` holds the head under way,
its scores and the merged output. `output` is what the last call returned and
`fed`, a ghost, the rows that the cache's positions were computed from.

| Actions | Code |
|---|---|
| `BeginUncached`, `BeginCached`, `Refuse` | the room check and both `append_to_cache` |
| `Score` | `extract_head` or `extract_cached_head`, `transpose`, `matmul`, the mask |
| `Softmax` | `softmax`: the row's maximum by `>`, which is false of NaN, then the exponentials |
| `Weigh` | `matmul` with the values, `store_head`; the next head |
| `Return`, `Throw` | `length_m = total`; an allocation that fails anywhere before |
| `Clear` | `AttentionCache::clear`, which leaves the rows |

### `CheckpointSchema`, `PassShapes`

A name is a layer and a part. `CheckSizes`, `CheckEmbeddings`, `CheckLayer` and
`CheckEnd` are the four stretches of `validate_checkpoint_schema`: products of
the configuration, top-level tensors, one layer (its precision fixed by the
first), and the final comparison of counts. `LookupsSucceed` lists what
`bind_block`, `forward` and `tied_logits` look up later.

`PassShapes` adds the pass: `pass.hidden` is the shape of the residual stream and
`pass.work` that of the tensor being computed. A step that makes a check which
does not hold, or would allocate a tensor of zero or too many elements, ends
the pass with the reason.

| Actions | Code |
|---|---|
| `BeginPass` | a pass that `validate_token_sequence` and `validate_cached_forward` let through, its ids not yet compared with the table |
| `Embed` | the two embedding lookups, float or int8, and `add` |
| `Bind` | `bind_block` or its quantized twin, chosen by `c_attn` alone; the first `layer_norm` |
| `Project`, `Attend`, `Output` | the three parts of an attention layer, with the checks of `validate_attention` and of every kernel |
| `Expand`, `Contract` | `feed_forward` and the residual |
| `Logits` | the final norm, the last row, `tied_logits` |

### `Exporter`, `ExportedModel`

`source` is what `load_model` may return: a configuration, a state dictionary and
whether its settings and its output embedding are of the kind the engine has.

| Actions | Code |
|---|---|
| `CheckConfig` | `model_config_from_hf` |
| `CheckNames` | missing and unexpected tensors, the tied embedding |
| `CollectTensor` | one turn of the loop over `expected_tensor_specs`: the shape, then one record, or two if it is quantized |
| `FinishExport` | the end of the loop |
| `Construct` | `Gpt2Model`'s constructor begins, on what was exported |

### `Sampling`

Scores are integers, and so are weights. Probabilities are exact until they are
rounded to float, which is modelled: a float is a multiple of `1/FloatUnit`, so
small probabilities vanish and the sum may be below 1, as in the code.

| Actions | Code |
|---|---|
| `Validate` | `validate_sampling_options` |
| `Scale` | division by the temperature, `NaN` to `-inf`, "no finite logit" |
| `ApplyTopK`, `ApplyTopP` | the two filters |
| `Distribute` | the final softmax |
| `Draw`, `Walk`, `FallBack` | the random number, one token of the cumulative walk, the last token with a probability if rounding leaves the walk short |

### `PreTokenizer`, `TokenizerLoader`, `Tokenizer`

The loader's state is its three tables. A token is a sequence of code points
over the byte alphabet, an entry of the vocabulary file a token and an id, a
line of the merges file the words between its spaces. The encoder's state is
the text with the position of `encode`, the segment with the position of
`encode_segment`, the symbols of the piece, and the sweep of `apply_bpe`.

| Actions | Code |
|---|---|
| `ReadEntry`, `IndexVocabulary` | `parse_vocabulary`; `build_id_to_token`, `require_complete_alphabet` |
| `ReadLine`, `FinishLoad` | `parse_merges`, one line at a time; the checks after it |
| `Encode`, `StartSegment`, `EndSegment` | the split of `encode` at the marker, `decode_utf8` of the segment, the marker's own token |
| `StartPiece` | `match_piece`, the bytes of the piece mapped onto the alphabet |
| `FindPair`, `Sweep`, `EndSweep` | the search for the lowest rank, one element of the sweep, the swap |
| `EmitTokens` | the lookup of every symbol |
| `Decode` | `decode` of some of the ids, or of one that is out of range |

### What the abstractions leave out

* Numbers in a pass. In `KvCache` a row is identified with what it was computed
  from. That the uncached row depends on the prefix alone (`ReferenceAssumption`)
  is what `Attention` shows of the layer in which rows meet, with one exception:
  the mask multiplies by zero instead of skipping, so a later value that is
  infinite or NaN breaks it. `KvCache`'s theorems are about finite values. What
  `layer_norm`, `linear` and `gelu` compute, each from one row, is not modelled.
* In `Attention`, rounding, and the factor 1/sqrt of the head's size on the scores.
* In `Exporter`, the rounding of a scale to float, and the factor 1/127 of every
  scale, by which both sides of the bound are multiplied.
* That floating-point sums are the same cached and uncached: they are taken in
  the same order by the same kernels, one row at a time.
* The decoding of a float in a checkpoint; endianness; which of magic, version and
  header size is wrong.
* What a word of the command line is as a number, which files a path names, and a
  write to standard output that fails.
* `JsonReader`, `read_text_file` and the stripping of carriage returns in the
  tokenizer's files. UTF-8 is a constant function from characters to bytes, and
  everything that is not UTF-8 is one value, `Invalid`.
* The characters of the classes of the pattern (generated tables): the classes
  are constants.

### Definitions named "...With...", "...Without..." and the like

Before some definitions stands a second one with a longer name
(`RolledBackFirstLayer` before `RolledBack`, `SweepWithOverlap` before `Sweep`).
These are plausible bugs of the definition they precede; nothing in the
specification uses them. Put in its place, each makes TLC report the property
that `PROJECT.json` pairs it with.

## 3. Runs

| Run | Instance | Shows |
|---|---|---|
| `cache_pass` | 1 model, 1 cache, 2 layers, context 3, 3 token ids of which one has no embedding row, passes of up to 2 tokens | every cut of every text into passes, with a failure at every stage and every continuation after it, refused passes included |
| `cache_owner` | 2 models of equal configuration and 2 caches, context 2, 3 identities, passes of 1 token, symmetric objects | ownership through moves, copies, assignments, clears and failures |
| `cache_promise` | 1 model, 2 caches, two configurations, passes of up to 3 tokens | `KvCache` implements `CachedDecoding` |
| `command` | several hundred command lines (every option, each word in turn changed, dropped, repeated or preceded by another, every rotation of the options) over models and tokenizers that match or do not; other callers with every prompt of up to 4 tokens and every limit of up to 3; 2 tokens, context 3, every table from texts to the token chosen next, with at most one text after which none can be chosen | a command is accepted exactly if it is one, generates what it asks for, prints all or nothing and ends; cached and uncached runs generate the reference tokens and stop for the right reason |
| `checkpoint_loader` | about six thousand files: checkpoints of up to two tensors, good and bad, and each good one with one unit changed, lost, added, or the end missing; words up to 15 | exactly the checkpoints within the limits are accepted |
| `checkpoint_scales` | whole files with names that end in the scale's suffix once and twice | a violation: see below |
| `checkpoint_file` | two exports over one another, every list of up to two tensors out of a set, a crash at any unit, a reader at any moment | half an export is never taken for a whole one |
| `checkpoint_schema` | models of one to three layers in every mixture of precisions, and each edited once (dropped, added, reshaped, converted, one layer also replaced); state dictionaries good and bad, quantized in every way; passes of every length, start and kind over whatever is accepted | exactly the models are accepted, no check fires in a pass over one, exactly the exportable are exported, within half a step of what they were, and what is exported is accepted |
| `sampling` | 4 tokens, all rows over `{-inf,0,1,2}` and `{NaN,+inf,0,1}`, every combination of options, six draws, floats in fifths | the filters keep what the documentation says and nothing else is drawn |
| `tokenizer` | 2 letters, every merges file of one or two rules and some of three and four in either order, every file with one line or entry wrong, texts of up to 5 letters; with two of the files, all texts of up to 4 characters over 8 characters (two of them of two bytes) and `Invalid` | exactly the usable files are loaded, merging agrees with one-at-a-time merging, pieces are the pattern's, decoding inverts encoding, the marker's token stands for markers |
| `attention` | 2 heads of 2 components, capacity 3, texts of up to three rows out of seven, among them infinite values, NaN, a key of minus infinity and a weight that underflows; every cut into calls, failed and cleared calls before | every component returned is the reference's, but for the one exception |
| `attention_causal` | the same | a violation: see below |

Properties of the cache:

* `LayersAgree` – the comment "Every layer holds the same number" (model.h:22),
  between passes; hence the "different sequence lengths" refusal is dead code.
* `VisibleRowsAreReference` – no row of an earlier text, of a failed pass or of
  another model is visible.
* `AnswerIsReference` – cached equals uncached, for both kinds of pass.
* `OwnedIffPopulated`, `IdentityNamesOneModel` – the owner check is sound.
* `LayerHasRoom` – the check in `validate_cached_forward` covers every layer.
* `ImplementsCachedDecoding` – the refinement, and with it that a pass that
  throws changes nothing the caller can see.

Of the command: `AcceptsExactlyCommands` (against a meaning of the list of
arguments that knows nothing of the order in which it is parsed),
`GeneratesWhatIsAsked` (an action property: the call is the one asked for),
`TokensAreKnownToBoth` and `FailureIsSilent` (the two sizes that are compared are
enough for the prompt to be embedded and the new tokens to be printed),
`EndsEventually`. Of generation under it: `FeedCompletesTheText` (no token twice,
none left out, none for nothing), `TokensAreReference` (cached and uncached runs
agree), `StopIsTheFirstLimit`, `PassesAreNeverRefused` (the loop's tests leave the
model nothing to refuse).

Of checkpoints: `BuffersFitTheFile` (sizes in the file never make the loader ask
for more memory than the file has), `AcceptsExactlyCheckpoints` (the bytes of a
checkpoint within the limits, and no others), `LoadedIsTheExport`,
`WrittenCanBeRead`, `AcceptedIsValid` (over a changing file). Of models:
`AcceptsExactlyModels`, `PassFailsOnlyForASize` and `LogitsCoverTheVocabulary` (the
schema asks for what the kernels want), `ExportsExactlyModels`,
`ExportIsAccepted` (the list of names in Python and the one in C++ agree),
`DequantizedIsNear` (by the scale that the kernel will take).

Of attention: `OutputIsReference`, against causal attention written down for one
query, without cache, mask or flat index.

Of sampling: `KeptIsReference`, `DrawnIsPermitted`, `DrawSelectsItsToken`,
`RefusedIsUnusable`. Of the tokenizer: `LoadsExactlyUsableTables`,
`EncodeIsTotal`, `MergesLowestRankFirst`, `PiecesAreThePattern`,
`DecodeInvertsEncode`, `MarkerIsOnlyFromText`.

Two of these have a limit that is worth knowing.

* `MergesLowestRankFirst` is stated for tables in which no rule uses a symbol
  that it or a later rule makes (`WellOrdered`). Training writes such tables: it makes
  a symbol before it uses it, and makes it once. The
  condition is needed: with the rules `aa a` before `a a`, one sweep of `a a` over
  `aaaa` makes `aa aa`, where merging one pair at a time makes `aa a a` and then
  `aaa a`. `load` accepts such tables, and `encode` stays total on them.
* `LoadedIsTheExport` excludes a reader that an export overtakes. Such a reader
  may accept a mixture of two exports of the same layout; `AcceptedIsValid` says
  that it still returns a well-formed checkpoint.

The disagreements. First, docs/checkpoint-format.md:101-102 says that "`<name>.quant_scale`
is always FP32 regardless of what `<name>` is". The loader looks at the scale of a
tensor only if that tensor is int8, so a file may hold an int8 tensor
`x.quant_scale`, with a scale of its own, whether or not there is an `x`. The run
`checkpoint_scales` finds such a file. The schema check later refuses it as a model.

Second, docs/generation.md:212-213 says that the logits with and without a cache
"are **bit for bit identical**", because, 223-224, multiplying the zero weights of
masked rows by their values "contributes exact zeros to the output as well". `matmul`
(tensor_ops.cpp:59) does multiply them, and zero times an infinity or NaN is NaN: a
pass over several rows makes a component of an earlier row NaN where a pass that
stops at that row gives a number. The run `attention_causal` finds two such
rows. Finite weights can reach it only by overflow, but payloads of a
checkpoint are not checked for finiteness, so it takes no more than a file.
`OutputIsReference` says exactly which components are affected.

### Bounds

* Cache. The properties compare a layer with its neighbour, a position with the
  one before it, and a pass with the one before it: two layers, three positions
  and passes of one and two tokens let a pass start at 0, in the middle and at the
  end of the context, fill it, and overrun it. Two models suffice for "another
  model"; three identities let one of them be replaced. `MaxIdentity` and
  `MaxCallTokens` are the only bounds on behaviours; the texts are bounded by the
  context itself. `MCKvCache` interprets rows as terms, so two rows are equal
  only if they were computed from the same things.
* Attention. Two heads of two components make every stride and offset that can
  be confused differ; three rows let a call start behind a cached row and still
  have a later row of its own. `MCExp` halves the weight with every unit and is
  zero at the fourth, so that weights differ and underflow.
* Commands. The longest command has every option, so that any two of them can
  be confused; it asks for no token, as what it generates is left to the
  shorter ones. Decimals are in tenths. The files `c` and `d` hold models of both
  vocabulary sizes, as the tokenizer's does.
* Generation. `MaxPromptTokens` and `MaxNewTokens` let a prompt be empty, fit,
  fill and overrun the context, and each limit be reached first, last and at once.
* Files. `MaxWord` is 15, so that products of two dimensions overflow;
  `MaxTensors`, `MaxRank`, `MaxNameSize`, `MaxPayload` and `MaxTotalPayload` are
  the code's own limits, set so that each one is met and exceeded.
  Two tensors suffice for a duplicate, a scale and a sum.
  `MaxExports` is 2: the second one meets what the first left behind.
* Schema. `MaxSize` is 41: enough for two layers and the widest of the shapes used,
  not for three layers or an embedding of eleven, so that both of the code's
  overflow checks fire. Three layers are refused only for that. A pass of six
  tokens makes a tensor of 42 elements, one of five fits. `Levels` is 3: weights
  of magnitude up to seven are quantized, with ties to be rounded both ways, and channels of
  zeros.
* Sampling. Four tokens give ties of two, three and four, ties on both sides of a
  boundary, and a probability that rounds to nothing. Draws in sixths and floats in
  fifths put draws on, below and above the boundaries of tokens.
* Tokenizer. Strings over two letters of length five hold every overlap of pairs
  of one- and two-letter symbols; four characters hold every alternative of the
  pattern with a space before it and a character of any class behind it, and a
  marker with something on either side. `MaxVocabularySize` and `MaxTokenLength`
  are the code's own limits, met and exceeded.

`CHECK_DEADLOCK` stays on everywhere: some operation on a cache is always
possible, and a call that has ended stutters by an action of its own.

### Fairness

`CliSpec` states it, and `Generation`'s own `Spec`: weak fairness of their steps. The
command runs on its own thread and waits for nobody, so as long as it can take a
step it takes one; a load and a pass are one step because they are loops over
fixed bounds. Nothing is assumed about which way a load or a pass goes. No liveness
is claimed of a cache or of a file: their users may stop at any time.

## 4. Proofs

Each proof module shows `Spec => []IInv` by the three usual facts (initial states,
every action, consequences), one lemma per action, and then each property from
`IInv`.

**Cache** (`KvCacheProofs`). For every set of models, caches, weights
and tokens, every configuration with positive dimensions and every interpretation
of the arithmetic. The properties speak of the state between passes, or of what a
pass returns; a pass is many steps. `IInv` says what holds inside one:
`CachedPassInv` gives, for each layer, its length (done layers are ahead of the
others) and the new rows it holds; `HiddenInv` says that the rows on their way
are rows of the reference, one level up for each layer done; `PassInv` keeps
what was validated at the start. Below `call.start` nothing is ever written,
which is why resetting the lengths is a complete rollback, and why
`VisibleRowsAreReference` and `OwnedIffPopulated` can be stated with
`VisibleLength` and hold at *every* step.

`ImplementsThePromise` is the refinement, on top of `IInv`. Each step of `KvCache`
is matched with a step of `CachedDecoding` or a stutter: `ReturnLogits` with
`Extend` or `Evaluate`, a refusal with `Refuse`, everything inside a pass, its
rollback included, with a stutter. Two more invariants are needed because the
mapping shows what `IInv` does not say. `FedInv`: the tokens of a pass are known to
the model, and are the text written behind the start of the pass. `ShapeInv`: the cache
of a pass has its model's shape, so that the configuration the mapping reads off a
cache is the one the model has.

**Generation** (`GenerationProofs`). All five safety properties, for every
model, prompt, limit and way to choose. The invariant says that between two tests
of the loop the cache's text followed by the tokens to feed is the text so far
(`FeedCompletesTheText`), and that the row a token is chosen from is the row of
the whole text (`ReadyToChoose`); the rest follows from what
`CachedDecoding` promises of a pass. The invariant is needed because a token of a
cached run is chosen from a pass that saw one token only.

**Command** (`GenerationProofs`, under `CliSpec`). For every list of arguments, every
reading of words as numbers and whatever the files hold. `CliInv` has three parts.
Until the call, `Generation` is in an initial state, so its `IInv` holds through
`CliSpec` too, and with it all its properties (`CommandsGenerateAsOthersDo`): the
job that `run_cli` makes up is one that `Generation`'s assumptions are about. The
values of the options met so far come from the arguments and are in range, which makes
the job one of `Jobs`. After `LoadModel` tokenizer and model have the same vocabulary:
both are finite, one holds the other and the code has compared their sizes. Hence
every new token, being one the model has a column for, is one that `decode` knows,
and `FailureAlwaysSilent` follows though the prompt is printed before.

What a list of arguments *means* (`IsCommand`, `Meant`) is stated without an order: an
option has the value behind its name, wherever that is. `Positions`, a recursive
function, says which words are options and which are values of the option before.
`ParsedInv` relates the loop to it: `at` is always such a position, what was
given is what the positions before it say, and each was met once. At the end of the
list that is the whole meaning, so `AlwaysAcceptsExactlyCommands` and the action
property `AlwaysGeneratesWhatIsAsked` need no more than the checks after the loop.

**Attention** (`AttentionProofs`). `AlwaysReturnsReference`: for every number and size
of heads, every capacity, every set of rows and whatever `Exp` is, but that the highest
score weighs something. The invariant (`AttentionInvariant`) says that the cache
holds the keys and the values of the rows fed to it and, during a call, of the
call's rows as well (`Cached`): a call that fails leaves rows behind its length,
which no later call reads before it has written them. It says of the call what its scores
are at each stage and that the heads already stored are right (`Merged`). Three groups of
lemmas carry the steps. `FlatIndex`: a flat index has one row and one column, so what one kernel
writes at [i, j] is what the next one reads there, appending rows keeps the earlier ones
(`CachedAppend`) and storing a head keeps the earlier heads (`MergedStore`).
`RunningSumUnfolds` and what follows by induction: a term that is not a number makes the sum NaN
(`SumWithNaN`), and zeros at the end leave it alone (`SumOfZeros`).
`SoftmaxIsReference`: if a score up to the row's own is NaN or plus infinity, or all are
minus infinity, some weight is NaN, and so is the total; otherwise the maximum
found by `>` is the highest of the integers (`MaximumIsHighest`), a masked score weighs
exactly zero, and its product with a value is zero, or NaN if the value is not finite. Which of
the two is the exception in `OutputIsReference`.

**Sampling** (`SamplingProofs`). For every vocabulary, row of scores, options and
draw. Division by the temperature keeps the order of scores (assumed of the
constants `Divide` and `Exp`, as are their ranges). A finite set of numbers has a
k-th largest, counted with repetitions (`ThresholdSeparates`), so top-k keeps what is at or above it; top-p removes a
suffix of the order by weight, and whether a token is in it is decided by the weights
above it alone, which is the reference. The walk of `sample_token` adds up
non-negative floats: the token it stops at has a positive probability, or it is the
last permitted one, and earlier partial sums do not exceed the draw.

**Loader** (`CheckpointLoaderProofs`). `BuffersAlwaysFit` and
`AcceptedAlwaysWellFormed` are proved under `SharedFileSpec`, in which another
process may put anything into the file between any two steps of the loader
(`Rewrite`): every check is made on what was read. The invariant therefore never
mentions the content of the file, only what each part of a record promises the
next. That a part of a record is read at once is an abstraction; it costs nothing
here, since a part that was changed while it was read is again one the file might
have held.

`AlwaysAcceptsExactlyCheckpoints` is about a file nobody changes. `WholeInv`: what was
read so far, written again, is the file up to `position`. A loader that accepts has
read all of it, so the file is what the writer makes of the tensors. `Follows`:
in a file that begins like what the writer makes of some tensors, the loader is
always at the boundary of a part of one of them and has read the ones before it; sums of
payloads only grow along a list, so no check fails if the tensors are a checkpoint
and the file is all of it. `Follows` needs only the beginning, so it also holds while a
writer is still at work: with what `Export`, `Flush`, `Close` and `Crash` do to
the file this gives `LoadedIsAlwaysTheExport` and `WrittenCanAlwaysBeRead` under
`FileSpec`, and `AcceptedAlwaysValid` adds the total of the payloads.

**Schema** (`CheckpointSchemaProofs`). `AcceptedAlwaysModel`: the code looks up
each name it expects, counts how many it expected, and compares with the number of
tensors there are. The names looked up are those of a model (`Checked` collects
what every stage has established), a model has exactly the expected number of tensors (`ModelSize`: the
names of n layers are a product, and a quantized weight moves from one map to the
other and leaves its scale behind), and a finite set with a subset of its own size
is that subset. The expected count never wraps around, for every `MaxSize`.
`AlwaysAcceptsExactlyModels` puts this together with the converse.

**Shapes** (`CheckpointSchemaProofs`). The schema compares each tensor with a list; the
kernels compare tensors with one another, in an order of their own. `PassInv`, on top
of the schema's `IInv`, gives the shape of the hidden rows and of the tensor under way at
each stage, from which every check of a kernel follows
(`PassesFailOnlyForASize`): the one thing left that can stop a pass is a tensor with more
elements than a size can count. `LogitsAlwaysCoverTheVocabulary` is the last stage.

**Exporter** (`CheckpointSchemaProofs`, under `ComposedSpec`). For every state dictionary, every
configuration and every choice of what to quantize. After c tensors `Collection` holds:
the records are those of the first c specs, all of them and no other, a scale right
behind its weights, and the shapes so far were right. `AlwaysExportsExactlyModels`
follows from this and from what the checks before have found (`PhaseInv`).
`SpecsAre` unfolds the recursion over the layers: the names listed in Python are the
names listed in C++ (`BaseNames`), each with its shape. So at the end the records, with the
names of scales put together, are a model in the sense of the schema
(`ExportedIsModel`); names of scales differ from all names of tensors and from one another
(`ScaleNamesAre`), without which two records would be one tensor. The invariant of the
composition, `EngineInv`, adds the schema's and the pass's own: the engine waits, is
given a model, and since it rejects no model (`RejectedIsNoModel`)
`ExportAlwaysAccepted` holds, and with the shapes `ExportedModelsAnswer`.
`DequantizedAlwaysNear`: the scale is the largest magnitude of the channel the *kernel*
will read (`AxisIsRead`, `ScaleIsLargest`), so rounding never leaves the range
(`RoundedIsNear`), clipping changes nothing, and half a step is lost at most.

**Tokenizer** (`TokenizerProofs`). The tables that `load` accepts have every byte
and are closed under their rules; every symbol of a sweep is then in the
vocabulary, so `EncodeAlwaysTotal`. `MatchPieceAdvances`: a piece is never empty
and never leaves the text. `ScannerIsThePattern`: the hand-written scanner ends a
piece where the first alternative of the pattern that matches ends, by cases over
the alternatives, at every position of every text.

`LoadsAlwaysExactlyUsableTables`: the entries read are the vocabulary, the rules read
its ranks. A vocabulary of as many tokens as lines whose ids are 0 to n-1 has no token
and no id twice (a function on a finite set whose image has the set's size is
one-to-one), so no entry of a usable file is refused.
`DecodeAlwaysInvertsEncode`: the tokens of a piece, put together, are its bytes in the
byte alphabet, which merging does not change (`SymbolsInv`); the ids emitted so far mean
the bytes of the text up to `Done` (`TokensInv`), a text's bytes being a
`FlattenSeq` over its characters. `MarkerIsAlwaysOnlyFromText`: there are as many
ids of the marker as markers before the position of the splitting loop (`MarkersInv`). That no merge makes one
rests on UTF-8: the bytes of an ASCII character are part of no other character's, so a
symbol that reads like the marker stands for its characters, at the place where they
would have been cut out. `AlwaysMergesLowestRankFirst`: what a sweep has done, followed by
what it has not come to, is at every step a list that the reference goes through
(`MergesInv`). Under `WellOrdered` a merge brings no pair of a rank as low as its own
and does not bring its own pair back (`MergedRanks`), so the swept pair keeps the
lowest rank, its first place is never behind the sweep, and the reference, which
is a recursive function that `OneByOneUnfolds` unfolds, takes it next.

Induction is over data wherever a fold or a recursive function has to be unfolded.
`DataLemmas` derives, from the well-foundedness of `<`, that a set that has zero
and successors is `Nat`, the same for finite sets and for sequences, and what follows for
`FlattenSeq`, `SumFunctionOnSet` and products.

Assumptions are those on the constants, each evaluated by TLC in some run:
`ConfigAssumption` (dimensions are positive: the loader's `require_positive`),
`ReferenceAssumption` (the recursion equations of an uncached pass; they define
`Uncached` and restrict nothing else), `SamplingAssumption` (finite scores stay finite and
in order when they are divided by a temperature, weights are at most that of the
largest score, and a rounding error per token does not add up to more than the
whole), `TextAssumption` (characters have bytes; the marker is ASCII, its bytes are
part of no other character, and its first character occurs in it once),
`LimitsAssumption` (the limits of the loader leave a sum of sizes below the width of a
word; tensors to export are made of numbers), `CacheAssumption`, `GenerationAssumption`,
`FormatAssumption`, `SchemaAssumption`, `AlphabetAssumption`, `FilesAssumption`,
`PatternAssumption`, `AttentionAssumption`, `ExporterAssumption` (markers are not elements
of the sets they mark the absence from; bounds are numbers; a contraction begins
with an apostrophe; a code point is in one class; the names of a state dictionary are
pairs, and a matrix in it has as many values as its shape says), `RefinementAssumption` (a
configuration is its fields) and `CliAssumption` (vocabularies are finite and numbered
without gaps, as `build_id_to_token` and the model's rows make them; options that
pass the checks ask for a decoding that `Generation` knows; the default top-p is a
positive number).

The type invariants and inductive invariants of the loader, of generation and of the
command are proved and not run as well: the runs are kept for the properties they
were strengthened for.

Only model-checked is `EndsEventually`, which is liveness and out of the prover's
reach.

## 5. Plan

Done, in this order: the cache with its abstract specification, generation,
sampling, schema, loader and writer, tokenizer; then attention on numbers that may
not be finite, the shapes of a pass, the exporter composed with the schema and the
pass, the command composed with generation; the proofs of the cache's refinement,
of the shapes and of the command; then, with the induction of `DataLemmas`, the proofs of
sampling, of the round trip of text, of the order of merges, of the tables and files
that are accepted, of what a command means, of the exporter and of attention.

Not planned: benchmarks and measurement tools (they time what is modelled here and
decide nothing), generated tables (data), `JsonReader` (a parser whose
correctness is a matter of characters), and the numbers of `layer_norm`, `gelu` and
`linear`, of which this project uses only that each is computed from one row.
