-------------------------- MODULE TransformerStack --------------------------
(***************************************************************************)
(* The arithmetic of a GPT-2 forward pass, kept uninterpreted.  A hidden   *)
(* row, a key/value row and a row of logits are values that only these     *)
(* operators produce; which row is computed from which is what the other   *)
(* modules are about.                                                      *)
(*                                                                         *)
(* Levels: level 0 is the embedding sum, level k the output of layer k     *)
(* (layers are numbered from 1 here and from 0 in the code).               *)
(***************************************************************************)
EXTENDS Naturals, Sequences, TextPrefix

CONSTANTS
  Weights,           \* the contents of the checkpoints that pass the schema
  Tokens,            \* the token ids a caller may pass, valid or not
  ConfigOf(_),       \* weights -> [layers, context, shape]
  Vocabulary(_),     \* weights -> the ids their embedding table has a row for
  Embed(_, _, _),    \* weights, token, position -> level 0 row (wte + wpe)
  ProjectKV(_, _, _),\* weights, layer, input row -> its key/value row
  Block(_, _, _, _), \* weights, layer, input row, key/value rows -> output row
  TiedLogits(_, _),  \* weights, last level row -> logits (ln_f, tied wte)
  Uncached(_, _, _)  \* weights, level, text -> row of the text's last token

\* A configuration the loader and the constructors accept: none of its
\* dimensions is zero.  "shape" stands for embedding_size and head_count.
IsConfig(cfg) ==
  /\ cfg.layers \in Nat \ {0}
  /\ cfg.context \in Nat \ {0}

\* Every non-empty text of at most n tokens.
Texts(n) == UNION {[1..k -> Tokens] : k \in 1..n}

ASSUME ConfigAssumption == \A w \in Weights : IsConfig(ConfigOf(w))

\* Uncached is the row a forward pass without a cache computes for the last
\* token of a text: attention in layer k is causal, so the row depends on the
\* key/value rows of the text's prefixes and on nothing after them.  The
\* equations determine Uncached from Embed, ProjectKV and Block, so they
\* restrict none of the three.
ASSUME ReferenceAssumption ==
  \A w \in Weights : \A text \in Texts(ConfigOf(w).context) :
    /\ Uncached(w, 0, text) = Embed(w, text[Len(text)], Len(text) - 1)
    /\ \A k \in 1..ConfigOf(w).layers :
         Uncached(w, k, text) =
           Block(w, k, Uncached(w, k - 1, text),
                 [i \in 1..Len(text) |->
                    ProjectKV(w, k, Uncached(w, k - 1, Prefix(text, i)))])

\* The logits a forward pass without a cache returns for the positions
\* first, ..., Len(text) of a text.
ReferenceLogits(w, text, first) ==
  [q \in 1..(Len(text) + 1 - first) |->
     TiedLogits(w, Uncached(w, ConfigOf(w).layers,
                            Prefix(text, first + q - 1)))]
=============================================================================
