----------------------------- MODULE MCKvCache ------------------------------
(***************************************************************************)
(* KvCache on small instances.  A row is a term that says what it was      *)
(* computed from: the weights, the layer and the text of an uncached pass. *)
(* A block that is given anything but the rows of one text, in order and   *)
(* of its own layer, computes garbage, which no uncached pass computes.    *)
(***************************************************************************)
EXTENDS KvCacheRefinement, TLC

CONSTANTS w1, w2, w3, t1, t2, t3

\* w1 and w2 cannot be told apart by a configuration: they differ in the size
\* of the vocabulary only.  w3 has a longer context, or more layers.
SmallConfig == [layers |-> 2, context |-> 2, shape |-> "s"]
LongConfig == [layers |-> 2, context |-> 3, shape |-> "s"]
ShallowConfig == [layers |-> 1, context |-> 2, shape |-> "s"]

MCConfigOf(w) == CASE w = w1 -> SmallConfig
                   [] w = w2 -> SmallConfig
                   [] w = w3 -> LongConfig
MCShallowConfigOf(w) == IF w = w3 THEN SmallConfig ELSE ShallowConfig
MCVocabulary(w) == IF w = w2 THEN {t1} ELSE {t1, t2}

MCEmbed(w, t, position) == <<"embed", w, t, position>>
MCUncached(w, k, text) ==
  IF k = 0 THEN MCEmbed(w, text[Len(text)], Len(text) - 1)
           ELSE <<"hidden", w, k, text>>
MCProjectKV(w, k, row) == <<"kv", w, k, row>>
MCBlock(w, k, row, kvs) ==
  LET Reads(text) ==
        /\ row = MCUncached(w, k - 1, text)
        /\ \A i \in 1..Len(kvs) :
             kvs[i] = MCProjectKV(w, k, MCUncached(w, k - 1, Prefix(text, i)))
      texts == {text \in [1..Len(kvs) -> Tokens] : Reads(text)}
  IN IF texts = {} THEN <<"garbage">>
     ELSE <<"hidden", w, k, CHOOSE text \in texts : TRUE>>
MCTiedLogits(w, row) == <<"logits", w, row>>

ObjectSymmetry == Permutations(Models) \cup Permutations(Caches)
=============================================================================
