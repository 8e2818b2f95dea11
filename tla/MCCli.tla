------------------------------- MODULE MCCli --------------------------------
(***************************************************************************)
(* Commands good and bad, and the generation they lead to.  The model has  *)
(* one layer that hands the whole text to the last row, and its weights    *)
(* are a table from texts to the token chosen after them: Weights ranges   *)
(* over the tables, so every continuation of every prompt occurs.          *)
(***************************************************************************)
EXTENDS Cli

CONSTANTS t1, t2

MCContext == 3

\* Tables that can choose after every text, and those that cannot after one.
MCWeights ==
  {w \in [Texts(MCContext - 1) -> {t1, t2, NoToken}] :
     Cardinality({text \in DOMAIN w : w[text] = NoToken}) <= 1}

MCConfigOf(w) == [layers |-> 1, context |-> MCContext, shape |-> "s"]

\* A model that never chooses t2 has no embedding for it.
MCVocabulary(w) ==
  IF \E text \in DOMAIN w : w[text] = t2 THEN {t1, t2} ELSE {t1}

MCEmbed(w, t, position) == <<t, position>>
MCProjectKV(w, k, row) == row
MCBlock(w, k, row, kvs) == [i \in 1..Len(kvs) |-> kvs[i][1]]
MCUncached(w, k, text) ==
  IF k = 0 THEN <<text[Len(text)], Len(text) - 1>> ELSE text
MCTiedLogits(w, row) == [table |-> w, text |-> row]

\* A run that samples swaps the two tokens at its odd draws, or with an odd seed
\* at its even ones, in models that have two.
MCSampled(temperature, topK, topP, seed) ==
  [temperature |-> temperature, topK |-> topK, topP |-> topP, seed |-> seed]
MCDecodings ==
  {Greedy} \cup [temperature : {5, 10, 20}, topK : 0..2, topP : {5, 10}, seed : 0..2]
MCChoice(how, logits, d) ==
  LET t == IF logits.text \in DOMAIN logits.table
           THEN logits.table[logits.text] ELSE t1
      swapped == how # Greedy /\ t2 \in MCVocabulary(logits.table) /\ (d + how.seed) % 2 = 1
  IN IF ~swapped \/ t = NoToken THEN t ELSE IF t = t1 THEN t2 ELSE t1

\* One file holds any table and the other one of two; files given for others
\* hold nothing that can be loaded.
MCModelsAt(path) ==
  CASE path = "c" -> MCWeights
    [] path = "d" -> [Texts(MCContext - 1) -> {t1}] \cup [Texts(MCContext - 1) -> {t2}]
    [] OTHER -> {}
MCTokenizersAt(vocabulary, merges) ==
  IF vocabulary # "v" \/ merges # "m" THEN {}
  ELSE [vocabulary : {{t1}}, endOfText : {t1}]
         \cup [vocabulary : {{t1, t2}}, endOfText : {t1, t2}]

-----------------------------------------------------------------------------
(* Decimals are in tenths. *)

Numbers == ("0" :> 0) @@ ("1" :> 1) @@ ("2" :> 2)
Decimals == ("0" :> 0) @@ ("0.5" :> 5) @@ ("1" :> 10) @@ ("2" :> 20) @@ ("-1" :> -10)
MCNumber(word) == IF word \in DOMAIN Numbers THEN Numbers[word] ELSE Malformed
MCDecimal(word) == IF word \in DOMAIN Decimals THEN Decimals[word] ELSE Malformed

Shortest(path) == << <<"--checkpoint", path>>, <<"--vocab", "v">>, <<"--merges", "m">>, <<"--prompt", "p">> >>
Fullest ==
  Shortest("d") \o << <<"--max-new-tokens", "0">>, <<"--sample">>, <<"--temperature", "0.5">>,
                 <<"--top-k", "2">>, <<"--top-p", "1">>, <<"--seed", "1">>, <<"--no-cache">> >>

\* Any text may be a prompt or a path.
Words == {"--sample", "--top-k", "--help", "--unknown", "0", "0.5", "1", "2", "-1", EmptyText}

Damaged(args) ==
  {args} \cup {RemoveAt(args, k) : k \in DOMAIN args}
    \cup {InsertAt(args, k, w) : k \in 1..(Len(args) + 1), w \in Words}
    \cup {ReplaceAt(args, k, w) : k \in DOMAIN args, w \in Words}

\* The command with most options, in any rotation of their order or damaged, and
\* with one of them missing or there twice; it asks for no token.  Short
\* commands that ask for some.
MCCommands ==
  Damaged(FlattenSeq(Fullest)) \cup Damaged(FlattenSeq(Reverse(Fullest)))
    \cup {FlattenSeq(RemoveAt(Fullest, k)) : k \in DOMAIN Fullest \ {5}}
    \cup {FlattenSeq(InsertAt(Fullest, k, Fullest[j])) : k, j \in DOMAIN Fullest}
    \cup {FlattenSeq(SubSeq(Fullest, k, Len(Fullest)) \o SubSeq(Fullest, 1, k - 1)) :
            k \in DOMAIN Fullest}
    \cup {FlattenSeq(Shortest("c") \o extra) :
            extra \in {<<>>, << <<"--no-cache">> >>, << <<"--sample">> >>,
                       << <<"--sample">>, <<"--seed", "1">>, <<"--no-cache">> >>,
                       << <<"--max-new-tokens", "1">> >>}}

\* Other programs ask for no end of the text, or bring prompts no command does.
MCLibraryJobs ==
  {j \in [weights : MCWeights, prompt : Prompts, maximum : 0..MaxNewTokens,
          endOfText : {t2, NoToken}, useCache : BOOLEAN, decoding : {Greedy}] :
     j.endOfText = t2 => j.prompt = <<>>}
=============================================================================
