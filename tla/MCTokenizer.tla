---------------------------- MODULE MCTokenizer -----------------------------
(***************************************************************************)
(* Nine bytes: three that the alphabet moves, an apostrophe, a letter, the *)
(* two characters of the marker, and a letter and a digit of two bytes.    *)
(*                                                                         *)
(* Files good and bad, read with a few texts; and two good files with      *)
(* every text of up to four characters, one per class of the pattern and   *)
(* one more where it matters, and bytes that are no character.             *)
(***************************************************************************)
EXTENDS Tokenizer

\* space, newline, apostrophe, two letters, the marker's two, a letter and a
\* digit of two bytes that begin alike.
MCUtf8 == <<<<1>>, <<2>>, <<3>>, <<4>>, <<5>>, <<6>>, <<0, 7>>, <<0, 8>>>>
MCMarker == <<5, 6>>
MCContractions == <<<<3, 4>>, <<3, 7, 4>>>>
MCVersionPrefix == <<5, 5, 3>>

AlphabetTokens == [b \in 1..ByteCount |-> <<ByteToCodePoint(b - 1)>>]

Entries(tokens) == [k \in DOMAIN tokens |-> [token |-> tokens[k], id |-> (k + 2) % Len(tokens)]]

-----------------------------------------------------------------------------
(* Good files for every text. *)

TextRules == << << <<4>>, <<4>> >>, << <<10>>, <<4>> >>, << <<9>>, <<7>> >>, << <<10>>, <<4, 4>> >> >>

\* With and without a rule that makes the marker.
TextMerges == {TextRules, Append(TextRules, << <<5>>, <<6>> >>)}
TextEntries ==
  Entries(AlphabetTokens \o <<MCMarker, <<4, 4>>, <<10, 4>>, <<9, 7>>, <<10, 4, 4>>>>)

-----------------------------------------------------------------------------
(* Good and bad files.  The vocabulary has every string of two or three of *)
(* the symbols 3 and 5, which the pattern keeps in one piece.              *)

WordList ==
  <<<<3, 3>>, <<3, 5>>, <<5, 3>>, <<5, 5>>, <<3, 3, 3>>, <<3, 3, 5>>, <<3, 5, 3>>,
    <<3, 5, 5>>, <<5, 3, 3>>, <<5, 3, 5>>, <<5, 5, 3>>, <<5, 5, 5>>>>
Words == {<<3>>, <<5>>} \cup ToSet(WordList)

GoodEntries == Entries(<<<<8>>, MCMarker>> \o Front(AlphabetTokens) \o WordList)

Rules == {<<l, r>> \in Words \X Words : l \o r \in Words}
SomeRules == << << <<3>>, <<3>> >>, << <<3, 3>>, <<3>> >>, << <<3>>, <<5>> >> >>

\* Every list of one or two rules, repetitions included, and longer ones in
\* which a rule uses what others made, in either order.
RuleFiles ==
  {<<r>> : r \in Rules} \cup {<<r, s>> : r, s \in Rules}
    \cup {SomeRules, Reverse(SomeRules),
          << << <<3>>, <<3>> >>, << <<5>>, <<5>> >>, << <<3, 3>>, <<5>> >>, << <<3>>, <<5, 5>> >> >>,
          << << <<3>>, <<5>> >>, << <<5>>, <<3>> >>, << <<3, 5>>, <<3>> >>, << <<5>>, <<3, 5>> >> >>}

Header == << <<5, 5, 3, 6>>, <<3>> >>
Blank == << <<>> >>
\* One word, three words, an empty word, a stranger and a code point outside the
\* alphabet, a result outside the vocabulary, and the rule that makes the marker.
OddLines ==
  {Header, Blank, << <<5, 5, 3>> >>, << <<3>> >>, << <<3>>, <<3>>, <<5>> >>, << <<3>>, <<>> >>,
   << <<3>>, <<4, 4>> >>, << <<3>>, <<1>> >>, << <<3, 3>>, <<3, 3>> >>, << <<5>>, <<6>> >>}

MergesFileVariants ==
  {<<>>, <<Blank>>, <<Header>>, <<Header, Blank>>}
    \cup {InsertAt(SomeRules, k, odd) : k \in 1..4, odd \in OddLines}

WithEntry(k, token, id) == [GoodEntries EXCEPT ![k] = [token |-> token, id |-> id]]

\* One entry missing, twice, elsewhere, with another token or another ID.
VocabularyFileVariants ==
  {<<>>, Reverse(GoodEntries), Tail(GoodEntries), Front(GoodEntries)}
    \cup {RemoveAt(GoodEntries, k) : k \in DOMAIN GoodEntries}
    \cup {Append(GoodEntries, GoodEntries[k]) : k \in {1, 2}}
    \cup {Append(GoodEntries, [token |-> <<6, 6>>, id |-> Len(GoodEntries)]),
          Append(Append(GoodEntries, [token |-> <<6, 6>>, id |-> Len(GoodEntries)]),
                 [token |-> <<4, 4>>, id |-> Len(GoodEntries) + 1])}
    \cup {WithEntry(k, GoodEntries[k].token, id) :
            k \in {1, 2, Len(GoodEntries)}, id \in 0..(Len(GoodEntries) + 1)}
    \cup {WithEntry(k, token, GoodEntries[k].id) :
            k \in {1, 2, Len(GoodEntries)},
            token \in {<<>>, <<1>>, <<3>>, <<12>>, <<4, 4>>, <<3, 3, 3, 3>>, <<3, 3, 3, 3, 3>>,
                       <<3, 3, 10>>, <<3, 3, 3, 10>>}}

MCFiles ==
  {[vocabulary |-> TextEntries, merges |-> m] : m \in TextMerges}
    \cup {[vocabulary |-> GoodEntries, merges |-> m] : m \in RuleFiles \cup MergesFileVariants}
    \cup {[vocabulary |-> v, merges |-> SomeRules] : v \in VocabularyFileVariants}

\* Every text of up to four characters; or strings of the two symbols; the
\* marker alone, inside, after its own beginning, and before and after bytes
\* that are no character; the last byte of the alphabet.
EveryText == UNION {[1..n -> Characters \cup {Invalid}] : n \in 0..4}
SomeTexts ==
  {<<>>, <<8>>, <<5, 6>>, <<3, 5, 6, 3>>, <<5, 5, 6>>, <<Invalid>>, <<3, 5, 6, Invalid>>,
   <<Invalid, 5, 6>>, <<1, 3>>}
    \cup UNION {[1..n -> {3, 5}] : n \in 1..5}
MCTexts(merges) == IF merges \in TextMerges THEN EveryText ELSE SomeTexts
=============================================================================
