----------------------------- MODULE Tokenizer ------------------------------
(***************************************************************************)
(* Gpt2Tokenizer (src/tokenizer.cpp): load, then encode of one text, then  *)
(* decode of the tokens, all of them or the first ones.  Encoding splits   *)
(* the text at the end-of-text marker, cuts each segment into pieces       *)
(* (PreTokenizer), maps the bytes of a piece onto the alphabet and merges  *)
(* symbols, one action per element of a sweep.                             *)
(***************************************************************************)
EXTENDS TokenizerLoader, PreTokenizer, SequencesExt

CONSTANTS
  Texts(_),    \* merges file -> what may be encoded: code points or Invalid
  Invalid,     \* bytes that are not UTF-8
  Utf8,        \* the bytes of each code point
  Marker       \* the code points of "<|endoftext|>"

ASSUME TextAssumption ==
  /\ \A files \in Files : Texts(files.merges) \subseteq Seq(Characters \cup {Invalid})
  /\ Invalid \notin Characters
  /\ Utf8 \in [Characters -> Seq(Bytes)] /\ \A c \in Characters : Utf8[c] # <<>>
  /\ Marker \in Seq(Characters) /\ Marker # <<>>
  \* The marker is ASCII, whose bytes are part of no other encoding.
  /\ \A k \in DOMAIN Marker : \E b \in Bytes :
       Utf8[Marker[k]] = <<b>> /\ \A c \in Characters : b \in ToSet(Utf8[c]) => c = Marker[k]
  /\ EndOfText = FlattenSeq([k \in DOMAIN Marker |-> Utf8[Marker[k]]])
  /\ \A k \in 2..Len(Marker) : Marker[k] # Marker[1]

VARIABLES
  text, position,       \* the argument of encode, and how much of it is split
  segment, index,       \* the text up to the next marker, and the next piece in it
  pieceEnd,             \* where the piece ends
  symbols,              \* the symbols of the piece
  pair, swept, at,      \* the pair that is merged, the symbols after it, the next one
  tokenIds,             \* what encode returns
  given, decoded        \* the argument of decode, and what it returns

textVars == <<text, position>>
pieceVars == <<segment, index, pieceEnd>>
sweepVars == <<pair, swept, at>>
decodeVars == <<given, decoded>>
vars == <<loaderVars, textVars, pieceVars, symbols, sweepVars, tokenIds, decodeVars>>
tables == <<fileVars, line, tableVars>>

Init ==
  /\ LoaderInit
  /\ text = <<>> /\ position = 1
  /\ segment = <<>> /\ index = 1 /\ pieceEnd = 1
  /\ symbols = <<>>
  /\ pair = <<>> /\ swept = <<>> /\ at = 1
  /\ tokenIds = <<>>
  /\ given = <<>> /\ decoded = <<>>

Load == LoadStep /\ UNCHANGED <<textVars, pieceVars, symbols, sweepVars, tokenIds, decodeVars>>

BytesOf(t) == FlattenSeq([k \in DOMAIN t |-> Utf8[t[k]]])

-----------------------------------------------------------------------------
(* encode. *)

Encode(t) ==
  /\ stage = "loaded"
  /\ text' = t /\ position' = 1
  /\ stage' = "segment"
  /\ UNCHANGED <<tables, pieceVars, symbols, sweepVars, tokenIds, decodeVars>>

IsMarkerInside(p) ==
  /\ p + Len(Marker) <= Len(text)
  /\ SubSeq(text, p, p + Len(Marker) - 1) = Marker
IsMarker(p) ==
  /\ p + Len(Marker) - 1 <= Len(text)
  /\ SubSeq(text, p, p + Len(Marker) - 1) = Marker

\* text.find from a position on, or the end of the text.
NextMarker ==
  LET markers == {p \in position..Len(text) : IsMarker(p)}
  IN IF markers = {} THEN Len(text) + 1 ELSE First(markers)

IsUtf8(t) == \A k \in DOMAIN t : t[k] # Invalid

\* decode_utf8 throws before the first piece of the segment.
StartSegment ==
  /\ stage = "segment"
  /\ segment' = SubSeq(text, position, NextMarker - 1)
  /\ position' = NextMarker
  /\ index' = 1
  /\ stage' = IF IsUtf8(segment') THEN "piece" ELSE "invalid"
  /\ UNCHANGED <<tables, text, pieceEnd, symbols, sweepVars, tokenIds, decodeVars>>

StartPiece ==
  /\ stage = "piece" /\ index <= Len(segment)
  /\ pieceEnd' = MatchPiece(segment, index)
  /\ LET bytes == BytesOf(SubSeq(segment, index, pieceEnd' - 1))
     IN symbols' = [k \in DOMAIN bytes |-> <<ByteToCodePoint(bytes[k])>>]
  /\ stage' = "find"
  /\ UNCHANGED <<tables, textVars, segment, index, sweepVars, tokenIds, decodeVars>>

\* The ranks of the pairs that stand next to each other.
RanksPresentBeforeLast ==
  {rank \in DOMAIN mergeRules :
    \E k \in 1..(Len(symbols) - 2) : mergeRules[rank] = <<symbols[k], symbols[k + 1]>>}
RanksPresent ==
  {rank \in DOMAIN mergeRules :
    \E k \in 1..(Len(symbols) - 1) : mergeRules[rank] = <<symbols[k], symbols[k + 1]>>}

FindPair ==
  /\ stage = "find"
  /\ IF RanksPresent = {}
     THEN stage' = "emit" /\ UNCHANGED sweepVars
     ELSE /\ pair' = mergeRules[First(RanksPresent)]
          /\ swept' = <<>> /\ at' = 1
          /\ stage' = "sweep"
  /\ UNCHANGED <<tables, textVars, pieceVars, symbols, tokenIds, decodeVars>>

SweepWithOverlap ==
  /\ stage = "sweep" /\ at <= Len(symbols)
  /\ IF at < Len(symbols) /\ <<symbols[at], symbols[at + 1]>> = pair
     THEN swept' = Append(swept, pair[1] \o pair[2]) /\ at' = at + 1
     ELSE swept' = Append(swept, symbols[at]) /\ at' = at + 1
  /\ UNCHANGED <<tables, stage, textVars, pieceVars, symbols, pair, tokenIds, decodeVars>>

Sweep ==
  /\ stage = "sweep" /\ at <= Len(symbols)
  /\ IF at < Len(symbols) /\ <<symbols[at], symbols[at + 1]>> = pair
     THEN swept' = Append(swept, pair[1] \o pair[2]) /\ at' = at + 2
     ELSE swept' = Append(swept, symbols[at]) /\ at' = at + 1
  /\ UNCHANGED <<tables, stage, textVars, pieceVars, symbols, pair, tokenIds, decodeVars>>

EndSweep ==
  /\ stage = "sweep" /\ at > Len(symbols)
  /\ symbols' = swept
  /\ stage' = "find"
  /\ UNCHANGED <<tables, textVars, pieceVars, sweepVars, tokenIds, decodeVars>>

EmitTokens ==
  /\ stage = "emit"
  /\ IF \A k \in DOMAIN symbols : symbols[k] \in Vocabulary
     THEN /\ tokenIds' = tokenIds \o [k \in DOMAIN symbols |-> tokenToId[symbols[k]]]
          /\ index' = pieceEnd
          /\ stage' = "piece"
     ELSE stage' = "outside" /\ UNCHANGED <<tokenIds, index>>
  /\ UNCHANGED <<tables, textVars, segment, pieceEnd, symbols, sweepVars, decodeVars>>

EndSegment ==
  /\ stage = "piece" /\ index > Len(segment)
  /\ IF position <= Len(text)
     THEN /\ tokenIds' = Append(tokenIds, tokenToId[EndOfText])
          /\ position' = position + Len(Marker)
          /\ stage' = "segment"
     ELSE stage' = "encoded" /\ UNCHANGED <<tokenIds, position>>
  /\ UNCHANGED <<tables, text, pieceVars, symbols, sweepVars, decodeVars>>

-----------------------------------------------------------------------------
(* decode. *)

Mapped(ids) == FlattenSeq([k \in DOMAIN ids |-> idToToken[ids[k]]])

Decode(ids) ==
  /\ stage = "encoded"
  /\ given' = ids
  /\ IF \A k \in DOMAIN ids : ids[k] \in DOMAIN idToToken
     THEN /\ decoded' = [k \in DOMAIN Mapped(ids) |-> CodePointToByte(Mapped(ids)[k])]
          /\ stage' = "decoded"
     ELSE stage' = "out_of_range" /\ UNCHANGED decoded
  /\ UNCHANGED <<tables, textVars, pieceVars, symbols, sweepVars, tokenIds>>

\* The first tokens of what was encoded, or one that is outside the vocabulary.
DecodeArguments ==
  {SubSeq(tokenIds, 1, n) : n \in 0..Len(tokenIds)}
    \cup {Append(tokenIds, Cardinality(Vocabulary))}

Ended ==
  /\ stage \in {"rejected", "invalid", "outside", "decoded", "out_of_range"}
  /\ UNCHANGED vars

Next ==
  \/ Load
  \/ \E t \in Texts(mergesFile) : Encode(t)
  \/ StartSegment \/ StartPiece \/ FindPair \/ Sweep \/ EndSweep \/ EmitTokens \/ EndSegment
  \/ \E ids \in DecodeArguments : Decode(ids)
  \/ Ended

Spec == Init /\ [][Next]_vars

-----------------------------------------------------------------------------
(* Properties. *)

Loading == stage \in {"vocabulary", "merges"}

\* load accepts exactly the files that docs/tokenizer.md calls for, whatever
\* the order of their entries, and takes every rule and nothing else for one.
LoadsExactlyUsableTables ==
  IF stage = "rejected" THEN ~(GoodVocabularyFile /\ GoodMergesFile)
  ELSE Loading \/ /\ GoodVocabularyFile /\ GoodMergesFile
                  /\ ToSet(mergeRules) = RulesOfFile

\* "Which is what makes encode total for valid UTF-8": no text and no order of
\* merges leads to a symbol without an ID, and nothing fails but bad bytes.
EncodeIsTotal ==
  /\ stage # "outside"
  /\ stage = "invalid" => Invalid \in ToSet(text)

\* The scanner cuts where a backtracking engine would cut.
PiecesAreThePattern ==
  stage \in {"find", "sweep", "emit"} => pieceEnd = PatternEnd(segment, index)

\* No rule uses a symbol that it or a later one makes.
WellOrdered(rules) ==
  \A r, s \in DOMAIN rules : rules[r][1] \o rules[r][2] \in {rules[s][1], rules[s][2]} => r < s

\* The leftmost of the pairs with the lowest rank becomes one symbol.
MergeOne(rules, list) ==
  LET ranks == {r \in DOMAIN rules :
                 \E k \in 1..(Len(list) - 1) : rules[r] = <<list[k], list[k + 1]>>}
      first == First({k \in 1..(Len(list) - 1) :
                       rules[First(ranks)] = <<list[k], list[k + 1]>>})
  IN IF ranks = {} THEN list
     ELSE SubSeq(list, 1, first - 1) \o <<list[first] \o list[first + 1]>>
            \o SubSeq(list, first + 2, Len(list))

OneByOne(rules, list, steps) ==
  LET merged[n \in 0..steps] == IF n = 0 THEN list ELSE MergeOne(rules, merged[n - 1])
  IN merged[steps]

\* The symbols of a piece before the first merge.
Unmerged ==
  LET bytes == BytesOf(SubSeq(segment, index, pieceEnd - 1))
  IN [k \in DOMAIN bytes |-> <<ByteToCodePoint(bytes[k])>>]

\* Merging a pair everywhere in one sweep comes to the same as merging, one at
\* a time, the leftmost of the pairs with the lowest rank, in tables in which
\* no rule uses a symbol that it or a later one makes.
MergesLowestRankFirst ==
  stage = "emit" /\ WellOrdered(mergeRules) =>
    symbols = OneByOne(mergeRules, Unmerged, Len(Unmerged))

\* All tokens give the bytes of the text back, the first ones its first bytes,
\* wherever the cut falls in a character; only a strange token is refused.
DecodeInvertsEncode ==
  /\ stage = "decoded" =>
       /\ IsPrefix(decoded, BytesOf(text))
       /\ given = tokenIds => decoded = BytesOf(text)
  /\ stage = "out_of_range" => ~IsPrefix(given, tokenIds)

\* "<|endoftext|> cannot be produced by the merge rules": there is one such
\* token for each marker in the text, even if a rule would make it.
MarkerIsOnlyFromText ==
  stage = "encoded" =>
    Cardinality({k \in DOMAIN tokenIds : tokenIds[k] = tokenToId[EndOfText]})
      = Cardinality({p \in 1..(Len(text) - Len(Marker) + 1) :
                      SubSeq(text, p, p + Len(Marker) - 1) = Marker})
=============================================================================
