---------------------------- MODULE PreTokenizer ----------------------------
(***************************************************************************)
(* How the tokenizer (src/tokenizer.cpp) cuts a text into pieces:          *)
(* match_piece, which scans by hand what docs/tokenizer.md gives as a      *)
(* regular expression.  A text is a sequence of code points, of which only *)
(* the class matters.  A piece is given by its first position and the one  *)
(* after its last.                                                         *)
(***************************************************************************)
EXTENDS Integers, Sequences

CONSTANTS
  Characters,            \* the code points
  Letters, Numbers, Whitespace,
  Space, Apostrophe,
  Contractions           \* the first alternatives of the pattern, in order

Others == Characters \ (Letters \cup Numbers \cup Whitespace)

ASSUME PatternAssumption ==
  /\ {Space, Apostrophe} \cup Letters \cup Numbers \cup Whitespace \subseteq Characters
  /\ Space \in Whitespace /\ Apostrophe \in Others
  /\ Letters \cap Numbers = {} /\ (Letters \cup Numbers) \cap Whitespace = {}
  /\ Contractions \in Seq(Seq(Characters))
  /\ \A k \in DOMAIN Contractions :
       Contractions[k] # <<>> /\ Head(Contractions[k]) = Apostrophe

\* The order of is_letter, is_number, is_other in match_piece.
Classes == <<Letters, Numbers, Others>>

AllIn(text, first, end, class) == \A k \in first..(end - 1) : text[k] \in class

\* Where a run of a class ends that starts at this position.
RunEnd(text, first, class) ==
  CHOOSE end \in first..(Len(text) + 1) :
    /\ AllIn(text, first, end, class)
    /\ end = Len(text) + 1 \/ text[end] \notin class

\* match_run: " ?<class>+".
MatchRun(text, start, class) ==
  LET spaced == /\ text[start] = Space /\ start < Len(text)
                /\ text[start + 1] \in class
      first  == IF spaced THEN start + 1 ELSE start
  IN IF text[first] \in class THEN RunEnd(text, first, class) ELSE start

MatchesContraction(text, start, k) ==
  /\ text[start] = Apostrophe
  /\ Len(text) - start + 1 >= Len(Contractions[k])
  /\ \A offset \in 1..(Len(Contractions[k]) - 1) :
       text[start + offset] = Contractions[k][offset + 1]

\* "\s+(?!\S)|\s+": a run that something follows gives its last character back.
MatchWhitespaceWhole(text, start) == RunEnd(text, start, Whitespace)
MatchWhitespace(text, start) ==
  LET end == RunEnd(text, start, Whitespace)
  IN IF end = Len(text) + 1 \/ end - start < 2 THEN end ELSE end - 1

First(S) == CHOOSE k \in S : \A other \in S : k <= other

\* match_piece.  Every code point is whitespace or in one of the classes, so the
\* code's "failed to advance" has no case here.
MatchPiece(text, start) ==
  LET contractions == {k \in DOMAIN Contractions : MatchesContraction(text, start, k)}
      runs         == {k \in DOMAIN Classes : MatchRun(text, start, Classes[k]) # start}
  IN CASE contractions # {}         -> start + Len(Contractions[First(contractions)])
       [] contractions = {} /\ runs # {} -> MatchRun(text, start, Classes[First(runs)])
       [] OTHER                     -> MatchWhitespace(text, start)

-----------------------------------------------------------------------------
(* The pattern itself: its alternatives in order, each with the ends it     *)
(* could match up to.  A backtracking engine takes the first alternative    *)
(* that matches, and of a greedy repetition the longest.                    *)

OptionalSpaceAnd(text, start, class) ==
  {end \in (start + 1)..(Len(text) + 1) :
    \/ AllIn(text, start, end, class)
    \/ text[start] = Space /\ end > start + 1 /\ AllIn(text, start + 1, end, class)}

Spaces(text, start) ==
  {end \in (start + 1)..(Len(text) + 1) : AllIn(text, start, end, Whitespace)}

NoNonSpaceFollows(text, end) == end = Len(text) + 1 \/ text[end] \in Whitespace

Exactly(text, start, word) ==
  {end \in (start + 1)..(Len(text) + 1) : SubSeq(text, start, end - 1) = word}

Alternatives(text, start) ==
  [k \in DOMAIN Contractions |-> Exactly(text, start, Contractions[k])]
  \o [k \in DOMAIN Classes |-> OptionalSpaceAnd(text, start, Classes[k])]
  \o << {end \in Spaces(text, start) : NoNonSpaceFollows(text, end)}, Spaces(text, start) >>

Longest(ends) == CHOOSE end \in ends : \A other \in ends : other <= end

PatternEnd(text, start) ==
  LET ends == Alternatives(text, start)
  IN Longest(ends[First({k \in DOMAIN ends : ends[k] # {}})])
=============================================================================
