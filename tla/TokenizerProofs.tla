-------------------------- MODULE TokenizerProofs ---------------------------
(***************************************************************************)
(* Theorems about Tokenizer, for every alphabet, every division of the     *)
(* characters into classes, all files and all texts.                       *)
(*                                                                         *)
(* 1. The scanner advances and cuts where the pattern would.               *)
(* 2. A tokenizer that load accepted has an ID for every symbol that       *)
(*    merging can leave.                                                   *)
(* 3. The tokens emitted so far are the bytes of the text so far, so that  *)
(*    decode inverts encode.                                               *)
(* 4. Load accepts the usable tables and no others.                        *)
(* 5. There are as many marker tokens as markers in the text.              *)
(* 6. The sweeps merge what merging one pair at a time would.              *)
(***************************************************************************)
EXTENDS Tokenizer, DataLemmas

LEMMA FirstIsLeast ==
  ASSUME NEW S \in SUBSET Nat, S # {}
  PROVE  First(S) \in S /\ \A m \in S : First(S) <= m
BY LeastNumber DEF First

-----------------------------------------------------------------------------
(* The scanner. *)

\* A run ends within the text, and if it starts with its class, behind its start.
LEMMA RunEndRange ==
  ASSUME NEW text_ \in Seq(Characters), NEW first \in 1..Len(text_), NEW class
  PROVE  /\ RunEnd(text_, first, class) \in first..(Len(text_) + 1)
         /\ text_[first] \in class => RunEnd(text_, first, class) # first
         /\ AllIn(text_, first, RunEnd(text_, first, class), class)
         /\ \/ RunEnd(text_, first, class) = Len(text_) + 1
            \/ text_[RunEnd(text_, first, class)] \notin class
<1> DEFINE E == {e \in first..(Len(text_) + 1) : e = Len(text_) + 1 \/ text_[e] \notin class}
           IsEnd(end) == /\ AllIn(text_, first, end, class)
                         /\ end = Len(text_) + 1 \/ text_[end] \notin class
<1>0. Len(text_) \in Nat
  BY LenProperties
<1>1. E \in SUBSET Nat /\ E # {}
  <2>1. Len(text_) + 1 \in E
    BY <1>0
  <2> QED BY <2>1, <1>0
<1>2. PICK e \in E : \A m \in E : e <= m
  <2> HIDE DEF E
  <2> QED BY <1>1, LeastNumber
<1>3. ASSUME NEW k \in first..(e - 1) PROVE text_[k] \in class
  <2>1. k \in first..(Len(text_) + 1) /\ ~(e <= k)
    BY <1>0, <1>2
  <2>2. k \notin E
    BY <1>2, <2>1
  <2> QED BY <2>1, <2>2
<1>4. e \in first..(Len(text_) + 1) /\ IsEnd(e)
  BY <1>2, <1>3 DEF AllIn
<1>5. /\ RunEnd(text_, first, class) \in first..(Len(text_) + 1)
      /\ IsEnd(RunEnd(text_, first, class))
  <2>1. RunEnd(text_, first, class) = CHOOSE end \in first..(Len(text_) + 1) : IsEnd(end)
    BY DEF RunEnd
  <2> HIDE DEF IsEnd
  <2> QED BY <1>4, <2>1
<1>6. first # Len(text_) + 1
  BY <1>0
<1> QED BY <1>5, <1>6

\* A class matches nothing or advances, and it matches where it occurs.
LEMMA MatchRunRange ==
  ASSUME NEW text_ \in Seq(Characters), NEW start \in 1..Len(text_), NEW class
  PROVE  /\ MatchRun(text_, start, class) \in start..(Len(text_) + 1)
         /\ text_[start] \in class => MatchRun(text_, start, class) # start
<1>0. Len(text_) \in Nat
  BY LenProperties
<1> DEFINE spaced == /\ text_[start] = Space /\ start < Len(text_)
                     /\ text_[start + 1] \in class
<1>1. CASE spaced
  <2>1. start + 1 \in 1..Len(text_)
    BY <1>0, <1>1
  <2>2. MatchRun(text_, start, class) = RunEnd(text_, start + 1, class)
    BY <1>1 DEF MatchRun
  <2>3. RunEnd(text_, start + 1, class) \in (start + 1)..(Len(text_) + 1)
    BY <2>1, RunEndRange
  <2> QED BY <2>2, <2>3, <1>0
<1>2. CASE ~spaced
  <2>1. MatchRun(text_, start, class)
          = IF text_[start] \in class THEN RunEnd(text_, start, class) ELSE start
    BY <1>2 DEF MatchRun
  <2>2. /\ RunEnd(text_, start, class) \in start..(Len(text_) + 1)
        /\ text_[start] \in class => RunEnd(text_, start, class) # start
    BY RunEndRange
  <2> QED BY <2>1, <2>2, <1>0
<1> QED BY <1>1, <1>2

\* match_piece returns the end of a piece of at least one character that lies
\* within the text: its "failed to advance" is never thrown and encode ends.
THEOREM MatchPieceAdvances ==
  ASSUME NEW text_ \in Seq(Characters), NEW start \in 1..Len(text_)
  PROVE  MatchPiece(text_, start) \in (start + 1)..(Len(text_) + 1)
<1> DEFINE contractions == {k \in DOMAIN Contractions : MatchesContraction(text_, start, k)}
           runs == {k \in DOMAIN Classes : MatchRun(text_, start, Classes[k]) # start}
<1>0. Len(text_) \in Nat /\ text_[start] \in Characters
  BY LenProperties, ElementOfSeq
<1>1. CASE contractions # {}
  <2>1. contractions \in SUBSET Nat
    BY PatternAssumption, LenProperties DEF PatternAssumption
  <2>2. PICK k \in contractions : First(contractions) = k
    <3> HIDE DEF contractions
    <3> QED BY <1>1, <2>1, FirstIsLeast
  <2>3. MatchPiece(text_, start) = start + Len(Contractions[k])
    <3> HIDE DEF contractions
    <3> QED BY <1>1, <2>2 DEF MatchPiece, contractions
  <2>4. Contractions[k] \in Seq(Characters) /\ Contractions[k] # <<>>
    BY PatternAssumption, ElementOfSeq, LenProperties DEF PatternAssumption
  <2>5. Len(Contractions[k]) \in Nat /\ Len(Contractions[k]) # 0
    BY <2>4, LenProperties, EmptySeq
  <2>6. Len(text_) - start + 1 >= Len(Contractions[k])
    BY DEF MatchesContraction
  <2> QED BY <1>0, <2>3, <2>5, <2>6
<1>2. CASE contractions = {} /\ runs # {}
  <2>1. runs \in SUBSET Nat
    BY DEF Classes
  <2>2. PICK k \in runs : First(runs) = k
    <3> HIDE DEF runs
    <3> QED BY <1>2, <2>1, FirstIsLeast
  <2>3. MatchPiece(text_, start) = MatchRun(text_, start, Classes[k])
    <3> HIDE DEF contractions, runs
    <3> QED BY <1>2, <2>2 DEF MatchPiece, contractions, runs
  <2>4. MatchRun(text_, start, Classes[k]) \in start..(Len(text_) + 1)
    BY MatchRunRange
  <2>5. MatchRun(text_, start, Classes[k]) # start
    OBVIOUS
  <2> QED BY <1>0, <2>3, <2>4, <2>5
<1>3. CASE contractions = {} /\ runs = {}
  <2>1. ASSUME NEW k \in DOMAIN Classes PROVE text_[start] \notin Classes[k]
    <3>1. MatchRun(text_, start, Classes[k]) = start
      BY <1>3
    <3> QED BY <3>1, MatchRunRange
  <2>2. text_[start] \in Whitespace
    <3>1. 1 \in DOMAIN Classes /\ 2 \in DOMAIN Classes /\ 3 \in DOMAIN Classes
      BY DEF Classes
    <3>2. text_[start] \notin Letters /\ text_[start] \notin Numbers /\ text_[start] \notin Others
      BY <2>1, <3>1 DEF Classes
    <3> QED BY <1>0, <3>2 DEF Others
  <2>3. /\ RunEnd(text_, start, Whitespace) \in start..(Len(text_) + 1)
        /\ RunEnd(text_, start, Whitespace) # start
    BY <2>2, RunEndRange
  <2>4. MatchPiece(text_, start) = MatchWhitespace(text_, start)
    <3> HIDE DEF contractions, runs
    <3> QED BY <1>3 DEF MatchPiece, contractions, runs
  <2> QED BY <1>0, <2>3, <2>4 DEF MatchWhitespace
<1> QED BY <1>1, <1>2, <1>3

-----------------------------------------------------------------------------
(* The scanner and the pattern. *)

LEMMA FirstUnique ==
  ASSUME NEW S \in SUBSET Nat, NEW k \in S, \A m \in S : k <= m
  PROVE  First(S) = k
<1>1. First(S) \in S /\ \A m \in S : First(S) <= m
  BY FirstIsLeast
<1>2. First(S) <= k /\ k <= First(S) /\ First(S) \in Nat /\ k \in Nat
  BY <1>1
<1> QED BY <1>2

LEMMA LongestUnique ==
  ASSUME NEW S \in SUBSET Nat, NEW e \in S, \A other \in S : other <= e
  PROVE  Longest(S) = e
<1>1. Longest(S) \in S /\ \A other \in S : other <= Longest(S)
  BY DEF Longest
<1>2. Longest(S) <= e /\ e <= Longest(S) /\ Longest(S) \in Nat /\ e \in Nat
  BY <1>1
<1> QED BY <1>2

\* A contraction matches where the text reads like it, and only up to its end.
LEMMA ContractionEnds ==
  ASSUME NEW text_ \in Seq(Characters), NEW start \in 1..Len(text_), NEW k \in DOMAIN Contractions
  PROVE  Exactly(text_, start, Contractions[k])
           = IF MatchesContraction(text_, start, k) THEN {start + Len(Contractions[k])} ELSE {}
<1> DEFINE word == Contractions[k]
<1>1. /\ word \in Seq(Characters) /\ Len(word) \in Nat /\ Len(word) # 0
      /\ word[1] = Apostrophe
  <2>1. word \in Seq(Characters) /\ word # <<>> /\ Head(word) = Apostrophe
    BY PatternAssumption, ElementOfSeq, LenProperties DEF PatternAssumption
  <2> QED BY <2>1, LenProperties, EmptySeq
<1>2. Len(text_) \in Nat
  BY LenProperties
<1>3. ASSUME NEW end \in (start + 1)..(Len(text_) + 1)
      PROVE  /\ SubSeq(text_, start, end - 1) \in Seq(Characters)
             /\ Len(SubSeq(text_, start, end - 1)) = end - start
             /\ \A i \in 1..(end - start) : SubSeq(text_, start, end - 1)[i] = text_[start + i - 1]
  <2>1. \A i \in start..(end - 1) : i \in 1..Len(text_)
    BY <1>2
  <2>2. \A i \in start..(end - 1) : text_[i] \in Characters
    BY <2>1, ElementOfSeq
  <2>3. start \in Int /\ end - 1 \in Int /\ start <= end - 1 /\ (end - 1) - start + 1 = end - start
    BY <1>2
  <2> HIDE DEF word
  <2> QED BY <2>2, <2>3, SubSeqProperties
<1>4. ASSUME NEW end \in Exactly(text_, start, word)
      PROVE  MatchesContraction(text_, start, k) /\ end = start + Len(word)
  <2>1. end \in (start + 1)..(Len(text_) + 1) /\ SubSeq(text_, start, end - 1) = word
    BY DEF Exactly
  <2>2. Len(word) = end - start /\ \A i \in 1..Len(word) : word[i] = text_[start + i - 1]
    BY <1>3, <2>1
  <2>3. end = start + Len(word) /\ Len(text_) - start + 1 >= Len(word)
    BY <1>1, <1>2, <2>1, <2>2
  <2>4. text_[start] = Apostrophe
    <3>1. 1 \in 1..Len(word) /\ start + 1 - 1 = start
      BY <1>1
    <3> QED BY <1>1, <2>2, <3>1
  <2>5. ASSUME NEW offset \in 1..(Len(word) - 1)
        PROVE  text_[start + offset] = word[offset + 1]
    <3>1. offset + 1 \in 1..Len(word) /\ start + (offset + 1) - 1 = start + offset
      BY <1>1
    <3> QED BY <2>2, <3>1
  <2> QED BY <2>3, <2>4, <2>5 DEF MatchesContraction
<1>5. ASSUME MatchesContraction(text_, start, k)
      PROVE  start + Len(word) \in Exactly(text_, start, word)
  <2> DEFINE end == start + Len(word)
  <2>1. /\ text_[start] = Apostrophe /\ Len(text_) - start + 1 >= Len(word)
        /\ \A offset \in 1..(Len(word) - 1) : text_[start + offset] = word[offset + 1]
    BY <1>5 DEF MatchesContraction
  <2>2. end \in (start + 1)..(Len(text_) + 1) /\ end - start = Len(word)
    BY <1>1, <1>2, <2>1
  <2>3. ASSUME NEW i \in 1..Len(word) PROVE word[i] = text_[start + i - 1]
    <3>1. CASE i = 1
      <4>1. start + 1 - 1 = start
        OBVIOUS
      <4> QED BY <1>1, <2>1, <3>1, <4>1
    <3>2. CASE i # 1
      <4>1. i - 1 \in 1..(Len(word) - 1) /\ (i - 1) + 1 = i /\ start + (i - 1) = start + i - 1
        BY <1>1, <3>2
      <4> QED BY <2>1, <4>1
    <3> QED BY <3>1, <3>2
  <2> HIDE DEF end
  <2>4. /\ SubSeq(text_, start, end - 1) \in Seq(Characters)
        /\ Len(SubSeq(text_, start, end - 1)) = Len(word)
        /\ \A i \in 1..Len(word) : SubSeq(text_, start, end - 1)[i] = word[i]
    BY <1>3, <2>2, <2>3
  <2>5. SubSeq(text_, start, end - 1) = word
    BY <1>1, <2>4, SeqEqual
  <2> QED BY <2>2, <2>5 DEF Exactly, end
<1>6. CASE MatchesContraction(text_, start, k)
  BY <1>4, <1>5, <1>6
<1>7. CASE ~MatchesContraction(text_, start, k)
  BY <1>4, <1>7
<1> QED BY <1>6, <1>7

\* match_run finds the longest way a class can match, and if there is one.
LEMMA RunIsLongest ==
  ASSUME NEW text_ \in Seq(Characters), NEW start \in 1..Len(text_), NEW class
  PROVE  LET ends == OptionalSpaceAnd(text_, start, class)
             run  == MatchRun(text_, start, class)
         IN /\ run = start => ends = {}
            /\ run # start => run \in ends /\ \A end \in ends : end <= run
<1> DEFINE ends == OptionalSpaceAnd(text_, start, class)
           run == MatchRun(text_, start, class)
           spaced == /\ text_[start] = Space /\ start < Len(text_)
                     /\ text_[start + 1] \in class
<1>0. Len(text_) \in Nat
  BY LenProperties
<1>1. ASSUME NEW end \in ends
      PROVE  /\ end \in (start + 1)..(Len(text_) + 1)
             /\ \/ AllIn(text_, start, end, class)
                \/ spaced /\ AllIn(text_, start + 1, end, class)
  <2>1. /\ end \in (start + 1)..(Len(text_) + 1)
        /\ \/ AllIn(text_, start, end, class)
           \/ text_[start] = Space /\ end > start + 1 /\ AllIn(text_, start + 1, end, class)
    BY DEF OptionalSpaceAnd
  <2>2. CASE AllIn(text_, start, end, class)
    BY <2>1, <2>2
  <2>3. CASE text_[start] = Space /\ end > start + 1 /\ AllIn(text_, start + 1, end, class)
    <3>1. start + 1 \in (start + 1)..(end - 1) /\ start < Len(text_)
      BY <1>0, <2>1, <2>3
    <3>2. text_[start + 1] \in class
      BY <2>3, <3>1 DEF AllIn
    <3> QED BY <2>1, <2>3, <3>1, <3>2
  <2> QED BY <2>1, <2>2, <2>3
\* Nothing that matches goes beyond the end of a run of the class.
<1>2. ASSUME NEW end \in ends, NEW m \in (start + 1)..(Len(text_) + 1),
             m = Len(text_) + 1 \/ text_[m] \notin class
      PROVE  end <= m
  <2>1. end \in (start + 1)..(Len(text_) + 1) /\ AllIn(text_, start + 1, end, class)
    <3>1. AllIn(text_, start, end, class) => AllIn(text_, start + 1, end, class)
      BY <1>0, <1>1 DEF AllIn
    <3> QED BY <1>1, <3>1
  <2>2. SUFFICES ASSUME m < end PROVE FALSE
    BY <1>0, <2>1
  <2>3. m \in (start + 1)..(end - 1) /\ m # Len(text_) + 1
    BY <1>0, <2>1, <2>2
  <2> QED BY <1>2, <2>1, <2>3 DEF AllIn
<1>3. CASE spaced
  <2>1. start + 1 \in 1..Len(text_) /\ text_[start + 1] \in class
    BY <1>0, <1>3
  <2>2. run = RunEnd(text_, start + 1, class)
    BY <1>3 DEF MatchRun
  <2>3. /\ run \in (start + 1)..(Len(text_) + 1) /\ run # start + 1
        /\ AllIn(text_, start + 1, run, class)
        /\ run = Len(text_) + 1 \/ text_[run] \notin class
    <3> HIDE DEF run
    <3> QED BY <2>1, <2>2, RunEndRange
  <2>4. run \in ends
    <3> HIDE DEF run
    <3>1. text_[start] = Space /\ run > start + 1
      BY <1>0, <1>3, <2>3
    <3> QED BY <2>3, <3>1 DEF OptionalSpaceAnd
  <2>5. \A end \in ends : end <= run
    <3> HIDE DEF run, ends
    <3> QED BY <1>2, <2>3
  <2>6. run # start
    <3> HIDE DEF run
    <3> QED BY <1>0, <2>3
  <2> QED BY <2>4, <2>5, <2>6
<1>4. CASE ~spaced /\ text_[start] \in class
  <2>1. run = RunEnd(text_, start, class)
    BY <1>4 DEF MatchRun
  <2>2. /\ run \in (start + 1)..(Len(text_) + 1)
        /\ AllIn(text_, start, run, class)
        /\ run = Len(text_) + 1 \/ text_[run] \notin class
    <3> HIDE DEF run
    <3>1. /\ run \in start..(Len(text_) + 1) /\ run # start
          /\ AllIn(text_, start, run, class)
          /\ run = Len(text_) + 1 \/ text_[run] \notin class
      BY <1>4, <2>1, RunEndRange
    <3> QED BY <1>0, <3>1
  <2>3. run \in ends
    <3> HIDE DEF run
    <3> QED BY <2>2 DEF OptionalSpaceAnd
  <2>4. \A end \in ends : end <= run
    <3> HIDE DEF run, ends
    <3> QED BY <1>2, <2>2
  <2>5. run # start
    <3> HIDE DEF run
    <3> QED BY <1>0, <2>2
  <2> QED BY <2>3, <2>4, <2>5
<1>5. CASE ~spaced /\ text_[start] \notin class
  <2>1. run = start
    BY <1>5 DEF MatchRun
  <2>2. ASSUME NEW end \in ends PROVE FALSE
    <3>1. end \in (start + 1)..(Len(text_) + 1) /\ AllIn(text_, start, end, class)
      BY <1>1, <1>5
    <3>2. start \in start..(end - 1)
      BY <1>0, <3>1
    <3> QED BY <1>5, <3>1, <3>2 DEF AllIn
  <2> QED BY <2>1, <2>2
<1> HIDE DEF ends, run, spaced
<1> QED BY <1>3, <1>4, <1>5 DEF ends, run

\* The elements of two sequences, one after the other.
LEMMA ConcatElements ==
  ASSUME NEW T, NEW s \in Seq(T), NEW t \in Seq(T)
  PROVE  /\ s \o t \in Seq(T) /\ Len(s \o t) = Len(s) + Len(t)
         /\ \A i \in 1..Len(s) : (s \o t)[i] = s[i]
         /\ \A i \in 1..Len(t) : (s \o t)[Len(s) + i] = t[i]
<1>1. /\ s \o t \in Seq(T) /\ Len(s \o t) = Len(s) + Len(t)
      /\ \A i \in 1..(Len(s) + Len(t)) :
           (s \o t)[i] = IF i <= Len(s) THEN s[i] ELSE t[i - Len(s)]
  BY ConcatProperties
<1>2. Len(s) \in Nat /\ Len(t) \in Nat
  BY LenProperties
<1>3. ASSUME NEW i \in 1..Len(s) PROVE (s \o t)[i] = s[i]
  BY <1>1, <1>2
<1>4. ASSUME NEW i \in 1..Len(t) PROVE (s \o t)[Len(s) + i] = t[i]
  <2>1. /\ Len(s) + i \in 1..(Len(s) + Len(t)) /\ ~(Len(s) + i <= Len(s))
        /\ (Len(s) + i) - Len(s) = i
    BY <1>2
  <2> QED BY <1>1, <2>1
<1> QED BY <1>1, <1>3, <1>4

\* The alternatives in their order: the contractions, the classes, whitespace.
LEMMA AlternativeValues ==
  ASSUME NEW text_ \in Seq(Characters), NEW start \in 1..Len(text_)
  PROVE  LET ends  == Alternatives(text_, start)
             count == Len(Contractions)
         IN /\ count \in Nat /\ DOMAIN Contractions = 1..count
            /\ DOMAIN ends = 1..(count + 5)
            /\ \A k \in 1..count : ends[k] = Exactly(text_, start, Contractions[k])
            /\ \A k \in 1..3 : ends[count + k] = OptionalSpaceAnd(text_, start, Classes[k])
            /\ ends[count + 4] = {end \in Spaces(text_, start) : NoNonSpaceFollows(text_, end)}
            /\ ends[count + 5] = Spaces(text_, start)
            /\ \A k \in 1..(count + 5) : ends[k] \in SUBSET Nat
<1> DEFINE count == Len(Contractions)
           words == [k \in DOMAIN Contractions |-> Exactly(text_, start, Contractions[k])]
           runs == [k \in DOMAIN Classes |-> OptionalSpaceAnd(text_, start, Classes[k])]
           before == {end \in Spaces(text_, start) : NoNonSpaceFollows(text_, end)}
           spaces == << before, Spaces(text_, start) >>
           EndSets == SUBSET Nat
           ends == Alternatives(text_, start)
<1>1. /\ Len(text_) \in Nat /\ count \in Nat /\ DOMAIN Contractions = 1..count
  BY PatternAssumption, LenProperties DEF PatternAssumption
<1>2. DOMAIN Classes = 1..3
  BY DEF Classes
<1>3. (start + 1)..(Len(text_) + 1) \in SUBSET Nat
  BY <1>1
<1>4. words \in Seq(EndSets) /\ Len(words) = count
  <2>1. \A k \in 1..count : Exactly(text_, start, Contractions[k]) \in EndSets
    BY <1>3 DEF Exactly
  <2>2. words \in [1..count -> EndSets]
    BY <1>1, <2>1
  <2> QED BY <1>1, <2>2, SeqDef, LenProperties
<1>5. runs \in Seq(EndSets) /\ Len(runs) = 3
  <2>1. \A k \in 1..3 : OptionalSpaceAnd(text_, start, Classes[k]) \in EndSets
    BY <1>3 DEF OptionalSpaceAnd
  <2>2. runs \in [1..3 -> EndSets]
    BY <1>2, <2>1
  <2> QED BY <2>2, SeqDef, LenProperties
<1>6. spaces \in Seq(EndSets) /\ Len(spaces) = 2 /\ spaces[1] = before /\ spaces[2] = Spaces(text_, start)
  <2>1. Spaces(text_, start) \in EndSets /\ before \in EndSets
    BY <1>3 DEF Spaces
  <2> HIDE DEF before, EndSets
  <2> QED BY <2>1
<1>7. ends = (words \o runs) \o spaces
  BY DEF Alternatives
<1>8. \A k \in 1..count : words[k] = Exactly(text_, start, Contractions[k])
  BY <1>1
<1>9. \A k \in 1..3 : runs[k] = OptionalSpaceAnd(text_, start, Classes[k])
  BY <1>2
<1> HIDE DEF words, runs, spaces, ends, before, EndSets, count
<1>10. /\ words \o runs \in Seq(EndSets) /\ Len(words \o runs) = count + 3
       /\ \A i \in 1..count : (words \o runs)[i] = words[i]
       /\ \A i \in 1..3 : (words \o runs)[count + i] = runs[i]
  <2>1. /\ words \o runs \in Seq(EndSets) /\ Len(words \o runs) = Len(words) + Len(runs)
        /\ \A i \in 1..Len(words) : (words \o runs)[i] = words[i]
        /\ \A i \in 1..Len(runs) : (words \o runs)[Len(words) + i] = runs[i]
    <3>1. words \in Seq(EndSets) /\ runs \in Seq(EndSets)
      BY <1>4, <1>5
    <3> QED BY <3>1, ConcatElements
  <2> QED BY <1>4, <1>5, <2>1
<1>11. /\ ends \in Seq(EndSets) /\ Len(ends) = (count + 3) + 2
       /\ \A i \in 1..(count + 3) : ends[i] = (words \o runs)[i]
       /\ \A i \in 1..2 : ends[(count + 3) + i] = spaces[i]
  <2> DEFINE both == words \o runs
  <2>1. both \in Seq(EndSets) /\ Len(both) = count + 3 /\ ends = both \o spaces
    BY <1>7, <1>10
  <2> HIDE DEF both
  <2>2. /\ both \o spaces \in Seq(EndSets) /\ Len(both \o spaces) = Len(both) + Len(spaces)
        /\ \A i \in 1..Len(both) : (both \o spaces)[i] = both[i]
        /\ \A i \in 1..Len(spaces) : (both \o spaces)[Len(both) + i] = spaces[i]
    <3>1. both \in Seq(EndSets) /\ spaces \in Seq(EndSets)
      BY <1>6, <2>1
    <3> QED BY <3>1, ConcatElements
  <2> QED BY <1>6, <2>1, <2>2 DEF both
<1>12. /\ (count + 3) + 1 = count + 4 /\ (count + 3) + 2 = count + 5
       /\ \A k \in 1..count : k \in 1..(count + 3)
       /\ \A k \in 1..3 : count + k \in 1..(count + 3)
  BY <1>1
<1>13. DOMAIN ends = 1..(count + 5) /\ \A k \in 1..(count + 5) : ends[k] \in EndSets
  BY <1>11, <1>12, LenProperties, ElementOfSeq
<1>14. \A k \in 1..count : ends[k] = Exactly(text_, start, Contractions[k])
  BY <1>8, <1>10, <1>11, <1>12
<1>15. \A k \in 1..3 : ends[count + k] = OptionalSpaceAnd(text_, start, Classes[k])
  BY <1>9, <1>10, <1>11, <1>12
<1>16. ends[count + 4] = before /\ ends[count + 5] = Spaces(text_, start)
  <2>1. ends[(count + 3) + 1] = spaces[1] /\ ends[(count + 3) + 2] = spaces[2]
    BY <1>11
  <2> QED BY <1>6, <1>12, <2>1
<1> QED BY <1>1, <1>13, <1>14, <1>15, <1>16 DEF count, ends, before, EndSets

\* An alternative that matches up to an end, none before it and no longer match
\* of its own: that is where the pattern cuts.
LEMMA PatternEndIs ==
  ASSUME NEW text_, NEW start,
         NEW count \in Nat, DOMAIN Alternatives(text_, start) = 1..(count + 5),
         NEW k \in 1..(count + 5), Alternatives(text_, start)[k] \in SUBSET Nat,
         \A j \in 1..(k - 1) : Alternatives(text_, start)[j] = {},
         NEW end \in Alternatives(text_, start)[k],
         \A other \in Alternatives(text_, start)[k] : other <= end
  PROVE  PatternEnd(text_, start) = end
<1> DEFINE ends == Alternatives(text_, start)
           S == {j \in DOMAIN ends : ends[j] # {}}
<1>1. S \in SUBSET Nat /\ k \in S
  OBVIOUS
<1>2. ASSUME NEW m \in S PROVE k <= m
  <2>1. m \in 1..(count + 5) /\ m \notin 1..(k - 1)
    OBVIOUS
  <2> QED BY <2>1
<1>3. First(S) = k
  <2> HIDE DEF S
  <2> QED BY <1>1, <1>2, FirstUnique
<1>4. Longest(ends[k]) = end
  BY LongestUnique
<1> QED BY <1>3, <1>4 DEF PatternEnd

\* Where nothing else matches, match_piece finds what "\s+(?!\S)|\s+" matches.
LEMMA WhitespaceIsThePattern ==
  ASSUME NEW text_ \in Seq(Characters), NEW start \in 1..Len(text_),
         text_[start] \in Whitespace
  PROVE  LET before == {end \in Spaces(text_, start) : NoNonSpaceFollows(text_, end)}
             cut    == MatchWhitespace(text_, start)
         IN /\ before # {} => cut \in before /\ \A end \in before : end <= cut
            /\ before = {} => cut \in Spaces(text_, start)
                              /\ \A end \in Spaces(text_, start) : end <= cut
<1> DEFINE before == {end \in Spaces(text_, start) : NoNonSpaceFollows(text_, end)}
           cut == MatchWhitespace(text_, start)
           run == RunEnd(text_, start, Whitespace)
<1>0. Len(text_) \in Nat
  BY LenProperties
<1>1. /\ run \in (start + 1)..(Len(text_) + 1)
      /\ AllIn(text_, start, run, Whitespace)
      /\ run = Len(text_) + 1 \/ text_[run] \notin Whitespace
  <2>1. /\ run \in start..(Len(text_) + 1) /\ run # start
        /\ AllIn(text_, start, run, Whitespace)
        /\ run = Len(text_) + 1 \/ text_[run] \notin Whitespace
    BY RunEndRange
  <2> HIDE DEF run
  <2> QED BY <1>0, <2>1
<1>2. cut = IF run = Len(text_) + 1 \/ run - start < 2 THEN run ELSE run - 1
  BY DEF MatchWhitespace
<1> HIDE DEF run, cut
<1>3. ASSUME NEW end \in Spaces(text_, start) PROVE end \in (start + 1)..(Len(text_) + 1) /\ end <= run
  <2>1. end \in (start + 1)..(Len(text_) + 1) /\ AllIn(text_, start, end, Whitespace)
    BY DEF Spaces
  <2>2. SUFFICES ASSUME run < end PROVE FALSE
    BY <1>0, <1>1, <2>1
  <2>3. run \in start..(end - 1) /\ run # Len(text_) + 1
    BY <1>0, <1>1, <2>1, <2>2
  <2> QED BY <1>1, <2>1, <2>3 DEF AllIn
<1>4. run \in Spaces(text_, start)
  BY <1>1 DEF Spaces
<1>5. CASE run = Len(text_) + 1
  <2>1. NoNonSpaceFollows(text_, run)
    BY <1>5 DEF NoNonSpaceFollows
  <2>2. cut = run /\ run \in before
    BY <1>2, <1>4, <1>5, <2>1
  <2> QED BY <1>3, <2>2 DEF cut
<1>6. CASE run # Len(text_) + 1 /\ run - start < 2
  <2>1. cut = run /\ run = start + 1
    BY <1>0, <1>1, <1>2, <1>6
  <2>2. ASSUME NEW end \in before PROVE FALSE
    <3>1. end = run
      BY <1>0, <1>1, <1>3, <2>1
    <3>2. NoNonSpaceFollows(text_, end)
      OBVIOUS
    <3> QED BY <1>1, <1>6, <3>1, <3>2 DEF NoNonSpaceFollows
  <2> QED BY <1>3, <1>4, <2>1, <2>2 DEF cut
<1>7. CASE run # Len(text_) + 1 /\ ~(run - start < 2)
  <2>1. cut = run - 1 /\ cut \in (start + 1)..(Len(text_) + 1) /\ cut \in start..(run - 1)
    BY <1>0, <1>1, <1>2, <1>7
  <2>2. text_[cut] \in Whitespace
    BY <1>1, <2>1 DEF AllIn
  <2>3. AllIn(text_, start, cut, Whitespace)
    <3>1. \A k \in start..(cut - 1) : k \in start..(run - 1)
      BY <1>0, <1>1, <2>1
    <3> QED BY <1>1, <3>1 DEF AllIn
  <2>4. cut \in before
    BY <2>1, <2>2, <2>3 DEF Spaces, NoNonSpaceFollows
  <2>5. ASSUME NEW end \in before PROVE end <= cut
    <3>1. NoNonSpaceFollows(text_, end)
      OBVIOUS
    <3>2. end # run
      BY <1>1, <1>7, <3>1 DEF NoNonSpaceFollows
    <3> QED BY <1>0, <1>1, <1>3, <2>1, <3>2
  <2> QED BY <2>4, <2>5 DEF cut
<1> QED BY <1>5, <1>6, <1>7 DEF cut

\* match_piece cuts where a backtracking engine would cut with the pattern of
\* docs/tokenizer.md, in every text and for every division into classes.
THEOREM ScannerIsThePattern ==
  ASSUME NEW text_ \in Seq(Characters), NEW start \in 1..Len(text_)
  PROVE  MatchPiece(text_, start) = PatternEnd(text_, start)
<1> DEFINE contractions == {k \in DOMAIN Contractions : MatchesContraction(text_, start, k)}
           runs == {k \in DOMAIN Classes : MatchRun(text_, start, Classes[k]) # start}
           ends == Alternatives(text_, start)
           count == Len(Contractions)
<1>0. text_[start] \in Characters /\ DOMAIN Classes = 1..3
  BY ElementOfSeq DEF Classes
<1>1. /\ count \in Nat /\ DOMAIN Contractions = 1..count
      /\ DOMAIN ends = 1..(count + 5)
      /\ \A k \in 1..count : ends[k] = Exactly(text_, start, Contractions[k])
      /\ \A k \in 1..3 : ends[count + k] = OptionalSpaceAnd(text_, start, Classes[k])
      /\ ends[count + 4] = {end \in Spaces(text_, start) : NoNonSpaceFollows(text_, end)}
      /\ ends[count + 5] = Spaces(text_, start)
      /\ \A k \in 1..(count + 5) : ends[k] \in SUBSET Nat
  BY AlternativeValues
<1>2. ASSUME NEW k \in 1..count
      PROVE  ends[k] = IF k \in contractions THEN {start + Len(Contractions[k])} ELSE {}
  <2>1. k \in DOMAIN Contractions
    BY <1>1
  <2> QED BY <1>1, <2>1, ContractionEnds
<1>3. ASSUME NEW k \in 1..3
      PROVE  /\ k \notin runs => ends[count + k] = {}
             /\ k \in runs => /\ MatchRun(text_, start, Classes[k]) \in ends[count + k]
                              /\ \A end \in ends[count + k] : end <= MatchRun(text_, start, Classes[k])
  <2> HIDE DEF ends, count
  <2> QED BY <1>0, <1>1, RunIsLongest
<1>4. contractions \in SUBSET (1..count) /\ runs \in SUBSET (1..3)
  BY <1>0, <1>1
<1>5. MatchPiece(text_, start)
        = CASE contractions # {}         -> start + Len(Contractions[First(contractions)])
            [] contractions = {} /\ runs # {} -> MatchRun(text_, start, Classes[First(runs)])
            [] OTHER                     -> MatchWhitespace(text_, start)
  BY DEF MatchPiece
<1> HIDE DEF contractions, runs, ends, count
<1>6. CASE contractions # {}
  <2>1. contractions \in SUBSET Nat
    BY <1>1, <1>4
  <2>2. PICK k \in contractions : k = First(contractions) /\ \A m \in contractions : k <= m
    BY <1>6, <2>1, FirstIsLeast
  <2>3. k \in 1..count /\ k \in 1..(count + 5)
    BY <1>1, <1>4
  <2>4. ends[k] = {start + Len(Contractions[k])}
    BY <1>2, <2>3
  <2>5. \A j \in 1..(k - 1) : ends[j] = {}
    <3>1. \A j \in 1..(k - 1) : j \in 1..count /\ ~(k <= j)
      BY <1>1, <2>3
    <3> QED BY <1>2, <2>2, <3>1
  <2>6. \A other \in ends[k] : other <= start + Len(Contractions[k])
    <3>1. ends[k] \in SUBSET Nat /\ start + Len(Contractions[k]) \in ends[k]
      BY <1>1, <2>3, <2>4
    <3> QED BY <2>4, <3>1
  <2>7. PatternEnd(text_, start) = start + Len(Contractions[k])
    BY <1>1, <2>3, <2>4, <2>5, <2>6, PatternEndIs DEF ends
  <2> QED BY <1>5, <1>6, <2>2, <2>7
<1>7. ASSUME contractions = {}, NEW j \in 1..count PROVE ends[j] = {}
  BY <1>2, <1>7
<1>8. CASE contractions = {} /\ runs # {}
  <2>1. runs \in SUBSET Nat
    BY <1>4
  <2>2. PICK k \in runs : k = First(runs) /\ \A m \in runs : k <= m
    BY <1>8, <2>1, FirstIsLeast
  <2>3. k \in 1..3 /\ count + k \in 1..(count + 5)
    BY <1>1, <1>4
  <2>4. /\ MatchRun(text_, start, Classes[k]) \in ends[count + k]
        /\ \A end \in ends[count + k] : end <= MatchRun(text_, start, Classes[k])
    BY <1>3, <2>3
  <2>5. ASSUME NEW j \in 1..((count + k) - 1) PROVE ends[j] = {}
    <3>1. CASE j <= count
      <4>1. j \in 1..count
        BY <1>1, <2>3, <3>1
      <4> QED BY <1>7, <1>8, <4>1
    <3>2. CASE ~(j <= count)
      <4>1. j - count \in 1..3 /\ ~(k <= j - count) /\ count + (j - count) = j
        BY <1>1, <2>3, <3>2
      <4>2. j - count \notin runs
        BY <2>2, <4>1
      <4> QED BY <1>3, <4>1, <4>2
    <3> QED BY <3>1, <3>2
  <2>6. PatternEnd(text_, start) = MatchRun(text_, start, Classes[k])
    BY <1>1, <2>3, <2>4, <2>5, PatternEndIs DEF ends
  <2> QED BY <1>5, <1>8, <2>2, <2>6
<1>9. CASE contractions = {} /\ runs = {}
  <2>1. ASSUME NEW j \in 1..(count + 3) PROVE ends[j] = {}
    <3>1. CASE j <= count
      <4>1. j \in 1..count
        BY <1>1, <3>1
      <4> QED BY <1>7, <1>9, <4>1
    <3>2. CASE ~(j <= count)
      <4>1. j - count \in 1..3 /\ count + (j - count) = j
        BY <1>1, <3>2
      <4> QED BY <1>3, <1>9, <4>1
    <3> QED BY <3>1, <3>2
  <2>2. text_[start] \in Whitespace
    <3>1. ASSUME NEW k \in 1..3 PROVE text_[start] \notin Classes[k]
      <4>1. MatchRun(text_, start, Classes[k]) = start
        BY <1>0, <1>9 DEF runs
      <4> QED BY <4>1, MatchRunRange
    <3>2. text_[start] \notin Letters /\ text_[start] \notin Numbers /\ text_[start] \notin Others
      BY <3>1 DEF Classes
    <3> QED BY <1>0, <3>2 DEF Others
  <2> DEFINE cut == MatchWhitespace(text_, start)
  <2>3. /\ ends[count + 4] # {} => cut \in ends[count + 4] /\ \A end \in ends[count + 4] : end <= cut
        /\ ends[count + 4] = {} => cut \in ends[count + 5] /\ \A end \in ends[count + 5] : end <= cut
    BY <1>1, <2>2, WhitespaceIsThePattern
  <2>4. MatchPiece(text_, start) = cut
    BY <1>5, <1>9
  <2> HIDE DEF cut
  <2>5. CASE ends[count + 4] # {}
    <3>1. count + 4 \in 1..(count + 5) /\ (count + 4) - 1 = count + 3
      BY <1>1
    <3> QED BY <1>1, <2>1, <2>3, <2>4, <2>5, <3>1, PatternEndIs DEF ends
  <2>6. CASE ends[count + 4] = {}
    <3>1. count + 5 \in 1..(count + 5) /\ (count + 5) - 1 = count + 4
      BY <1>1
    <3>2. \A j \in 1..(count + 4) : ends[j] = {}
      <4>1. \A j \in 1..(count + 4) : j \in 1..(count + 3) \/ j = count + 4
        BY <1>1
      <4> QED BY <2>1, <2>6, <4>1
    <3> QED BY <1>1, <2>3, <2>4, <2>6, <3>1, <3>2, PatternEndIs DEF ends
  <2> QED BY <2>5, <2>6
<1> QED BY <1>6, <1>8, <1>9

-----------------------------------------------------------------------------
(* The invariant. *)

\* What load promises: an ID for every byte, and for the result of every rule.
TablesInv ==
  /\ \E files \in Files : mergesFile = files.merges
  /\ mergesFile \in Seq(Seq(Seq(Nat))) /\ line \in Nat \ {0}
  /\ mergeRules \in Seq(Seq(Seq(Nat)))
  /\ stage = "vocabulary" => mergeRules = <<>>
  /\ stage \notin {"vocabulary", "rejected"} => AlphabetIsComplete
  /\ \A rank \in DOMAIN mergeRules : mergeRules[rank][1] \o mergeRules[rank][2] \in Vocabulary

InPiece == stage \in {"find", "sweep", "emit"}

\* What encode needs of it, from the text down to the sweep.
TextInv == text \in Seq(Characters \cup {Invalid}) /\ position \in Nat \ {0}
SegmentInv ==
  stage = "piece" \/ InPiece => segment \in Seq(Characters) /\ index \in Nat \ {0}
PieceInv == InPiece => symbols \in Seq(Vocabulary) /\ pieceEnd \in Nat \ {0}
SweepInv ==
  stage = "sweep" =>
    swept \in Seq(Vocabulary) /\ at \in Nat \ {0} /\ pair[1] \o pair[2] \in Vocabulary

IInv ==
  /\ TablesInv /\ TextInv /\ SegmentInv /\ PieceInv /\ SweepInv
  /\ EncodeIsTotal /\ PiecesAreThePattern

LEMMA InitInv == Init => IInv
<1> SUFFICES ASSUME Init PROVE IInv
  OBVIOUS
<1> USE DEF Init, LoaderInit
<1>1. mergesFile \in Seq(Seq(Seq(Nat))) /\ \E files \in Files : mergesFile = files.merges
  BY FilesAssumption DEF FilesAssumption
<1>2. mergeRules = <<>> /\ DOMAIN mergeRules = {} /\ <<>> \in Seq(Seq(Seq(Nat)))
  BY EmptySeq
<1>3. TablesInv
  BY <1>1, <1>2 DEF TablesInv
<1>4. text \in Seq(Characters \cup {Invalid})
  BY EmptySeq
<1> QED BY <1>3, <1>4 DEF IInv, TextInv, SegmentInv, PieceInv, SweepInv, InPiece, EncodeIsTotal, PiecesAreThePattern

\* Loading: only the tables change.
LEMMA LoadInv ==
  ASSUME IInv, Load
  PROVE  IInv'
<1> USE DEF IInv, Load, tableVars, fileVars, textVars
<1>1. /\ stage' \in {"vocabulary", "merges", "loaded", "rejected"}
      /\ TextInv' /\ SegmentInv' /\ PieceInv' /\ SweepInv' /\ EncodeIsTotal' /\ PiecesAreThePattern'
  <2>1. stage' \in {"vocabulary", "merges", "loaded", "rejected"}
    BY DEF LoadStep, ReadEntry, IndexVocabulary, ReadLine, FinishLoad, RejectTables
  <2> QED BY <2>1 DEF TextInv, SegmentInv, PieceInv, SweepInv, InPiece, EncodeIsTotal, PiecesAreThePattern
<1>2. TablesInv'
  <2>1. CASE RejectTables
    BY <2>1 DEF RejectTables, TablesInv, Vocabulary
  <2>2. CASE ReadEntry /\ ~RejectTables
    <3>1. /\ UNCHANGED <<mergesFile, stage, mergeRules>> /\ line' = line + 1
          /\ stage = "vocabulary" /\ mergeRules = <<>>
      BY <2>2 DEF ReadEntry, TablesInv
    <3>2. DOMAIN mergeRules' = {}
      BY <3>1
    <3> QED BY <3>1, <3>2 DEF TablesInv
  <2>3. CASE IndexVocabulary /\ ~RejectTables
    <3>1. /\ UNCHANGED <<mergesFile, tokenToId, mergeRules>> /\ line' = 1
          /\ AlphabetIsComplete
      BY <2>3 DEF IndexVocabulary
    <3>2. stage' = "merges"
      BY <2>3 DEF IndexVocabulary
    <3> QED BY <3>1, <3>2 DEF TablesInv, AlphabetIsComplete, Vocabulary
  <2>4. CASE ReadLine /\ ~RejectTables
    <3> DEFINE words == mergesFile[line]
    <3>1. words \in Seq(Seq(Nat))
      <4>1. line \in 1..Len(mergesFile)
        BY <2>4, LenProperties DEF ReadLine, TablesInv
      <4> QED BY <4>1, ElementOfSeq DEF TablesInv
    <3>2. /\ UNCHANGED <<mergesFile, stage, tokenToId>> /\ line' = line + 1
          /\ stage = "merges"
          /\ \/ mergeRules' = mergeRules
             \/ mergeRules' = Append(mergeRules, words) /\ GoodRule(words)
      BY <2>4 DEF ReadLine
    <3>3. CASE mergeRules' = mergeRules
      BY <3>2, <3>3 DEF TablesInv, AlphabetIsComplete, Vocabulary
    <3>4. CASE mergeRules' = Append(mergeRules, words) /\ GoodRule(words)
      <4>1. mergeRules \in Seq(Seq(Seq(Nat))) /\ Len(mergeRules) \in Nat
        BY LenProperties DEF TablesInv
      <4>2. mergeRules' \in Seq(Seq(Seq(Nat)))
        BY <3>1, <3>4, <4>1, AppendProperties
      <4>3. ASSUME NEW rank \in DOMAIN mergeRules'
            PROVE  mergeRules'[rank][1] \o mergeRules'[rank][2] \in Vocabulary
        <5> HIDE DEF words
        <5>1. rank \in 1..(Len(mergeRules) + 1)
          BY <3>1, <3>4, <4>1, <4>2, AppendProperties, LenProperties
        <5>2. CASE rank = Len(mergeRules) + 1
          <6>1. mergeRules'[rank] = words
            BY <3>1, <3>4, <4>1, <5>2, AppendProperties
          <6> QED BY <3>4, <6>1 DEF GoodRule
        <5>3. CASE rank # Len(mergeRules) + 1
          <6>1. rank \in 1..Len(mergeRules)
            BY <4>1, <5>1, <5>3
          <6>2. mergeRules'[rank] = mergeRules[rank] /\ rank \in DOMAIN mergeRules
            BY <3>1, <3>4, <4>1, <6>1, AppendProperties, LenProperties
          <6> QED BY <6>2 DEF TablesInv
        <5> QED BY <5>2, <5>3
      <4>4. Vocabulary' = Vocabulary /\ AlphabetIsComplete' = AlphabetIsComplete
        BY <3>2 DEF Vocabulary, AlphabetIsComplete
      <4>5. /\ mergesFile' \in Seq(Seq(Seq(Nat))) /\ line' \in Nat \ {0}
            /\ \E files \in Files : mergesFile' = files.merges
            /\ stage' = "merges" /\ AlphabetIsComplete
        BY <3>2 DEF TablesInv
      <4> HIDE DEF words
      <4> QED BY <4>2, <4>3, <4>4, <4>5 DEF TablesInv
    <3> QED BY <3>2, <3>3, <3>4
  <2>5. CASE FinishLoad /\ ~RejectTables
    BY <2>5 DEF FinishLoad, TablesInv, AlphabetIsComplete, Vocabulary
  <2> QED BY <2>1, <2>2, <2>3, <2>4, <2>5 DEF LoadStep
<1> QED BY <1>1, <1>2

\* Everything after loading leaves the tables alone.
LEMMA TablesKept ==
  ASSUME IInv, UNCHANGED tables, stage' \notin {"vocabulary", "rejected"},
         stage \notin {"vocabulary", "rejected"}
  PROVE  TablesInv' /\ Vocabulary' = Vocabulary
BY DEF IInv, TablesInv, tables, fileVars, tableVars, AlphabetIsComplete, Vocabulary

LEMMA EncodeInv ==
  ASSUME IInv, NEW t \in Texts(mergesFile), Encode(t)
  PROVE  IInv'
<1> USE DEF Encode
<1>1. TablesInv'
  BY TablesKept
<1>2. TextInv'
  <2>1. PICK files \in Files : mergesFile = files.merges
    BY DEF IInv, TablesInv
  <2>2. t \in Seq(Characters \cup {Invalid})
    BY <2>1, TextAssumption DEF TextAssumption
  <2> QED BY <2>2 DEF TextInv
<1> QED BY <1>1, <1>2 DEF IInv, SegmentInv, PieceInv, SweepInv, InPiece, EncodeIsTotal, PiecesAreThePattern

\* The next marker lies in what is left of the text, or at its end.
LEMMA NextMarkerRange ==
  ASSUME text \in Seq(Characters \cup {Invalid}), position \in Nat \ {0}
  PROVE  NextMarker \in Nat \ {0} /\ NextMarker <= Len(text) + 1
<1> DEFINE markers == {p \in position..Len(text) : IsMarker(p)}
<1>0. Len(text) \in Nat
  BY LenProperties
<1>1. CASE markers = {}
  BY <1>0, <1>1 DEF NextMarker
<1>2. CASE markers # {}
  <2>1. markers \in SUBSET Nat
    BY <1>0
  <2>2. PICK p \in markers : First(markers) = p
    <3> HIDE DEF markers
    <3> QED BY <1>2, <2>1, FirstIsLeast
  <2>3. NextMarker = p
    <3> HIDE DEF markers
    <3> QED BY <1>2, <2>2 DEF NextMarker, markers
  <2> QED BY <1>0, <2>3
<1> QED BY <1>1, <1>2

LEMMA StartSegmentInv ==
  ASSUME IInv, StartSegment
  PROVE  IInv'
<1> USE DEF StartSegment, IsUtf8
<1>0. /\ text \in Seq(Characters \cup {Invalid}) /\ position \in Nat \ {0}
      /\ Len(text) \in Nat
  BY LenProperties DEF IInv, TextInv
<1>1. PICK end \in Nat \ {0} : end = NextMarker /\ end <= Len(text) + 1
  BY <1>0, NextMarkerRange
<1>2. segment' = SubSeq(text, position, end - 1) /\ position' = end /\ text' = text /\ index' = 1
  BY <1>1
<1>3. TablesInv' /\ TextInv'
  <2>1. stage \notin {"vocabulary", "rejected"} /\ stage' \notin {"vocabulary", "rejected"}
    OBVIOUS
  <2>2. TextInv'
    BY <1>0, <1>2 DEF TextInv
  <2> QED BY <2>1, <2>2, TablesKept
<1>4. /\ segment' \in Seq(Characters \cup {Invalid})
      /\ \A k \in DOMAIN segment' : segment'[k] = Invalid => Invalid \in ToSet(text)
  <2>1. CASE position <= end - 1
    <3>1. position \in 1..Len(text) /\ end - 1 \in 1..Len(text)
      BY <1>0, <1>1, <2>1
    <3>2. /\ segment' \in Seq(Characters \cup {Invalid})
          /\ Len(segment') = (end - 1) - position + 1
          /\ \A k \in 1..((end - 1) - position + 1) : segment'[k] = text[position + k - 1]
      BY <1>0, <1>2, <2>1, <3>1, SubSeqProperties
    <3>3. ASSUME NEW k \in DOMAIN segment' PROVE segment'[k] \in ToSet(text)
      <4>1. k \in 1..((end - 1) - position + 1)
        BY <3>2, LenProperties
      <4>2. position + k - 1 \in 1..Len(text)
        BY <1>0, <1>1, <4>1
      <4>3. position + k - 1 \in DOMAIN text
        BY <1>0, <4>2, LenProperties
      <4> QED BY <3>2, <4>1, <4>3 DEF ToSet
    <3> QED BY <3>2, <3>3
  <2>2. CASE ~(position <= end - 1)
    <3>1. position \in Int /\ end - 1 \in Int /\ end - 1 < position
      BY <1>0, <1>1, <2>2
    <3>2. segment' = <<>>
      BY <1>2, <3>1, SubSeqEmpty
    <3>3. segment' \in Seq(Characters \cup {Invalid}) /\ DOMAIN segment' = {}
      <4>1. <<>> \in Seq(Characters \cup {Invalid}) /\ DOMAIN <<>> = {}
        BY EmptySeq
      <4> QED BY <3>2, <4>1
    <3> QED BY <3>3
  <2> QED BY <2>1, <2>2
<1>5. /\ stage' = "piece" => segment' \in Seq(Characters)
      /\ stage' = "invalid" => Invalid \in ToSet(text)
      /\ stage' \in {"piece", "invalid"}
  <2>1. CASE \E k \in DOMAIN segment' : segment'[k] = Invalid
    <3>1. stage' = "invalid"
      BY <2>1
    <3> QED BY <1>4, <2>1, <3>1
  <2>2. CASE ~\E k \in DOMAIN segment' : segment'[k] = Invalid
    <3>1. stage' = "piece"
      BY <2>2
    <3>2. DOMAIN segment' = 1..Len(segment') /\ Len(segment') \in Nat
      BY <1>4, LenProperties
    <3>3. \A k \in 1..Len(segment') : segment'[k] \in Characters
      BY <1>4, <2>2, <3>2, ElementOfSeq
    <3>4. segment' = [k \in 1..Len(segment') |-> segment'[k]]
      BY <1>4, <3>2, LenProperties
    <3>5. segment' \in [1..Len(segment') -> Characters]
      BY <3>3, <3>4
    <3>6. segment' \in Seq(Characters)
      BY <3>2, <3>5, SeqDef
    <3> QED BY <3>1, <3>6
  <2> QED BY <2>1, <2>2
<1>6. SegmentInv' /\ PieceInv' /\ SweepInv' /\ EncodeIsTotal' /\ PiecesAreThePattern'
  <2>1. stage' = "piece" \/ stage' = "invalid"
    BY <1>5
  <2>2. ~InPiece' /\ stage' # "sweep" /\ stage' # "outside"
    BY <2>1 DEF InPiece
  <2>3. index' \in Nat \ {0}
    BY <1>2
  <2>4. SegmentInv'
    <3> USE DEF SegmentInv
    <3> HIDE DEF StartSegment, IsUtf8
    <3> QED BY <1>5, <2>2, <2>3
  <2> QED BY <1>2, <1>5, <2>2, <2>4 DEF PieceInv, SweepInv, EncodeIsTotal, PiecesAreThePattern
<1> QED BY <1>3, <1>6 DEF IInv

\* A piece has the bytes of its characters, and load found an ID for each byte.
LEMMA StartPieceInv ==
  ASSUME IInv, StartPiece
  PROVE  IInv'
<1> DEFINE piece == SubSeq(segment, index, pieceEnd' - 1)
           bytes == BytesOf(piece)
<1>1. /\ stage = "piece" /\ stage' = "find" /\ UNCHANGED tables /\ UNCHANGED textVars
      /\ segment' = segment /\ index' = index
      /\ pieceEnd' = MatchPiece(segment, index) /\ index <= Len(segment)
      /\ symbols' = [k \in DOMAIN bytes |-> <<ByteToCodePoint(bytes[k])>>]
  BY DEF StartPiece
<1>2. /\ segment \in Seq(Characters) /\ index \in Nat \ {0} /\ Len(segment) \in Nat
      /\ AlphabetIsComplete
  BY <1>1, LenProperties DEF IInv, TablesInv, SegmentInv
<1>3. pieceEnd' \in (index + 1)..(Len(segment) + 1)
  <2>1. index \in 1..Len(segment)
    BY <1>1, <1>2
  <2> QED BY <1>1, <1>2, <2>1, MatchPieceAdvances
<1>4. PICK end \in Nat \ {0} : end = pieceEnd' /\ end - 1 \in index..Len(segment)
  BY <1>2, <1>3
<1>5. piece \in Seq(Characters)
  <2>1. \A k \in index..(end - 1) : segment[k] \in Characters
    <3>1. index \in Int /\ index >= 1 /\ end \in Int /\ end - 1 <= Len(segment)
      BY <1>2, <1>4
    <3>2. \A k \in index..(end - 1) : k \in 1..Len(segment)
      <4> HIDE DEF piece, bytes
      <4> QED BY <1>2, <3>1
    <3> QED BY <1>2, <3>2, ElementOfSeq
  <2>2. SubSeq(segment, index, end - 1) \in Seq(Characters)
    <3>1. index \in Int /\ end - 1 \in Int
      BY <1>2, <1>4
    <3> QED BY <2>1, <3>1, SubSeqProperties
  <2> QED BY <1>4, <2>2
<1>6. bytes \in Seq(Bytes)
  <2> HIDE DEF piece
  <2> DEFINE list == [k \in DOMAIN piece |-> Utf8[piece[k]]]
  <2>1. DOMAIN piece = 1..Len(piece) /\ Len(piece) \in Nat
    BY <1>5, LenProperties
  <2>2. \A k \in 1..Len(piece) : Utf8[piece[k]] \in Seq(Bytes)
    BY <1>5, TextAssumption, ElementOfSeq DEF TextAssumption
  <2>3. list \in [1..Len(piece) -> Seq(Bytes)]
    BY <2>1, <2>2
  <2>4. list \in Seq(Seq(Bytes))
    BY <2>1, <2>3, SeqDef
  <2> QED BY <2>4, FlattenType DEF BytesOf
<1>7. symbols' \in Seq(Vocabulary)
  <2> HIDE DEF bytes
  <2>1. DOMAIN bytes = 1..Len(bytes) /\ Len(bytes) \in Nat
    BY <1>6, LenProperties
  <2>2. \A k \in 1..Len(bytes) : <<ByteToCodePoint(bytes[k])>> \in Vocabulary
    BY <1>2, <1>6, ElementOfSeq DEF AlphabetIsComplete
  <2>3. symbols' \in [1..Len(bytes) -> Vocabulary]
    BY <1>1, <2>1, <2>2
  <2> QED BY <2>1, <2>3, SeqDef
<1>8. TablesInv' /\ Vocabulary' = Vocabulary
  BY <1>1, TablesKept
<1>9. TextInv' /\ SegmentInv' /\ SweepInv' /\ EncodeIsTotal'
  BY <1>1, <1>2 DEF IInv, TextInv, textVars, SegmentInv, SweepInv, EncodeIsTotal, InPiece
<1>10. PieceInv'
  BY <1>4, <1>7, <1>8 DEF PieceInv
<1>11. PiecesAreThePattern'
  <2>1. index \in 1..Len(segment)
    BY <1>1, <1>2
  <2>2. pieceEnd' = PatternEnd(segment, index)
    BY <1>1, <1>2, <2>1, ScannerIsThePattern
  <2> QED BY <1>1, <2>2 DEF PiecesAreThePattern
<1> QED BY <1>8, <1>9, <1>10, <1>11 DEF IInv

\* The pair to merge is a rule, and the result of a rule has an ID.
LEMMA FindPairInv ==
  ASSUME IInv, FindPair
  PROVE  IInv'
<1>1. /\ stage = "find" /\ stage' \in {"emit", "sweep"} /\ UNCHANGED tables
      /\ UNCHANGED <<textVars, pieceVars, symbols>>
  BY DEF FindPair
<1>2. TablesInv' /\ Vocabulary' = Vocabulary
  BY <1>1, TablesKept
<1>3. TextInv' /\ SegmentInv' /\ PieceInv' /\ EncodeIsTotal' /\ PiecesAreThePattern'
  BY <1>1, <1>2 DEF IInv, TextInv, textVars, pieceVars, SegmentInv, PieceInv, EncodeIsTotal, PiecesAreThePattern, InPiece
<1>4. SweepInv'
  <2>1. CASE RanksPresent = {}
    <3>1. stage' = "emit"
      BY <2>1 DEF FindPair
    <3> QED BY <3>1 DEF SweepInv
  <2>2. CASE RanksPresent # {}
    <3>1. DOMAIN mergeRules \in SUBSET Nat
      BY LenProperties DEF IInv, TablesInv
    <3>2. RanksPresent \in SUBSET Nat /\ RanksPresent \subseteq DOMAIN mergeRules
      BY <3>1 DEF RanksPresent
    <3>3. PICK rank \in DOMAIN mergeRules : rank = First(RanksPresent)
      BY <2>2, <3>2, FirstIsLeast
    <3>4. pair' = mergeRules[rank] /\ swept' = <<>> /\ at' = 1
      BY <2>2, <3>3 DEF FindPair
    <3>5. pair'[1] \o pair'[2] \in Vocabulary
      BY <3>4 DEF IInv, TablesInv
    <3>6. swept' \in Seq(Vocabulary)
      BY <3>4, EmptySeq
    <3> QED BY <1>2, <3>4, <3>5, <3>6 DEF SweepInv
  <2> QED BY <2>1, <2>2
<1> QED BY <1>2, <1>3, <1>4 DEF IInv

LEMMA SweepStepInv ==
  ASSUME IInv, Sweep
  PROVE  IInv'
<1>1. /\ stage = "sweep" /\ stage' = "sweep" /\ UNCHANGED tables /\ at <= Len(symbols)
      /\ UNCHANGED <<textVars, pieceVars, symbols, pair>>
      /\ \/ swept' = Append(swept, pair[1] \o pair[2]) /\ at' = at + 2
         \/ swept' = Append(swept, symbols[at]) /\ at' = at + 1
  BY DEF Sweep
<1>2. TablesInv' /\ Vocabulary' = Vocabulary
  BY <1>1, TablesKept
<1>3. TextInv' /\ SegmentInv' /\ PieceInv' /\ EncodeIsTotal' /\ PiecesAreThePattern'
  BY <1>1, <1>2 DEF IInv, TextInv, textVars, pieceVars, SegmentInv, PieceInv, EncodeIsTotal, PiecesAreThePattern, InPiece
<1>4. /\ symbols \in Seq(Vocabulary) /\ swept \in Seq(Vocabulary) /\ at \in Nat \ {0}
      /\ pair[1] \o pair[2] \in Vocabulary
  BY <1>1 DEF IInv, PieceInv, SweepInv, InPiece
<1>5. symbols[at] \in Vocabulary
  <2>1. at \in 1..Len(symbols)
    BY <1>1, <1>4, LenProperties
  <2> QED BY <1>4, <2>1, ElementOfSeq
<1>6. swept' \in Seq(Vocabulary) /\ at' \in Nat \ {0}
  <2>1. PICK new \in Vocabulary : swept' = Append(swept, new)
    <3>1. CASE swept' = Append(swept, pair[1] \o pair[2])
      BY <1>4, <3>1
    <3>2. CASE swept' = Append(swept, symbols[at])
      BY <1>5, <3>2
    <3> QED BY <1>1, <3>1, <3>2
  <2>2. at' \in Nat \ {0}
    <3>1. at' \in {at + 1, at + 2}
      BY <1>1
    <3>2. at \in Nat \ {0}
      BY <1>4
    <3> QED BY <3>1, <3>2
  <2> QED BY <1>4, <2>1, <2>2, AppendProperties
<1> QED BY <1>1, <1>2, <1>3, <1>4, <1>6 DEF IInv, SweepInv

LEMMA EndSweepInv ==
  ASSUME IInv, EndSweep
  PROVE  IInv'
<1>1. /\ stage = "sweep" /\ stage' = "find" /\ UNCHANGED tables
      /\ UNCHANGED <<textVars, pieceVars>> /\ symbols' = swept
  BY DEF EndSweep
<1>2. TablesInv' /\ Vocabulary' = Vocabulary
  BY <1>1, TablesKept
<1> QED
  BY <1>1, <1>2 DEF IInv, TextInv, textVars, pieceVars, SegmentInv, PieceInv, SweepInv, EncodeIsTotal, PiecesAreThePattern, InPiece

\* Every symbol has an ID, so the code's "token outside the vocabulary" is never
\* thrown.
LEMMA EmitTokensInv ==
  ASSUME IInv, EmitTokens
  PROVE  IInv'
<1>1. symbols \in Seq(Vocabulary) /\ pieceEnd \in Nat \ {0} /\ segment \in Seq(Characters)
  BY DEF EmitTokens, IInv, PieceInv, SegmentInv, InPiece
<1>2. \A k \in DOMAIN symbols : symbols[k] \in Vocabulary
  BY <1>1, LenProperties, ElementOfSeq
<1>3. /\ stage = "emit" /\ stage' = "piece" /\ UNCHANGED tables /\ UNCHANGED textVars
      /\ segment' = segment /\ index' = pieceEnd
  BY <1>2 DEF EmitTokens
<1>4. TablesInv'
  BY <1>3, TablesKept
<1> QED
  BY <1>1, <1>3, <1>4 DEF IInv, TextInv, textVars, SegmentInv, PieceInv, SweepInv, EncodeIsTotal, PiecesAreThePattern, InPiece

LEMMA EndSegmentInv ==
  ASSUME IInv, EndSegment
  PROVE  IInv'
<1>1. /\ stage = "piece" /\ stage' \in {"segment", "encoded"} /\ UNCHANGED tables
      /\ text' = text /\ position' \in {position, position + Len(Marker)}
  BY DEF EndSegment
<1>2. TablesInv'
  BY <1>1, TablesKept
<1>3. TextInv'
  <2>1. Len(Marker) \in Nat
    BY TextAssumption, LenProperties DEF TextAssumption
  <2> QED BY <1>1, <2>1 DEF IInv, TextInv
<1> QED
  BY <1>1, <1>2, <1>3 DEF IInv, SegmentInv, PieceInv, SweepInv, EncodeIsTotal, PiecesAreThePattern, InPiece

LEMMA DecodeInv ==
  ASSUME IInv, NEW ids, Decode(ids)
  PROVE  IInv'
<1>1. /\ stage = "encoded" /\ stage' \in {"decoded", "out_of_range"} /\ UNCHANGED tables
      /\ UNCHANGED textVars
  BY DEF Decode
<1>2. TablesInv'
  BY <1>1, TablesKept
<1> QED
  BY <1>1, <1>2 DEF IInv, TextInv, textVars, SegmentInv, PieceInv, SweepInv, EncodeIsTotal, PiecesAreThePattern, InPiece

LEMMA NextInv == IInv /\ [Next]_vars => IInv'
<1> SUFFICES ASSUME IInv, [Next]_vars PROVE IInv'
  OBVIOUS
<1>1. CASE Load BY <1>1, LoadInv
<1>2. ASSUME NEW t \in Texts(mergesFile), Encode(t) PROVE IInv' BY <1>2, EncodeInv
<1>3. CASE StartSegment BY <1>3, StartSegmentInv
<1>4. CASE StartPiece BY <1>4, StartPieceInv
<1>5. CASE FindPair BY <1>5, FindPairInv
<1>6. CASE Sweep BY <1>6, SweepStepInv
<1>7. CASE EndSweep BY <1>7, EndSweepInv
<1>8. CASE EmitTokens BY <1>8, EmitTokensInv
<1>9. CASE EndSegment BY <1>9, EndSegmentInv
<1>10. ASSUME NEW ids \in DecodeArguments, Decode(ids) PROVE IInv' BY <1>10, DecodeInv
<1>11. CASE UNCHANGED vars
  BY <1>11 DEF vars, loaderVars, fileVars, tableVars, textVars, pieceVars, sweepVars, decodeVars,
     IInv, TablesInv, TextInv, SegmentInv, PieceInv, SweepInv, EncodeIsTotal, PiecesAreThePattern, InPiece,
     AlphabetIsComplete, Vocabulary
<1> QED
  BY <1>1, <1>2, <1>3, <1>4, <1>5, <1>6, <1>7, <1>8, <1>9, <1>10, <1>11 DEF Next, Ended

\* What every step of a tokenizer, from the files to the tokens, keeps.
THEOREM InductiveInvariant == Spec => []IInv
BY InitInv, NextInv, PTL DEF Spec

\* Every piece that encode takes out of a segment, of whatever text, ends where
\* the pattern of docs/tokenizer.md ends.
THEOREM PiecesAlwaysThePattern == Spec => []PiecesAreThePattern
<1>1. IInv => PiecesAreThePattern
  BY DEF IInv
<1> QED BY <1>1, InductiveInvariant, PTL

\* A tokenizer that load accepted encodes every text that is valid UTF-8: no
\* rules, in whatever order, lead to a symbol without an ID.
THEOREM EncodeAlwaysTotal == Spec => []EncodeIsTotal
<1>1. IInv => EncodeIsTotal
  BY DEF IInv
<1> QED BY <1>1, InductiveInvariant, PTL


-----------------------------------------------------------------------------
(* Bytes and their code points. *)

LEMMA CodePoints ==
  /\ \A b \in Bytes : ByteToCodePoint(b) \in Nat
  /\ \A b, c \in Bytes : ByteToCodePoint(b) = ByteToCodePoint(c) => b = c
  /\ \A b \in Bytes : b \in Alphabet => ByteToCodePoint(b) = b
<1>0. /\ ByteCount \in Nat /\ FirstRemapped \in Nat /\ FirstRemapped >= ByteCount
      /\ \A b \in Bytes : b \in Nat /\ b < ByteCount
  BY AlphabetAssumption DEF AlphabetAssumption, Bytes
<1>1. ASSUME NEW b \in Bytes
      PROVE  IsFiniteSet(RemappedBelow(b)) /\ Cardinality(RemappedBelow(b)) \in Nat
  <2>1. IsFiniteSet(0..(b - 1))
    BY <1>0, FS_Interval
  <2>2. RemappedBelow(b) \subseteq 0..(b - 1)
    BY DEF RemappedBelow
  <2> QED BY <2>1, <2>2, FS_Subset, FS_CardinalityType
<1>2. ASSUME NEW b \in Bytes
      PROVE  /\ b \in Printable => ByteToCodePoint(b) = b
             /\ b \notin Printable =>
                  /\ ByteToCodePoint(b) = FirstRemapped + Cardinality(RemappedBelow(b))
                  /\ ByteToCodePoint(b) \in Nat /\ ByteToCodePoint(b) >= ByteCount
  <2> DEFINE n == Cardinality(RemappedBelow(b))
  <2>1. n \in Nat
    BY <1>1
  <2> HIDE DEF n
  <2>2. FirstRemapped + n \in Nat /\ FirstRemapped + n >= ByteCount
    BY <1>0, <2>1
  <2> QED BY <2>2 DEF ByteToCodePoint, n
<1>3. ASSUME NEW b \in Bytes, NEW c \in Bytes, b \notin Printable, c \notin Printable, b < c
      PROVE  ByteToCodePoint(b) # ByteToCodePoint(c)
  <2>1. b \in RemappedBelow(c) /\ RemappedBelow(b) \subseteq RemappedBelow(c)
    BY <1>0, <1>3 DEF RemappedBelow
  <2>2. b \notin RemappedBelow(b)
    BY <1>0 DEF RemappedBelow
  <2>3. Cardinality(RemappedBelow(b)) < Cardinality(RemappedBelow(c))
    <3>1. RemappedBelow(b) # RemappedBelow(c)
      BY <2>1, <2>2
    <3> QED BY <1>1, <2>1, <3>1, FS_Subset
  <2> DEFINE m == Cardinality(RemappedBelow(b))
             n == Cardinality(RemappedBelow(c))
  <2>4. m \in Nat /\ n \in Nat /\ m < n
    BY <1>1, <2>3
  <2>5. ByteToCodePoint(b) = FirstRemapped + m /\ ByteToCodePoint(c) = FirstRemapped + n
    BY <1>2, <1>3
  <2> HIDE DEF m, n
  <2> QED BY <1>0, <2>4, <2>5
<1>4. ASSUME NEW b \in Bytes, NEW c \in Bytes, ByteToCodePoint(b) = ByteToCodePoint(c)
      PROVE  b = c
  <2>1. CASE b \in Printable /\ c \in Printable
    BY <1>2, <1>4, <2>1
  <2>2. CASE b \in Printable /\ c \notin Printable
    BY <1>0, <1>2, <1>4, <2>2
  <2>3. CASE b \notin Printable /\ c \in Printable
    BY <1>0, <1>2, <1>4, <2>3
  <2>4. CASE b \notin Printable /\ c \notin Printable
    <3>1. ~(b < c) /\ ~(c < b)
      BY <1>3, <1>4, <2>4
    <3> QED BY <1>0, <3>1
  <2> QED BY <2>1, <2>2, <2>3, <2>4
<1>5. ASSUME NEW b \in Bytes, b \in Alphabet PROVE ByteToCodePoint(b) = b
  <2>1. PICK c \in Bytes : b = ByteToCodePoint(c)
    BY <1>5 DEF Alphabet
  <2>2. c \in Printable
    BY <1>0, <1>2, <2>1
  <2> QED BY <1>2, <2>1, <2>2
<1>6. \A b \in Bytes : ByteToCodePoint(b) \in Nat
  BY <1>0, <1>2
<1> QED BY <1>4, <1>5, <1>6

LEMMA BytesBack == \A b \in Bytes : CodePointToByte(ByteToCodePoint(b)) = b
BY CodePoints DEF CodePointToByte

Coded(bytes) == [k \in DOMAIN bytes |-> ByteToCodePoint(bytes[k])]

LEMMA CodedType ==
  ASSUME NEW bytes \in Seq(Bytes)
  PROVE  /\ Coded(bytes) \in Seq(Alphabet) /\ Len(Coded(bytes)) = Len(bytes)
         /\ \A k \in 1..Len(bytes) : Coded(bytes)[k] = ByteToCodePoint(bytes[k])
<1> DEFINE f == [b \in Bytes |-> ByteToCodePoint(b)]
<1>1. Maps(f, Bytes, Alphabet) /\ \A b \in Bytes : f[b] = ByteToCodePoint(b)
  BY DEF Alphabet, Maps
<1>2. Coded(bytes) = Each(f, bytes)
  <2>1. \A k \in DOMAIN bytes : bytes[k] \in Bytes
    BY LenProperties, ElementOfSeq
  <2> QED BY <1>1, <2>1 DEF Coded, Each
<1> HIDE DEF f
<1>3. /\ Each(f, bytes) \in Seq(Alphabet) /\ Len(Each(f, bytes)) = Len(bytes)
      /\ \A k \in 1..Len(bytes) : Each(f, bytes)[k] = f[bytes[k]]
  BY <1>1, EachType
<1> QED BY <1>1, <1>2, <1>3, ElementOfSeq

LEMMA CodedConcat ==
  ASSUME NEW s \in Seq(Bytes), NEW u \in Seq(Bytes)
  PROVE  Coded(s \o u) = Coded(s) \o Coded(u)
<1> DEFINE f == [b \in Bytes |-> ByteToCodePoint(b)]
<1>1. Maps(f, Bytes, Alphabet) /\ \A b \in Bytes : f[b] = ByteToCodePoint(b)
  BY DEF Alphabet, Maps
<1>2. s \o u \in Seq(Bytes)
  BY ConcatProperties
<1>3. ASSUME NEW v \in Seq(Bytes) PROVE Coded(v) = Each(f, v)
  <2>1. \A k \in DOMAIN v : v[k] \in Bytes
    BY LenProperties, ElementOfSeq
  <2> QED BY <1>1, <2>1 DEF Coded, Each
<1> HIDE DEF f
<1>4. Each(f, s \o u) = Each(f, s) \o Each(f, u)
  BY <1>1, EachConcat
<1> QED BY <1>2, <1>3, <1>4

LEMMA BytesType == \A t \in Seq(Characters) : BytesOf(t) \in Seq(Bytes)
<1> SUFFICES ASSUME NEW t \in Seq(Characters) PROVE BytesOf(t) \in Seq(Bytes)
  OBVIOUS
<1>1. Maps(Utf8, Characters, Seq(Bytes))
  BY TextAssumption DEF TextAssumption, Maps
<1>2. Each(Utf8, t) \in Seq(Seq(Bytes))
  BY <1>1, EachType
<1>3. BytesOf(t) = FlattenSeq(Each(Utf8, t))
  BY DEF BytesOf, Each
<1> QED BY <1>2, <1>3, FlattenType

LEMMA BytesConcat ==
  ASSUME NEW t \in Seq(Characters), NEW u \in Seq(Characters)
  PROVE  BytesOf(t \o u) = BytesOf(t) \o BytesOf(u)
<1>1. Maps(Utf8, Characters, Seq(Bytes))
  BY TextAssumption DEF TextAssumption, Maps
<1>2. Each(Utf8, t) \in Seq(Seq(Bytes)) /\ Each(Utf8, u) \in Seq(Seq(Bytes))
  <2>1. Each(Utf8, t) \in Seq(Seq(Bytes))
    BY <1>1, EachType
  <2>2. Each(Utf8, u) \in Seq(Seq(Bytes))
    BY <1>1, EachType
  <2> QED BY <2>1, <2>2
<1>3. Each(Utf8, t \o u) = Each(Utf8, t) \o Each(Utf8, u)
  BY <1>1, EachConcat
<1>4. FlattenSeq(Each(Utf8, t) \o Each(Utf8, u))
        = FlattenSeq(Each(Utf8, t)) \o FlattenSeq(Each(Utf8, u))
  BY <1>2, FlattenConcat
<1>5. \A v : BytesOf(v) = FlattenSeq(Each(Utf8, v))
  BY DEF BytesOf, Each
<1> QED BY <1>3, <1>4, <1>5

\* More of a text are more of its bytes.
LEMMA TextGrows ==
  ASSUME NEW t, NEW n \in Nat, NEW p \in Seq(Characters),
         \A k \in 1..(n + Len(p)) : t[k] \in Characters,
         \A k \in 1..Len(p) : p[k] = t[n + k]
  PROVE  Coded(BytesOf(SubSeq(t, 1, n + Len(p)))) = Coded(BytesOf(SubSeq(t, 1, n))) \o Coded(BytesOf(p))
<1> DEFINE m == n + Len(p)
           a == SubSeq(t, 1, n)
           c == SubSeq(t, 1, m)
<1>0. Len(p) \in Nat /\ m \in Nat /\ 1 \in Int /\ n \in Int
  BY LenProperties
<1>1. a \in Seq(Characters) /\ Len(a) = n /\ \A i \in 1..n : a[i] = t[i]
  <2>1. \A k \in 1..n : t[k] \in Characters
    BY <1>0
  <2>2. /\ a \in Seq(Characters) /\ Len(a) = IF 1 <= n THEN n - 1 + 1 ELSE 0
        /\ \A i \in 1..(n - 1 + 1) : a[i] = t[1 + i - 1]
    BY <1>0, <2>1, SubSeqProperties
  <2>3. \A i \in 1..n : i \in 1..(n - 1 + 1) /\ 1 + i - 1 = i
    BY <1>0
  <2> HIDE DEF a
  <2>4. \A i \in 1..n : a[i] = t[i]
    BY <2>2, <2>3
  <2> QED BY <1>0, <2>2, <2>4
<1>2. c \in Seq(Characters) /\ Len(c) = m /\ \A i \in 1..m : c[i] = t[i]
  <2>1. m \in Int /\ \A k \in 1..m : t[k] \in Characters
    BY <1>0
  <2> HIDE DEF m
  <2>2. /\ c \in Seq(Characters) /\ Len(c) = IF 1 <= m THEN m - 1 + 1 ELSE 0
        /\ \A i \in 1..(m - 1 + 1) : c[i] = t[1 + i - 1]
    BY <1>0, <2>1, SubSeqProperties
  <2>3. \A i \in 1..m : i \in 1..(m - 1 + 1) /\ 1 + i - 1 = i
    BY <1>0
  <2> HIDE DEF c
  <2>4. \A i \in 1..m : c[i] = t[i]
    BY <2>2, <2>3
  <2> QED BY <1>0, <2>2, <2>4
<1>3. c = a \o p
  <2> HIDE DEF a, c, m
  <2>1. /\ a \o p \in Seq(Characters) /\ Len(a \o p) = Len(a) + Len(p)
        /\ \A i \in 1..(Len(a) + Len(p)) : (a \o p)[i] = IF i <= Len(a) THEN a[i] ELSE p[i - Len(a)]
    BY <1>1, ConcatProperties
  <2>2. Len(a \o p) = m
    BY <1>1, <2>1 DEF m
  <2>3. ASSUME NEW i \in 1..m PROVE c[i] = (a \o p)[i]
    <3>1. i \in 1..(Len(a) + Len(p)) /\ c[i] = t[i]
      BY <1>1, <1>2 DEF m
    <3>2. CASE i <= n
      <4>1. i \in 1..n
        BY <1>0, <3>2
      <4> QED BY <1>1, <2>1, <3>1, <3>2, <4>1
    <3>3. CASE ~(i <= n)
      <4>1. i - n \in 1..Len(p) /\ n + (i - n) = i
        BY <1>0, <3>3 DEF m
      <4>2. p[i - n] = t[i]
        BY <4>1
      <4> QED BY <1>1, <2>1, <3>1, <3>3, <4>2
    <3> QED BY <3>2, <3>3
  <2> QED BY <1>2, <2>1, <2>2, <2>3, SeqEqual
<1> HIDE DEF a, c
<1>4. BytesOf(c) = BytesOf(a) \o BytesOf(p)
  BY <1>1, <1>3, BytesConcat
<1>5. BytesOf(a) \in Seq(Bytes) /\ BytesOf(p) \in Seq(Bytes)
  BY <1>1, BytesType
<1>6. Coded(BytesOf(a) \o BytesOf(p)) = Coded(BytesOf(a)) \o Coded(BytesOf(p))
  BY <1>5, CodedConcat
<1> QED BY <1>4, <1>6 DEF a, c


CodeOf(t) == Coded(BytesOf(t))

LEMMA CodeOfType == \A t \in Seq(Characters) : CodeOf(t) \in Seq(Alphabet)
<1> SUFFICES ASSUME NEW t \in Seq(Characters) PROVE CodeOf(t) \in Seq(Alphabet)
  OBVIOUS
<1>1. BytesOf(t) \in Seq(Bytes)
  BY BytesType
<1> QED BY <1>1, CodedType DEF CodeOf

LEMMA CodeOfNone == CodeOf(<<>>) = <<>>
<1>1. DOMAIN <<>> = {}
  OBVIOUS
<1>2. BytesOf(<<>>) = <<>>
  <2>1. [k \in DOMAIN <<>> |-> Utf8[<<>>[k]]] = <<>>
    BY <1>1
  <2> QED BY <2>1, FlattenEmpty DEF BytesOf
<1>3. Coded(<<>>) = <<>>
  BY <1>1 DEF Coded
<1> QED BY <1>2, <1>3 DEF CodeOf

\* The end-of-text marker is a token as it stands: its bytes are printable.
LEMMA MarkerIsCoded ==
  ASSUME EndOfText \in Seq(Alphabet)
  PROVE  CodeOf(Marker) = EndOfText
<1>1. Marker \in Seq(Characters) /\ EndOfText = BytesOf(Marker)
  BY TextAssumption DEF TextAssumption, BytesOf
<1>2. EndOfText \in Seq(Bytes)
  BY <1>1, BytesType
<1>3. /\ Coded(EndOfText) \in Seq(Alphabet) /\ Len(Coded(EndOfText)) = Len(EndOfText)
      /\ \A k \in 1..Len(EndOfText) : Coded(EndOfText)[k] = ByteToCodePoint(EndOfText[k])
  BY <1>2, CodedType
<1>4. ASSUME NEW k \in 1..Len(EndOfText) PROVE Coded(EndOfText)[k] = EndOfText[k]
  <2>1. EndOfText[k] \in Bytes
    BY <1>2, ElementOfSeq
  <2>2. EndOfText[k] \in Alphabet
    BY ElementOfSeq
  <2> QED BY <1>3, <2>1, <2>2, CodePoints
<1>5. Coded(EndOfText) = EndOfText
  BY <1>3, <1>4, SeqEqual
<1> QED BY <1>1, <1>5 DEF CodeOf

-----------------------------------------------------------------------------
(* What the tokens stand for: the bytes of the text up to where encode is. *)

Meaning(table, ids) == FlattenSeq(Each(table, ids))

Ids == {tokenToId[token] : token \in Vocabulary}

\* The two tables are inverse to each other, and tokens consist of bytes.
VocabularyInv ==
  /\ vocabularyFile \in Seq([token : Seq(Nat), id : Nat])
  /\ IsFiniteSet(Vocabulary) /\ tokenToId \in [Vocabulary -> Nat]
  /\ Vocabulary \subseteq Seq(Alphabet)
  /\ stage \notin {"vocabulary", "rejected"} =>
       /\ DOMAIN idToToken = 0..(Cardinality(Vocabulary) - 1)
       /\ \A token \in Vocabulary :
            tokenToId[token] \in DOMAIN idToToken /\ idToToken[tokenToId[token]] = token
  /\ stage \notin {"vocabulary", "merges", "rejected"} => EndOfText \in Vocabulary

InSegment == stage = "piece" \/ InPiece
IsEncoded == stage \in {"encoded", "decoded", "out_of_range"}

\* The characters before the segment, and those whose tokens are complete.
Base == position - 1 - Len(segment)
Done == IF stage = "segment" THEN position - 1 ELSE Base + index - 1

\* The segment is a part of the text, up to a marker or the end of the text.
PlaceInv ==
  /\ stage = "segment" \/ InSegment =>
       /\ position - 1 \in 0..Len(text)
       /\ \A k \in 1..(position - 1) : text[k] \in Characters
  /\ InSegment =>
       /\ Base \in Nat /\ index \in 1..(Len(segment) + 1)
       /\ \A k \in 1..Len(segment) : segment[k] = text[Base + k]
       /\ position <= Len(text) => IsMarker(position)
  /\ IsEncoded => text \in Seq(Characters)

TokensInv ==
  /\ stage \in {"vocabulary", "merges", "loaded"} => tokenIds = <<>>
  /\ stage = "segment" \/ InSegment =>
       /\ tokenIds \in Seq(Ids)
       /\ Meaning(idToToken, tokenIds) = CodeOf(SubSeq(text, 1, Done))
  /\ IsEncoded =>
       /\ tokenIds \in Seq(Ids)
       /\ Meaning(idToToken, tokenIds) = CodeOf(text)

\* Merging leaves the bytes of a piece as they are, in the middle of a sweep too.
SymbolsInv ==
  /\ InPiece =>
       /\ pieceEnd \in (index + 1)..(Len(segment) + 1)
       /\ FlattenSeq(symbols) = CodeOf(SubSeq(segment, index, pieceEnd - 1))
  /\ stage = "sweep" =>
       /\ at - 1 \in 0..Len(symbols)
       /\ FlattenSeq(swept) = FlattenSeq(SubSeq(symbols, 1, at - 1))

BytesInv == VocabularyInv /\ PlaceInv /\ TokensInv /\ SymbolsInv /\ DecodeInvertsEncode

LEMMA BytesInitInv == Init => BytesInv
<1> SUFFICES ASSUME Init PROVE BytesInv
  OBVIOUS
<1>1. /\ stage = "vocabulary" /\ tokenIds = <<>> /\ tokenToId = [token \in {} |-> 0]
      /\ vocabularyFile \in Seq([token : Seq(Nat), id : Nat])
  BY FilesAssumption DEF FilesAssumption, Init, LoaderInit
<1>2. Vocabulary = {} /\ IsFiniteSet(Vocabulary)
  BY <1>1, FS_EmptySet DEF Vocabulary
<1> QED
  BY <1>1, <1>2 DEF BytesInv, VocabularyInv, PlaceInv, TokensInv, SymbolsInv, InSegment, InPiece,
     IsEncoded, DecodeInvertsEncode

\* Reading an entry keeps the tokens sequences of alphabet code points, and the
\* index made at the end is the inverse of the IDs.
LEMMA LoadVocabularyInv ==
  ASSUME IInv, VocabularyInv, Load
  PROVE  VocabularyInv'
<1> DEFINE Tables == /\ vocabularyFile \in Seq([token : Seq(Nat), id : Nat])
                     /\ IsFiniteSet(Vocabulary) /\ tokenToId \in [Vocabulary -> Nat]
                     /\ Vocabulary \subseteq Seq(Alphabet)
<1>0. Tables
  BY DEF VocabularyInv
<1>1. CASE RejectTables
  BY <1>0, <1>1 DEF RejectTables, fileVars, tableVars, VocabularyInv, Vocabulary
<1>2. CASE ReadEntry /\ ~RejectTables
  <2> DEFINE entry == vocabularyFile[line]
  <2>1. /\ stage = "vocabulary" /\ line <= Len(vocabularyFile) /\ GoodEntry(entry)
        /\ tokenToId' = [token \in Vocabulary \cup {entry.token} |->
                          IF token = entry.token THEN entry.id ELSE tokenToId[token]]
        /\ stage' = stage /\ vocabularyFile' = vocabularyFile
    BY <1>2 DEF ReadEntry, fileVars
  <2>2. entry \in [token : Seq(Nat), id : Nat]
    <3>1. line \in 1..Len(vocabularyFile)
      BY <2>1, LenProperties DEF VocabularyInv, IInv, TablesInv
    <3> QED BY <3>1, ElementOfSeq DEF VocabularyInv
  <2>3. entry.token \in Seq(Alphabet)
    <3> DEFINE t == entry.token
    <3>1. t \in Seq(Nat) /\ \A k \in DOMAIN t : t[k] \in Alphabet
      BY <2>1, <2>2 DEF GoodEntry, IsAlphabetToken
    <3> HIDE DEF entry, t
    <3>2. Len(t) \in Nat /\ DOMAIN t = 1..Len(t) /\ t \in [1..Len(t) -> Nat]
      BY <3>1, LenProperties
    <3>3. t \in [1..Len(t) -> Alphabet]
      BY <3>1, <3>2
    <3> QED BY <3>2, <3>3, SeqDef DEF t
  <2> HIDE DEF entry
  <2>4. Vocabulary' = Vocabulary \cup {entry.token}
    BY <2>1 DEF Vocabulary
  <2>5. IsFiniteSet(Vocabulary') /\ Vocabulary' \subseteq Seq(Alphabet)
    BY <1>0, <2>3, <2>4, FS_AddElement
  <2>6. tokenToId' \in [Vocabulary' -> Nat]
    BY <1>0, <2>1, <2>2, <2>4
  <2> QED BY <1>0, <2>1, <2>5, <2>6 DEF VocabularyInv
<1>3. CASE IndexVocabulary /\ ~RejectTables
  <2>1. /\ IdsAreDense /\ stage' = "merges" /\ UNCHANGED <<vocabularyFile, tokenToId>>
        /\ idToToken' = [id \in 0..(Cardinality(Vocabulary) - 1) |->
                          CHOOSE token \in Vocabulary : tokenToId[token] = id]
    BY <1>3 DEF IndexVocabulary, fileVars
  <2>2. Vocabulary' = Vocabulary
    BY <2>1 DEF Vocabulary
  <2>3. Cardinality(Vocabulary) \in Nat
    BY <1>0, FS_CardinalityType
  <2>4. ASSUME NEW token \in Vocabulary
        PROVE  /\ tokenToId[token] \in 0..(Cardinality(Vocabulary) - 1)
               /\ idToToken'[tokenToId[token]] = token
    <3>1. tokenToId[token] \in Nat /\ tokenToId[token] < Cardinality(Vocabulary)
      BY <1>0, <2>1 DEF IdsAreDense
    <3>2. tokenToId[token] \in 0..(Cardinality(Vocabulary) - 1)
      BY <2>3, <3>1
    <3>3. \A t \in Vocabulary : tokenToId[t] = tokenToId[token] => t = token
      BY <2>1 DEF IdsAreDense
    <3> QED BY <2>1, <3>2, <3>3
  <2>5. DOMAIN idToToken' = 0..(Cardinality(Vocabulary) - 1)
    BY <2>1
  <2> QED BY <1>0, <2>1, <2>2, <2>4, <2>5 DEF VocabularyInv
<1>4. CASE ReadLine /\ ~RejectTables
  <2>1. stage = "merges" /\ stage' = "merges" /\ UNCHANGED <<vocabularyFile, tokenToId, idToToken>>
    BY <1>4 DEF ReadLine, fileVars
  <2> QED BY <2>1 DEF VocabularyInv, Vocabulary
<1>5. CASE FinishLoad /\ ~RejectTables
  <2>1. /\ stage = "merges" /\ stage' = "loaded" /\ EndOfText \in Vocabulary
        /\ UNCHANGED <<vocabularyFile, tokenToId, idToToken>>
    BY <1>5 DEF FinishLoad, fileVars, tableVars
  <2> QED BY <2>1 DEF VocabularyInv, Vocabulary
<1> QED BY <1>1, <1>2, <1>3, <1>4, <1>5 DEF Load, LoadStep

LEMMA BytesLoadInv ==
  ASSUME IInv, BytesInv, Load
  PROVE  BytesInv'
<1>1. VocabularyInv'
  BY LoadVocabularyInv DEF BytesInv
<1>2. /\ stage \in {"vocabulary", "merges"}
      /\ stage' \in {"vocabulary", "merges", "loaded", "rejected"}
      /\ tokenIds' = tokenIds /\ tokenIds = <<>>
  BY DEF Load, LoadStep, ReadEntry, IndexVocabulary, ReadLine, FinishLoad, RejectTables, BytesInv, TokensInv
<1> QED
  BY <1>1, <1>2 DEF BytesInv, PlaceInv, TokensInv, SymbolsInv, InSegment, InPiece, IsEncoded, DecodeInvertsEncode

-----------------------------------------------------------------------------
(* encode and decode. *)

Loaded == stage \notin {"vocabulary", "merges", "rejected"}

LEMMA VocabularyKept ==
  ASSUME VocabularyInv, UNCHANGED tables, Loaded, Loaded'
  PROVE  VocabularyInv' /\ Ids' = Ids /\ idToToken' = idToToken
BY DEF VocabularyInv, tables, fileVars, tableVars, Vocabulary, Ids, Loaded

LEMMA TokensAreCoded ==
  ASSUME VocabularyInv, Loaded
  PROVE  /\ Maps(idToToken, Ids, Seq(Alphabet)) /\ Maps(tokenToId, Vocabulary, Ids)
         /\ \A token \in Vocabulary : idToToken[tokenToId[token]] = token
         /\ Ids \subseteq DOMAIN idToToken
         /\ EndOfText \in Vocabulary /\ EndOfText \in Seq(Alphabet)
         /\ Vocabulary \subseteq Seq(Alphabet)
BY DEF VocabularyInv, Loaded, Ids, Maps

\* The tokens of symbols stand for what the symbols stand for.
LEMMA MeaningOfMore ==
  ASSUME VocabularyInv, Loaded, NEW ids \in Seq(Ids), NEW more \in Seq(Vocabulary)
  PROVE  /\ ids \o Each(tokenToId, more) \in Seq(Ids)
         /\ Meaning(idToToken, ids \o Each(tokenToId, more))
              = Meaning(idToToken, ids) \o FlattenSeq(more)
<1> DEFINE new == Each(tokenToId, more)
<1>0. /\ Maps(idToToken, Ids, Seq(Alphabet)) /\ Maps(tokenToId, Vocabulary, Ids)
      /\ \A token \in Vocabulary : idToToken[tokenToId[token]] = token
      /\ Vocabulary \subseteq Seq(Alphabet)
  BY TokensAreCoded
<1>1. new \in Seq(Ids) /\ Len(new) = Len(more) /\ \A k \in 1..Len(more) : new[k] = tokenToId[more[k]]
  BY <1>0, EachType
<1> HIDE DEF new
<1>2. /\ Each(idToToken, new) \in Seq(Seq(Alphabet)) /\ Len(Each(idToToken, new)) = Len(new)
      /\ \A k \in 1..Len(new) : Each(idToToken, new)[k] = idToToken[new[k]]
  <2>1. Maps(idToToken, Ids, Seq(Alphabet)) /\ new \in Seq(Ids)
    BY <1>0, <1>1
  <2> QED BY <2>1, EachType
<1>3. more \in Seq(Seq(Alphabet))
  <2>1. Len(more) \in Nat /\ more \in [1..Len(more) -> Vocabulary]
    BY LenProperties
  <2>2. more \in [1..Len(more) -> Seq(Alphabet)]
    BY <1>0, <2>1
  <2> QED BY <2>1, <2>2, SeqDef
<1>4. Each(idToToken, new) = more
  <2>1. ASSUME NEW k \in 1..Len(more) PROVE Each(idToToken, new)[k] = more[k]
    <3>1. more[k] \in Vocabulary
      BY ElementOfSeq
    <3>2. Each(idToToken, new)[k] = idToToken[new[k]]
      BY <1>1, <1>2
    <3>3. new[k] = tokenToId[more[k]]
      BY <1>1
    <3> QED BY <1>0, <3>1, <3>2, <3>3
  <2> QED BY <1>1, <1>2, <1>3, <2>1, SeqEqual
<1>5. ids \o new \in Seq(Ids)
  BY <1>1, ConcatProperties
<1>6. Each(idToToken, ids \o new) = Each(idToToken, ids) \o Each(idToToken, new)
  BY <1>0, <1>1, EachConcat
<1>7. Each(idToToken, ids) \in Seq(Seq(Alphabet))
  BY <1>0, EachType
<1>8. FlattenSeq(Each(idToToken, ids) \o more) = FlattenSeq(Each(idToToken, ids)) \o FlattenSeq(more)
  BY <1>3, <1>7, FlattenConcat
<1> QED BY <1>4, <1>5, <1>6, <1>8 DEF Meaning, new

LEMMA BytesEncodeInv ==
  ASSUME IInv, BytesInv, NEW t \in Texts(mergesFile), Encode(t)
  PROVE  BytesInv'
<1>1. /\ stage = "loaded" /\ stage' = "segment" /\ UNCHANGED tables
      /\ text' = t /\ position' = 1 /\ tokenIds' = tokenIds /\ tokenIds = <<>>
  BY DEF Encode, BytesInv, TokensInv
<1>2. VocabularyInv'
  BY <1>1, VocabularyKept DEF BytesInv, Loaded
<1>3. text' \in Seq(Characters \cup {Invalid}) /\ Len(text') \in Nat
  BY EncodeInv, LenProperties DEF IInv, TextInv
<1>4. PlaceInv'
  BY <1>1, <1>3 DEF PlaceInv, InSegment, InPiece, IsEncoded
<1>5. TokensInv'
  <2>1. Done' = 0 /\ SubSeq(text', 1, Done') = <<>>
    BY <1>1, SubSeqEmpty DEF Done
  <2>2. Meaning(idToToken', <<>>) = <<>>
    <3>1. Each(idToToken', <<>>) = <<>>
      BY DEF Each
    <3> QED BY <3>1, FlattenEmpty DEF Meaning
  <2>3. tokenIds' \in Seq(Ids')
    BY <1>1, EmptySeq
  <2>4. Meaning(idToToken', tokenIds') = CodeOf(SubSeq(text', 1, Done'))
    BY <1>1, <2>1, <2>2, CodeOfNone
  <2>5. stage' = "segment"
    BY <1>1
  <2> QED BY <2>3, <2>4, <2>5 DEF TokensInv, InSegment, InPiece, IsEncoded
<1> QED
  BY <1>1, <1>2, <1>4, <1>5 DEF BytesInv, SymbolsInv, InPiece, DecodeInvertsEncode

\* The next marker is not before the position, and one is there.
LEMMA NextMarkerIs ==
  ASSUME text \in Seq(Characters \cup {Invalid}), position \in Nat \ {0}, position - 1 \in 0..Len(text)
  PROVE  NextMarker >= position /\ (NextMarker <= Len(text) => IsMarker(NextMarker))
<1> DEFINE markers == {p \in position..Len(text) : IsMarker(p)}
<1>0. Len(text) \in Nat
  BY LenProperties
<1>1. CASE markers = {}
  BY <1>0, <1>1 DEF NextMarker
<1>2. CASE markers # {}
  <2>1. markers \in SUBSET Nat
    BY <1>0
  <2>2. PICK p \in markers : First(markers) = p
    <3> HIDE DEF markers
    <3> QED BY <1>2, <2>1, FirstIsLeast
  <2>3. NextMarker = p
    <3> HIDE DEF markers
    <3> QED BY <1>2, <2>2 DEF NextMarker, markers
  <2>4. IsMarker(p) /\ p >= position
    BY <1>0
  <2> QED BY <2>3, <2>4
<1> QED BY <1>1, <1>2

LEMMA BytesStartSegmentInv ==
  ASSUME IInv, BytesInv, StartSegment
  PROVE  BytesInv'
<1>1. /\ stage = "segment" /\ stage' \in {"piece", "invalid"} /\ UNCHANGED tables
      /\ text' = text /\ position' = NextMarker /\ index' = 1 /\ tokenIds' = tokenIds
      /\ segment' = SubSeq(text, position, NextMarker - 1)
  BY DEF StartSegment
<1>2. VocabularyInv' /\ Ids' = Ids /\ idToToken' = idToToken
  BY <1>1, VocabularyKept DEF BytesInv, Loaded
<1>3. /\ text \in Seq(Characters \cup {Invalid}) /\ position \in Nat \ {0} /\ Len(text) \in Nat
      /\ position - 1 \in 0..Len(text) /\ \A k \in 1..(position - 1) : text[k] \in Characters
  BY <1>1, LenProperties DEF IInv, TextInv, BytesInv, PlaceInv
<1>4. PICK end \in Nat \ {0} : /\ end = NextMarker /\ end <= Len(text) + 1 /\ end >= position
                               /\ end <= Len(text) => IsMarker(end)
  BY <1>3, NextMarkerRange, NextMarkerIs
<1>5. /\ Len(segment') = end - position
      /\ \A k \in 1..(end - position) : segment'[k] = text[position - 1 + k]
  <2>1. \A k \in position..(end - 1) : text[k] \in Characters \cup {Invalid}
    <3>1. \A k \in position..(end - 1) : k \in 1..Len(text)
      BY <1>3, <1>4
    <3> QED BY <1>3, <3>1, ElementOfSeq
  <2>2. /\ Len(segment') = IF position <= end - 1 THEN (end - 1) - position + 1 ELSE 0
        /\ \A i \in 1..((end - 1) - position + 1) : segment'[i] = text[position + i - 1]
    <3>1. position \in Int /\ end - 1 \in Int
      BY <1>3
    <3>2. segment' = SubSeq(text, position, end - 1)
      BY <1>1, <1>4
    <3> QED BY <2>1, <3>1, <3>2, SubSeqProperties
  <2>3. (end - 1) - position + 1 = end - position
    BY <1>3
  <2>4. \A k \in 1..(end - position) : position + k - 1 = position - 1 + k
    BY <1>3
  <2> QED BY <1>3, <1>4, <2>2, <2>3, <2>4
<1>6. CASE stage' = "invalid"
  BY <1>1, <1>2, <1>6 DEF BytesInv, PlaceInv, TokensInv, SymbolsInv, InSegment, InPiece, IsEncoded, DecodeInvertsEncode
<1>7. CASE stage' = "piece"
  <2>1. segment' \in Seq(Characters)
    BY <1>7, StartSegmentInv DEF IInv, SegmentInv
  <2>2. Base' = position - 1 /\ Done' = position - 1 /\ Done = position - 1
    BY <1>1, <1>3, <1>4, <1>5, <1>7 DEF Base, Done
  <2>3. \A k \in 1..(position' - 1) : text'[k] \in Characters
    <3> SUFFICES ASSUME NEW k \in 1..(end - 1) PROVE text[k] \in Characters
      BY <1>1, <1>4
    <3>1. CASE k <= position - 1
      BY <1>3, <3>1
    <3>2. CASE ~(k <= position - 1)
      <4>1. k - (position - 1) \in 1..(end - position) /\ position - 1 + (k - (position - 1)) = k
        BY <1>3, <3>2
      <4>2. segment'[k - (position - 1)] \in Characters
        BY <1>5, <2>1, <4>1, ElementOfSeq
      <4> QED BY <1>5, <4>1, <4>2
    <3> QED BY <3>1, <3>2
  <2>4. position' <= Len(text') => IsMarker(position)'
    BY <1>1, <1>4 DEF IsMarker
  <2>5. PlaceInv'
    <3>1. position' - 1 \in 0..Len(text')
      BY <1>1, <1>3, <1>4
    <3>2. Base' \in Nat /\ index' \in 1..(Len(segment') + 1)
      BY <1>1, <1>3, <1>4, <1>5, <2>2
    <3>3. \A k \in 1..Len(segment') : segment'[k] = text'[Base' + k]
      BY <1>1, <1>5, <2>2
    <3> QED BY <1>7, <2>3, <2>4, <3>1, <3>2, <3>3 DEF PlaceInv, IsEncoded
  <2>6. TokensInv'
    <3>1. tokenIds \in Seq(Ids) /\ Meaning(idToToken, tokenIds) = CodeOf(SubSeq(text, 1, Done))
      BY <1>1 DEF BytesInv, TokensInv
    <3>2. tokenIds' \in Seq(Ids') /\ Meaning(idToToken', tokenIds') = CodeOf(SubSeq(text', 1, Done'))
      BY <1>1, <1>2, <2>2, <3>1
    <3> QED BY <1>7, <3>2 DEF TokensInv, IsEncoded
  <2> QED BY <1>2, <1>7, <2>5, <2>6 DEF BytesInv, SymbolsInv, InPiece, DecodeInvertsEncode
<1> QED BY <1>1, <1>6, <1>7

LEMMA BytesStartPieceInv ==
  ASSUME IInv, BytesInv, StartPiece
  PROVE  BytesInv'
<1> DEFINE piece == SubSeq(segment, index, pieceEnd' - 1)
           bytes == BytesOf(piece)
<1>1. /\ stage = "piece" /\ stage' = "find" /\ UNCHANGED tables /\ UNCHANGED <<text, position>>
      /\ segment' = segment /\ index' = index /\ tokenIds' = tokenIds
      /\ pieceEnd' = MatchPiece(segment, index) /\ index <= Len(segment)
      /\ symbols' = [k \in DOMAIN bytes |-> <<ByteToCodePoint(bytes[k])>>]
  BY DEF StartPiece, textVars
<1>2. VocabularyInv' /\ Ids' = Ids /\ idToToken' = idToToken
  BY <1>1, VocabularyKept DEF BytesInv, Loaded
<1>3. segment \in Seq(Characters) /\ index \in Nat \ {0} /\ Len(segment) \in Nat
  BY <1>1, LenProperties DEF IInv, SegmentInv
<1>4. pieceEnd' \in (index + 1)..(Len(segment) + 1)
  <2>1. index \in 1..Len(segment)
    BY <1>1, <1>3
  <2> QED BY <1>1, <1>3, <2>1, MatchPieceAdvances
<1>5. piece \in Seq(Characters)
  <2>0. PICK end \in Nat \ {0} : end = pieceEnd' /\ end - 1 \in index..Len(segment)
    BY <1>3, <1>4
  <2> DEFINE last == end - 1
  <2>1. last \in Int /\ last = pieceEnd' - 1 /\ last <= Len(segment)
    BY <1>3, <2>0
  <2> HIDE DEF last
  <2>2. \A k \in index..last : segment[k] \in Characters
    <3>1. \A k \in index..last : k \in 1..Len(segment)
      BY <1>3, <2>1
    <3> QED BY <1>3, <3>1, ElementOfSeq
  <2>3. SubSeq(segment, index, last) \in Seq(Characters)
    <3>1. index \in Int
      BY <1>3
    <3> QED BY <2>1, <2>2, <3>1, SubSeqProperties
  <2> QED BY <2>1, <2>3
<1>6. bytes \in Seq(Bytes)
  BY <1>5, BytesType
<1>7. FlattenSeq(symbols') = CodeOf(piece)
  <2> DEFINE code == CodeOf(piece)
  <2>1. /\ code \in Seq(Alphabet) /\ Len(code) = Len(bytes)
        /\ \A k \in 1..Len(bytes) : code[k] = ByteToCodePoint(bytes[k])
    <3> HIDE DEF piece
    <3> QED BY <1>6, CodedType DEF CodeOf
  <2>2. DOMAIN bytes = 1..Len(bytes) /\ DOMAIN code = 1..Len(code)
    BY <1>6, <2>1, LenProperties
  <2> HIDE DEF code, bytes
  <2>3. symbols' = [k \in DOMAIN code |-> <<code[k]>>]
    BY <1>1, <2>1, <2>2
  <2>4. FlattenSeq([k \in DOMAIN code |-> <<code[k]>>]) = code
    BY <2>1, FlattenSingletons
  <2> QED BY <2>3, <2>4 DEF code
<1>8. PlaceInv'
  <2>1. PlaceInv
    BY DEF BytesInv
  <2>2. Base' = Base /\ (IsMarker(position)' <=> IsMarker(position))
    BY <1>1 DEF Base, IsMarker
  <2> QED BY <1>1, <2>1, <2>2 DEF PlaceInv, InSegment, InPiece, IsEncoded
<1>9. TokensInv'
  <2>1. Done' = Done
    BY <1>1 DEF Done, Base
  <2> QED BY <1>1, <1>2, <2>1 DEF BytesInv, TokensInv, InSegment, InPiece, IsEncoded
<1>10. SymbolsInv'
  <2>1. FlattenSeq(symbols') = CodeOf(SubSeq(segment', index', pieceEnd' - 1))
    BY <1>1, <1>7
  <2> QED BY <1>1, <1>4, <2>1 DEF SymbolsInv
<1> QED BY <1>1, <1>2, <1>8, <1>9, <1>10 DEF BytesInv, DecodeInvertsEncode

\* The steps inside a piece move neither the place in the text nor the tokens.
LEMMA InsidePiece ==
  ASSUME BytesInv, InPiece, InPiece', UNCHANGED tables,
         UNCHANGED <<text, position, segment, index, pieceEnd, tokenIds>>
  PROVE  VocabularyInv' /\ PlaceInv' /\ TokensInv' /\ DecodeInvertsEncode'
<1>1. VocabularyInv' /\ Ids' = Ids /\ idToToken' = idToToken
  BY VocabularyKept DEF BytesInv, Loaded, InPiece
<1>2. Base' = Base /\ Done' = Done /\ (IsMarker(position)' <=> IsMarker(position))
  BY DEF Base, Done, IsMarker, InPiece
<1>3. PlaceInv'
  BY <1>2 DEF BytesInv, PlaceInv, InSegment, InPiece, IsEncoded
<1>4. TokensInv'
  BY <1>1, <1>2 DEF BytesInv, TokensInv, InSegment, InPiece, IsEncoded
<1> QED BY <1>1, <1>3, <1>4 DEF DecodeInvertsEncode, InPiece

LEMMA BytesFindPairInv ==
  ASSUME IInv, BytesInv, FindPair
  PROVE  BytesInv'
<1>1. /\ stage = "find" /\ stage' \in {"emit", "sweep"} /\ UNCHANGED tables
      /\ UNCHANGED <<text, position, segment, index, pieceEnd, symbols, tokenIds>>
      /\ stage' = "sweep" => swept' = <<>> /\ at' = 1
  BY DEF FindPair, textVars, pieceVars
<1>2. VocabularyInv' /\ PlaceInv' /\ TokensInv' /\ DecodeInvertsEncode'
  BY <1>1, InsidePiece DEF InPiece
<1>3. SymbolsInv'
  <2>1. symbols \in Seq(Vocabulary) /\ Len(symbols) \in Nat
    BY <1>1, LenProperties DEF IInv, PieceInv, InPiece
  <2>2. stage' = "sweep" => /\ at' - 1 \in 0..Len(symbols')
                            /\ FlattenSeq(swept') = FlattenSeq(SubSeq(symbols', 1, at' - 1))
    <3>1. SubSeq(symbols, 1, 0) = <<>>
      BY SubSeqEmpty
    <3>2. stage' = "sweep" => at' - 1 = 0 /\ swept' = <<>> /\ symbols' = symbols
      BY <1>1
    <3>3. 0 \in 0..Len(symbols)
      BY <2>1
    <3> QED BY <3>1, <3>2, <3>3
  <2> QED BY <1>1, <2>2 DEF BytesInv, SymbolsInv, InPiece
<1> QED BY <1>2, <1>3 DEF BytesInv

\* One more element of a prefix.
LEMMA FlattenPrefix ==
  ASSUME NEW T, NEW s \in Seq(Seq(T)), NEW n \in 1..Len(s)
  PROVE  /\ FlattenSeq(SubSeq(s, 1, n)) = FlattenSeq(SubSeq(s, 1, n - 1)) \o s[n]
         /\ FlattenSeq(SubSeq(s, 1, n - 1)) \in Seq(T) /\ s[n] \in Seq(T)
<1>0. Len(s) \in Nat /\ s[n] \in Seq(T) /\ 1 \in 1..Len(s) /\ n \in 1..Len(s)
  BY LenProperties, ElementOfSeq
<1>1. SubSeq(s, 1, n - 1) \in Seq(Seq(T))
  <2>1. \A k \in 1..(n - 1) : s[k] \in Seq(T)
    <3>1. \A k \in 1..(n - 1) : k \in 1..Len(s)
      BY <1>0
    <3> QED BY <3>1, ElementOfSeq
  <2>2. n - 1 \in Int
    OBVIOUS
  <2> QED BY <2>1, <2>2, SubSeqProperties
<1>2. SubSeq(s, 1, n) = SubSeq(s, 1, n - 1) \o <<s[n]>>
  BY <1>0, SubSeqRecursiveSecond
<1>3. SubSeq(s, 1, n) = Append(SubSeq(s, 1, n - 1), s[n])
  BY <1>0, <1>1, <1>2, AppendIsConcat
<1> QED BY <1>0, <1>1, <1>3, FlattenAppend, FlattenType

LEMMA BytesSweepInv ==
  ASSUME IInv, BytesInv, Sweep
  PROVE  BytesInv'
<1>1. /\ stage = "sweep" /\ stage' = "sweep" /\ UNCHANGED tables /\ at <= Len(symbols)
      /\ UNCHANGED <<text, position, segment, index, pieceEnd, symbols, pair, tokenIds>>
  BY DEF Sweep, textVars, pieceVars
<1>2. VocabularyInv' /\ PlaceInv' /\ TokensInv' /\ DecodeInvertsEncode'
  BY <1>1, InsidePiece DEF InPiece
<1>3. Vocabulary \subseteq Seq(Alphabet)
  BY DEF BytesInv, VocabularyInv
<1>4. /\ symbols \in Seq(Seq(Alphabet)) /\ swept \in Seq(Seq(Alphabet)) /\ Len(symbols) \in Nat
      /\ at \in 1..Len(symbols) /\ at - 1 \in 0..Len(symbols)
      /\ FlattenSeq(swept) = FlattenSeq(SubSeq(symbols, 1, at - 1))
  <2>1. symbols \in Seq(Vocabulary) /\ swept \in Seq(Vocabulary) /\ at \in Nat \ {0}
    BY <1>1 DEF IInv, PieceInv, SweepInv, InPiece
  <2>2. Len(symbols) \in Nat
    BY <2>1, LenProperties
  <2>3. symbols \in Seq(Seq(Alphabet)) /\ swept \in Seq(Seq(Alphabet))
    <3>1. \A s \in Seq(Vocabulary) : s \in Seq(Seq(Alphabet))
      <4> SUFFICES ASSUME NEW s \in Seq(Vocabulary) PROVE s \in Seq(Seq(Alphabet))
        OBVIOUS
      <4>1. Len(s) \in Nat /\ s \in [1..Len(s) -> Vocabulary]
        BY LenProperties
      <4>2. s \in [1..Len(s) -> Seq(Alphabet)]
        BY <1>3, <4>1
      <4> QED BY <4>1, <4>2, SeqDef
    <3> QED BY <2>1, <3>1
  <2> QED BY <1>1, <2>1, <2>2, <2>3 DEF BytesInv, SymbolsInv
<1>5. /\ FlattenSeq(SubSeq(symbols, 1, at)) = FlattenSeq(SubSeq(symbols, 1, at - 1)) \o symbols[at]
      /\ FlattenSeq(SubSeq(symbols, 1, at - 1)) \in Seq(Alphabet) /\ symbols[at] \in Seq(Alphabet)
  BY <1>4, FlattenPrefix
<1>6. /\ at' - 1 \in 0..Len(symbols)
      /\ FlattenSeq(swept') = FlattenSeq(SubSeq(symbols, 1, at' - 1))
  <2>1. CASE at < Len(symbols) /\ <<symbols[at], symbols[at + 1]>> = pair
    <3>1. /\ swept' = Append(swept, symbols[at] \o symbols[at + 1]) /\ at' = at + 2
      BY <1>1, <2>1 DEF Sweep
    <3>2. at + 1 \in 1..Len(symbols) /\ (at + 1) - 1 = at /\ at' - 1 = at + 1
      BY <1>4, <2>1, <3>1
    <3>3. /\ FlattenSeq(SubSeq(symbols, 1, at + 1))
               = FlattenSeq(SubSeq(symbols, 1, (at + 1) - 1)) \o symbols[at + 1]
          /\ symbols[at + 1] \in Seq(Alphabet)
      BY <1>4, <3>2, FlattenPrefix
    <3>4. symbols[at] \o symbols[at + 1] \in Seq(Alphabet)
      BY <1>5, <3>3, ConcatProperties
    <3>5. FlattenSeq(swept') = FlattenSeq(swept) \o (symbols[at] \o symbols[at + 1])
      BY <1>4, <3>1, <3>4, FlattenAppend
    <3>6. (FlattenSeq(SubSeq(symbols, 1, at - 1)) \o symbols[at]) \o symbols[at + 1]
            = FlattenSeq(SubSeq(symbols, 1, at - 1)) \o (symbols[at] \o symbols[at + 1])
      <4> DEFINE done == FlattenSeq(SubSeq(symbols, 1, at - 1))
                 left == symbols[at]
                 right == symbols[at + 1]
      <4>1. done \in Seq(Alphabet) /\ left \in Seq(Alphabet) /\ right \in Seq(Alphabet)
        BY <1>5, <3>3
      <4> HIDE DEF done, left, right
      <4>2. (done \o left) \o right = done \o (left \o right)
        BY <4>1, ConcatAssociative
      <4> QED BY <4>2 DEF done, left, right
    <3>7. at' - 1 \in 0..Len(symbols)
      BY <1>4, <3>2
    <3>8. FlattenSeq(SubSeq(symbols, 1, at' - 1))
            = FlattenSeq(SubSeq(symbols, 1, at)) \o symbols[at + 1]
      BY <3>2, <3>3
    <3> QED BY <1>4, <1>5, <3>5, <3>6, <3>7, <3>8
  <2>2. CASE ~(at < Len(symbols) /\ <<symbols[at], symbols[at + 1]>> = pair)
    <3>1. swept' = Append(swept, symbols[at]) /\ at' = at + 1
      BY <1>1, <2>2 DEF Sweep
    <3>2. at' - 1 = at /\ at' - 1 \in 0..Len(symbols)
      BY <1>4, <3>1
    <3>3. FlattenSeq(swept') = FlattenSeq(swept) \o symbols[at]
      BY <1>4, <1>5, <3>1, FlattenAppend
    <3> QED BY <1>4, <1>5, <3>2, <3>3
  <2> QED BY <2>1, <2>2
<1>7. SymbolsInv'
  <2>1. /\ at' - 1 \in 0..Len(symbols')
        /\ FlattenSeq(swept') = FlattenSeq(SubSeq(symbols', 1, at' - 1))
    BY <1>1, <1>6
  <2> QED BY <1>1, <2>1 DEF BytesInv, SymbolsInv, InPiece
<1> QED BY <1>2, <1>7 DEF BytesInv

LEMMA BytesEndSweepInv ==
  ASSUME IInv, BytesInv, EndSweep
  PROVE  BytesInv'
<1>1. /\ stage = "sweep" /\ stage' = "find" /\ UNCHANGED tables /\ at > Len(symbols)
      /\ UNCHANGED <<text, position, segment, index, pieceEnd, tokenIds>> /\ symbols' = swept
  BY DEF EndSweep, textVars, pieceVars
<1>2. VocabularyInv' /\ PlaceInv' /\ TokensInv' /\ DecodeInvertsEncode'
  BY <1>1, InsidePiece DEF InPiece
<1>3. FlattenSeq(symbols') = FlattenSeq(symbols)
  <2>1. symbols \in Seq(Vocabulary) /\ Len(symbols) \in Nat /\ at \in Nat \ {0}
    BY <1>1, LenProperties DEF IInv, PieceInv, SweepInv, InPiece
  <2>2. at - 1 = Len(symbols)
    BY <1>1, <2>1 DEF BytesInv, SymbolsInv
  <2>3. SubSeq(symbols, 1, at - 1) = symbols
    BY <2>1, <2>2, SubSeqFull
  <2> QED BY <1>1, <2>3 DEF BytesInv, SymbolsInv
<1>4. SymbolsInv'
  BY <1>1, <1>3 DEF BytesInv, SymbolsInv, InPiece
<1> QED BY <1>2, <1>4 DEF BytesInv

\* The tokens of a piece are behind those of the text before it.
LEMMA BytesEmitTokensInv ==
  ASSUME IInv, BytesInv, EmitTokens
  PROVE  BytesInv'
<1> DEFINE piece == SubSeq(segment, index, pieceEnd - 1)
<1>1. /\ segment \in Seq(Characters) /\ Len(segment) \in Nat /\ index \in Nat \ {0}
      /\ symbols \in Seq(Vocabulary)
  BY LenProperties DEF EmitTokens, IInv, PieceInv, SegmentInv, InPiece
<1>2. \A k \in DOMAIN symbols : symbols[k] \in Vocabulary
  BY <1>1, LenProperties, ElementOfSeq
<1>3. /\ stage = "emit" /\ stage' = "piece" /\ UNCHANGED tables
      /\ UNCHANGED <<text, position, segment>> /\ index' = pieceEnd
      /\ tokenIds' = tokenIds \o Each(tokenToId, symbols)
  BY <1>2 DEF EmitTokens, textVars, Each
<1>4. VocabularyInv' /\ Ids' = Ids /\ idToToken' = idToToken
  BY <1>3, VocabularyKept DEF BytesInv, Loaded
<1>5. /\ position - 1 \in 0..Len(text) /\ \A k \in 1..(position - 1) : text[k] \in Characters
      /\ Base \in Nat /\ \A k \in 1..Len(segment) : segment[k] = text[Base + k]
      /\ position <= Len(text) => IsMarker(position)
      /\ pieceEnd \in (index + 1)..(Len(segment) + 1)
      /\ FlattenSeq(symbols) = CodeOf(piece)
      /\ tokenIds \in Seq(Ids) /\ Meaning(idToToken, tokenIds) = CodeOf(SubSeq(text, 1, Done))
  BY <1>3 DEF BytesInv, PlaceInv, TokensInv, SymbolsInv, InSegment, InPiece
<1>6. Base' = Base /\ Done = Base + index - 1 /\ Done' = Base + pieceEnd - 1
  BY <1>3 DEF Base, Done
<1>7. PlaceInv'
  <2>1. index' \in 1..(Len(segment') + 1)
    BY <1>1, <1>3, <1>5
  <2>2. IsMarker(position)' <=> IsMarker(position)
    BY <1>3 DEF IsMarker
  <2> QED BY <1>3, <1>5, <1>6, <2>1, <2>2 DEF PlaceInv, InSegment, InPiece, IsEncoded
<1>8. /\ piece \in Seq(Characters) /\ Len(piece) = pieceEnd - index
      /\ \A k \in 1..(pieceEnd - index) : piece[k] = segment[index - 1 + k]
  <2>1. PICK last \in Int : last = pieceEnd - 1 /\ last <= Len(segment) /\ index <= last
    BY <1>1, <1>5
  <2>2. \A k \in index..last : segment[k] \in Characters
    <3>1. \A k \in index..last : k \in 1..Len(segment)
      BY <1>1, <2>1
    <3> QED BY <1>1, <3>1, ElementOfSeq
  <2>3. /\ SubSeq(segment, index, last) \in Seq(Characters)
        /\ Len(SubSeq(segment, index, last)) = IF index <= last THEN last - index + 1 ELSE 0
        /\ \A i \in 1..(last - index + 1) : SubSeq(segment, index, last)[i] = segment[index + i - 1]
    BY <1>1, <2>2, SubSeqProperties
  <2>4. last - index + 1 = pieceEnd - index /\ pieceEnd \in Int
    BY <1>1, <1>5, <2>1
  <2>5. \A k \in 1..(pieceEnd - index) : index + k - 1 = index - 1 + k
    BY <1>1, <2>4
  <2> QED BY <2>1, <2>3, <2>4, <2>5
<1>9. CodeOf(SubSeq(text, 1, Done')) = CodeOf(SubSeq(text, 1, Done)) \o CodeOf(piece)
  <2>1. /\ Done \in Nat /\ Done + Len(piece) = Done' /\ Done' <= position - 1
        /\ Len(piece) \in Nat
    <3> DEFINE x == Len(piece)
               y == Len(segment)
    <3>1. /\ index \in Nat \ {0} /\ pieceEnd \in (index + 1)..(y + 1) /\ x = pieceEnd - index
          /\ y \in Nat /\ Base \in Nat /\ Base = position - 1 - y /\ position - 1 \in Nat
      BY <1>1, <1>5, <1>8 DEF Base
    <3>2. Done = Base + index - 1 /\ Done' = Base + pieceEnd - 1
      BY <1>6
    <3> HIDE DEF x, y, piece
    <3>3. x \in Nat /\ Done \in Nat /\ Done + x = Done'
      BY ONLY <3>1, <3>2
    <3>4. Done' <= position - 1
      BY ONLY <3>1, <3>2
    <3> QED BY <3>3, <3>4 DEF x
  <2>2. \A k \in 1..(Done + Len(piece)) : text[k] \in Characters
    <3> HIDE DEF piece
    <3>1. \A k \in 1..(Done + Len(piece)) : k \in 1..(position - 1)
      BY <1>5, <2>1
    <3> QED BY <1>5, <3>1
  <2>3. \A k \in 1..Len(piece) : piece[k] = text[Done + k]
    <3> SUFFICES ASSUME NEW k \in 1..(pieceEnd - index) PROVE piece[k] = text[Done + k]
      BY <1>8
    <3> HIDE DEF piece
    <3>1. index - 1 + k \in 1..Len(segment) /\ Base + (index - 1 + k) = Done + k
      BY <1>1, <1>5, <1>6
    <3>2. piece[k] = segment[index - 1 + k]
      BY <1>8
    <3>3. segment[index - 1 + k] = text[Base + (index - 1 + k)]
      BY <1>5, <3>1
    <3> QED BY <3>1, <3>2, <3>3
  <2>4. Coded(BytesOf(SubSeq(text, 1, Done + Len(piece))))
          = Coded(BytesOf(SubSeq(text, 1, Done))) \o Coded(BytesOf(piece))
    <3>1. piece \in Seq(Characters) /\ Done \in Nat
      BY <1>8, <2>1
    <3> HIDE DEF piece
    <3> QED BY <2>2, <2>3, <3>1, TextGrows
  <2> QED BY <2>1, <2>4 DEF CodeOf
<1>10. TokensInv'
  <2>1. VocabularyInv /\ Loaded
    BY <1>3 DEF BytesInv, Loaded
  <2>2. /\ tokenIds' \in Seq(Ids)
        /\ Meaning(idToToken, tokenIds') = Meaning(idToToken, tokenIds) \o FlattenSeq(symbols)
    BY <1>1, <1>3, <1>5, <2>1, MeaningOfMore
  <2>3. tokenIds' \in Seq(Ids') /\ Meaning(idToToken', tokenIds') = CodeOf(SubSeq(text', 1, Done'))
    BY <1>3, <1>4, <1>5, <1>9, <2>2
  <2> QED BY <1>3, <2>3 DEF TokensInv, IsEncoded
<1> QED BY <1>3, <1>4, <1>7, <1>10 DEF BytesInv, SymbolsInv, InPiece, DecodeInvertsEncode

LEMMA BytesEndSegmentInv ==
  ASSUME IInv, BytesInv, EndSegment
  PROVE  BytesInv'
<1>1. /\ stage = "piece" /\ index > Len(segment) /\ UNCHANGED tables
      /\ UNCHANGED <<text, segment, index>>
      /\ \/ /\ position <= Len(text) /\ stage' = "segment"
            /\ position' = position + Len(Marker)
            /\ tokenIds' = Append(tokenIds, tokenToId[EndOfText])
         \/ /\ ~(position <= Len(text)) /\ stage' = "encoded"
            /\ UNCHANGED <<tokenIds, position>>
  BY DEF EndSegment, pieceVars
<1>2. VocabularyInv' /\ Ids' = Ids /\ idToToken' = idToToken
  BY <1>1, VocabularyKept DEF BytesInv, Loaded
<1>3. /\ text \in Seq(Characters \cup {Invalid}) /\ Len(text) \in Nat
      /\ segment \in Seq(Characters) /\ Len(segment) \in Nat
  BY <1>1, LenProperties DEF IInv, TextInv, SegmentInv
<1>4. /\ position \in Nat \ {0} /\ position - 1 \in 0..Len(text)
      /\ \A k \in 1..(position - 1) : text[k] \in Characters
      /\ position <= Len(text) => IsMarker(position)
      /\ index = Len(segment) + 1
      /\ tokenIds \in Seq(Ids) /\ Meaning(idToToken, tokenIds) = CodeOf(SubSeq(text, 1, Done))
  BY <1>1, <1>3 DEF IInv, TextInv, BytesInv, PlaceInv, TokensInv, InSegment
<1>5. Done = position - 1
  BY <1>1, <1>3, <1>4 DEF Done, Base
<1>6. VocabularyInv /\ Loaded
  BY <1>1 DEF BytesInv, Loaded
<1>7. CASE stage' = "segment"
  <2> DEFINE n == position - 1
  <2>0. /\ position <= Len(text) /\ position' = position + Len(Marker)
        /\ tokenIds' = Append(tokenIds, tokenToId[EndOfText])
    BY <1>1, <1>7
  <2>1. /\ Marker \in Seq(Characters) /\ Len(Marker) \in Nat
        /\ position + Len(Marker) - 1 <= Len(text)
        /\ SubSeq(text, position, position + Len(Marker) - 1) = Marker
    BY <1>4, <2>0, TextAssumption, LenProperties DEF TextAssumption, IsMarker
  <2>2. \A k \in 1..Len(Marker) : Marker[k] = text[n + k]
    <3> DEFINE last == position + Len(Marker) - 1
    <3>1. last \in Int /\ last = position + Len(Marker) - 1
      BY <1>4, <2>1
    <3> HIDE DEF last
    <3>2. \A k \in position..last : text[k] \in Characters \cup {Invalid}
      <4>1. \A k \in position..last : k \in 1..Len(text)
        BY <1>3, <1>4, <2>1, <3>1
      <4> QED BY <1>3, <4>1, ElementOfSeq
    <3>3. \A i \in 1..(last - position + 1) : SubSeq(text, position, last)[i] = text[position + i - 1]
      <4>1. position \in Int
        BY <1>4
      <4> QED BY <3>1, <3>2, <4>1, SubSeqProperties
    <3>4. last - position + 1 = Len(Marker) /\ \A k \in 1..Len(Marker) : position + k - 1 = n + k
      BY <1>4, <2>1, <3>1
    <3> QED BY <2>1, <3>1, <3>3, <3>4
  <2>3. \A k \in 1..(n + Len(Marker)) : text[k] \in Characters
    <3> SUFFICES ASSUME NEW k \in 1..(n + Len(Marker)) PROVE text[k] \in Characters
      OBVIOUS
    <3>1. CASE k <= n
      BY <1>4, <3>1
    <3>2. CASE ~(k <= n)
      <4>1. k - n \in 1..Len(Marker) /\ n + (k - n) = k
        BY <1>4, <2>1, <3>2
      <4> QED BY <2>1, <2>2, <4>1, ElementOfSeq
    <3> QED BY <3>1, <3>2
  <2>4. n \in Nat /\ Done = n /\ Done' = n + Len(Marker) /\ position' - 1 = n + Len(Marker)
    BY <1>4, <1>5, <1>7, <2>0, <2>1 DEF Done
  <2> HIDE DEF n
  <2>5. EndOfText \in Vocabulary /\ EndOfText \in Seq(Alphabet) /\ Vocabulary \subseteq Seq(Alphabet)
    BY <1>6, TokensAreCoded
  <2>6. CodeOf(SubSeq(text, 1, n + Len(Marker))) = CodeOf(SubSeq(text, 1, n)) \o EndOfText
    <3>1. Coded(BytesOf(SubSeq(text, 1, n + Len(Marker))))
            = Coded(BytesOf(SubSeq(text, 1, n))) \o Coded(BytesOf(Marker))
      BY <2>1, <2>2, <2>3, <2>4, TextGrows
    <3>2. CodeOf(Marker) = EndOfText
      BY <2>5, MarkerIsCoded
    <3> QED BY <3>1, <3>2 DEF CodeOf
  <2>7. /\ tokenIds' \in Seq(Ids)
        /\ Meaning(idToToken, tokenIds') = Meaning(idToToken, tokenIds) \o EndOfText
    <3> DEFINE one == <<EndOfText>>
               more == Each(tokenToId, one)
    <3>1. one \in Seq(Vocabulary) /\ one \in Seq(Seq(Alphabet))
      BY <2>5
    <3>2. more = <<tokenToId[EndOfText]>>
      BY DEF Each
    <3>3. FlattenSeq(one) = EndOfText
      <4>1. <<>> \in Seq(Seq(Alphabet)) /\ one = Append(<<>>, EndOfText)
        BY <2>5, EmptySeq
      <4>2. FlattenSeq(Append(<<>>, EndOfText)) = FlattenSeq(<<>>) \o EndOfText
        BY <2>5, <4>1, FlattenAppend
      <4>3. <<>> \o EndOfText = EndOfText
        BY <2>5, ConcatEmptySeq
      <4> QED BY <4>1, <4>2, <4>3, FlattenEmpty
    <3>4. tokenIds' = tokenIds \o more
      <4>1. tokenToId[EndOfText] \in Ids
        BY <2>5 DEF Ids
      <4> QED BY <1>4, <2>0, <3>2, <4>1, AppendIsConcat
    <3>5. /\ tokenIds \o more \in Seq(Ids)
          /\ Meaning(idToToken, tokenIds \o more) = Meaning(idToToken, tokenIds) \o FlattenSeq(one)
      <4> HIDE DEF one
      <4> QED BY <1>4, <1>6, <3>1, MeaningOfMore
    <3> QED BY <3>3, <3>4, <3>5
  <2>8. PlaceInv'
    <3>1. position' - 1 \in 0..Len(text')
      BY <1>1, <1>3, <1>4, <2>0, <2>1
    <3>2. \A k \in 1..(position' - 1) : text'[k] \in Characters
      BY <1>1, <2>3, <2>4
    <3> QED BY <1>7, <3>1, <3>2 DEF PlaceInv, InSegment, InPiece, IsEncoded
  <2>9. TokensInv'
    <3>1. tokenIds' \in Seq(Ids') /\ Meaning(idToToken', tokenIds') = CodeOf(SubSeq(text', 1, Done'))
      BY <1>1, <1>2, <1>4, <2>4, <2>6, <2>7
    <3> QED BY <1>7, <3>1 DEF TokensInv, IsEncoded
  <2> QED BY <1>2, <1>7, <2>8, <2>9 DEF BytesInv, SymbolsInv, InPiece, DecodeInvertsEncode
<1>8. CASE stage' = "encoded"
  <2>1. ~(position <= Len(text)) /\ UNCHANGED <<tokenIds, position>>
    BY <1>1, <1>8
  <2>2. position - 1 = Len(text)
    BY <1>3, <1>4, <2>1
  <2>3. text \in Seq(Characters)
    <3>1. \A k \in 1..Len(text) : text[k] \in Characters
      BY <1>4, <2>2
    <3>2. text \in [1..Len(text) -> Characters \cup {Invalid}]
      BY <1>3, LenProperties
    <3>3. text \in [1..Len(text) -> Characters]
      BY <3>1, <3>2
    <3> QED BY <1>3, <3>3, SeqDef
  <2>4. SubSeq(text, 1, Done) = text
    BY <1>3, <1>5, <2>2, SubSeqFull
  <2>5. PlaceInv' /\ TokensInv'
    BY <1>1, <1>2, <1>4, <1>8, <2>1, <2>3, <2>4 DEF PlaceInv, TokensInv, InSegment, InPiece, IsEncoded
  <2> QED BY <1>2, <1>8, <2>5 DEF BytesInv, SymbolsInv, InPiece, DecodeInvertsEncode
<1> QED BY <1>1, <1>7, <1>8

\* The first tokens stand for the first bytes, and one that is no token is refused.
LEMMA BytesDecodeInv ==
  ASSUME IInv, BytesInv, NEW ids \in DecodeArguments, Decode(ids)
  PROVE  BytesInv'
<1> DEFINE bytes == BytesOf(text)
           map == Mapped(ids)
<1>1. /\ stage = "encoded" /\ stage' \in {"decoded", "out_of_range"} /\ UNCHANGED tables
      /\ UNCHANGED <<text, position, tokenIds>> /\ given' = ids
      /\ stage' = "decoded" =>
           /\ \A k \in DOMAIN ids : ids[k] \in DOMAIN idToToken
           /\ decoded' = [k \in DOMAIN map |-> CodePointToByte(map[k])]
      /\ stage' = "out_of_range" => ~\A k \in DOMAIN ids : ids[k] \in DOMAIN idToToken
  BY DEF Decode, textVars
<1>2. VocabularyInv' /\ Ids' = Ids /\ idToToken' = idToToken
  BY <1>1, VocabularyKept DEF BytesInv, Loaded
<1>3. /\ text \in Seq(Characters) /\ tokenIds \in Seq(Ids) /\ Len(tokenIds) \in Nat
      /\ Meaning(idToToken, tokenIds) = CodeOf(text)
  BY <1>1, LenProperties DEF BytesInv, PlaceInv, TokensInv, IsEncoded
<1>4. PlaceInv' /\ TokensInv'
  BY <1>1, <1>2, <1>3 DEF PlaceInv, TokensInv, InSegment, InPiece, IsEncoded
<1>5. Maps(idToToken, Ids, Seq(Alphabet)) /\ Ids \subseteq DOMAIN idToToken
  <2>1. VocabularyInv /\ Loaded
    BY <1>1 DEF BytesInv, Loaded
  <2> QED BY <2>1, TokensAreCoded
<1>6. /\ bytes \in Seq(Bytes) /\ Len(bytes) \in Nat
      /\ CodeOf(text) \in Seq(Alphabet) /\ Len(CodeOf(text)) = Len(bytes)
      /\ \A k \in 1..Len(bytes) : CodeOf(text)[k] = ByteToCodePoint(bytes[k])
  <2>1. bytes \in Seq(Bytes)
    BY <1>3, BytesType
  <2> HIDE DEF bytes
  <2>2. /\ Coded(bytes) \in Seq(Alphabet) /\ Len(Coded(bytes)) = Len(bytes)
        /\ \A k \in 1..Len(bytes) : Coded(bytes)[k] = ByteToCodePoint(bytes[k])
    BY <2>1, CodedType
  <2> QED BY <2>1, <2>2, LenProperties DEF CodeOf, bytes
<1>7. Cardinality(Vocabulary) \notin DOMAIN idToToken
  <2>1. Cardinality(Vocabulary) \in Nat /\ DOMAIN idToToken = 0..(Cardinality(Vocabulary) - 1)
    BY <1>1, FS_CardinalityType DEF BytesInv, VocabularyInv
  <2> QED BY <2>1
<1>8. CASE stage' = "decoded"
  <2>1. PICK n \in 0..Len(tokenIds) : ids = SubSeq(tokenIds, 1, n)
    <3>1. CASE ids = Append(tokenIds, Cardinality(Vocabulary))
      <4>1. Len(ids) = Len(tokenIds) + 1 /\ ids[Len(tokenIds) + 1] = Cardinality(Vocabulary)
            /\ Len(tokenIds) + 1 \in DOMAIN ids
        <5> DEFINE OneMore == Ids \cup {Cardinality(Vocabulary)}
        <5>1. tokenIds \in Seq(OneMore) /\ Cardinality(Vocabulary) \in OneMore
          <6>1. tokenIds \in [1..Len(tokenIds) -> Ids]
            BY <1>3, LenProperties
          <6>2. tokenIds \in [1..Len(tokenIds) -> OneMore]
            BY <6>1
          <6> QED BY <1>3, <6>2, SeqDef
        <5> HIDE DEF OneMore
        <5>2. /\ ids \in Seq(OneMore) /\ Len(ids) = Len(tokenIds) + 1
              /\ ids[Len(tokenIds) + 1] = Cardinality(Vocabulary)
          BY <3>1, <5>1, AppendProperties
        <5>3. DOMAIN ids = 1..Len(ids)
          BY <5>2, LenProperties
        <5> QED BY <1>3, <5>2, <5>3
      <4> QED BY <1>1, <1>7, <1>8, <4>1
    <3> QED BY <3>1 DEF DecodeArguments
  <2> DEFINE rest == SubSeq(tokenIds, n + 1, Len(tokenIds))
  <2>2. ids \in Seq(Ids) /\ rest \in Seq(Ids) /\ tokenIds = ids \o rest
    <3>1. \A k \in 1..Len(tokenIds) : tokenIds[k] \in Ids
      BY <1>3, ElementOfSeq
    <3>2. ids \in Seq(Ids)
      <4>1. n \in Int /\ \A k \in 1..n : tokenIds[k] \in Ids
        BY <1>3, <3>1
      <4> QED BY <2>1, <4>1, SubSeqProperties
    <3>3. rest \in Seq(Ids)
      <4>1. n + 1 \in Int /\ Len(tokenIds) \in Int /\ \A k \in (n + 1)..Len(tokenIds) : tokenIds[k] \in Ids
        BY <1>3, <3>1
      <4> QED BY <4>1, SubSeqProperties
    <3>4. SubSeq(tokenIds, 1, n) \o SubSeq(tokenIds, n + 1, Len(tokenIds)) = SubSeq(tokenIds, 1, Len(tokenIds))
      <4>1. 1 \in 1..(Len(tokenIds) + 1) /\ n \in (1 - 1)..Len(tokenIds) /\ Len(tokenIds) \in n..Len(tokenIds)
        BY <1>3
      <4> QED BY <1>3, <4>1, ConcatAdjacentSubSeq
    <3>5. SubSeq(tokenIds, 1, Len(tokenIds)) = tokenIds
      BY <1>3, SubSeqFull
    <3> QED BY <2>1, <3>2, <3>3, <3>4, <3>5
  <2> HIDE DEF rest
  <2>3. map = Meaning(idToToken, ids)
    BY DEF Mapped, Meaning, Each
  <2>4. /\ map \in Seq(Alphabet) /\ Meaning(idToToken, rest) \in Seq(Alphabet)
        /\ CodeOf(text) = map \o Meaning(idToToken, rest)
    <3> DEFINE words == Each(idToToken, ids)
               others == Each(idToToken, rest)
    <3>1. words \in Seq(Seq(Alphabet))
      BY <1>5, <2>2, EachType
    <3>2. others \in Seq(Seq(Alphabet))
      BY <1>5, <2>2, EachType
    <3>3. Each(idToToken, ids \o rest) = words \o others
      BY <1>5, <2>2, EachConcat
    <3>4. map = FlattenSeq(words) /\ Meaning(idToToken, rest) = FlattenSeq(others)
      BY <2>3 DEF Meaning
    <3> HIDE DEF words, others, map
    <3>5. FlattenSeq(words) \in Seq(Alphabet)
      BY <3>1, FlattenType
    <3>6. FlattenSeq(others) \in Seq(Alphabet)
      BY <3>2, FlattenType
    <3>7. FlattenSeq(words \o others) = FlattenSeq(words) \o FlattenSeq(others)
      BY <3>1, <3>2, FlattenConcat
    <3> QED BY <1>3, <2>2, <3>3, <3>4, <3>5, <3>6, <3>7 DEF Meaning
  <2> HIDE DEF map, bytes
  <2>5. /\ Len(map) \in Nat /\ DOMAIN map = 1..Len(map) /\ Len(map) <= Len(bytes)
        /\ \A k \in 1..Len(map) : map[k] = CodeOf(text)[k]
    <3> DEFINE tail == Meaning(idToToken, rest)
    <3>1. tail \in Seq(Alphabet) /\ map \in Seq(Alphabet) /\ CodeOf(text) = map \o tail
      BY <2>4
    <3> HIDE DEF tail
    <3>2. Len(tail) \in Nat /\ Len(map) \in Nat /\ DOMAIN map = 1..Len(map)
      BY <3>1, LenProperties
    <3>3. /\ Len(map \o tail) = Len(map) + Len(tail)
          /\ \A k \in 1..(Len(map) + Len(tail)) :
               (map \o tail)[k] = IF k <= Len(map) THEN map[k] ELSE tail[k - Len(map)]
      BY <3>1, ConcatProperties
    <3> QED BY <1>6, <3>1, <3>2, <3>3
  <2>6. /\ DOMAIN decoded' = 1..Len(map) /\ \A k \in 1..Len(map) : decoded'[k] = bytes[k]
    <3>1. decoded' = [k \in 1..Len(map) |-> CodePointToByte(map[k])]
      BY <1>1, <1>8, <2>5
    <3>2. ASSUME NEW k \in 1..Len(map) PROVE CodePointToByte(map[k]) = bytes[k]
      <4>1. k \in 1..Len(bytes)
        BY <1>6, <2>5
      <4>2. bytes[k] \in Bytes
        BY <1>6, <4>1, ElementOfSeq
      <4> QED BY <1>6, <2>5, <4>1, <4>2, BytesBack
    <3> QED BY <3>1, <3>2
  <2>7. decoded' = SubSeq(bytes, 1, Len(map)) /\ Len(decoded') = Len(map)
    <3>1. \A k \in 1..Len(map) : bytes[k] \in Bytes
      <4>1. \A k \in 1..Len(map) : k \in 1..Len(bytes)
        BY <1>6, <2>5
      <4> QED BY <1>6, <4>1, ElementOfSeq
    <3>2. decoded' \in [1..Len(map) -> Bytes]
      <4>1. decoded' = [k \in 1..Len(map) |-> decoded'[k]]
        BY <1>1, <1>8, <2>5
      <4> QED BY <2>6, <3>1, <4>1
    <3>3. decoded' \in Seq(Bytes)
      BY <2>5, <3>2, SeqDef
    <3>4. Len(decoded') \in Nat /\ DOMAIN decoded' = 1..Len(decoded')
      BY <3>3, LenProperties
    <3>5. Len(decoded') = Len(map)
      BY <2>5, <2>6, <3>4
    <3>6. /\ SubSeq(bytes, 1, Len(map)) \in Seq(Bytes)
          /\ Len(SubSeq(bytes, 1, Len(map))) = IF 1 <= Len(map) THEN Len(map) - 1 + 1 ELSE 0
          /\ \A i \in 1..(Len(map) - 1 + 1) : SubSeq(bytes, 1, Len(map))[i] = bytes[1 + i - 1]
      BY <2>5, <3>1, SubSeqProperties
    <3>7. Len(SubSeq(bytes, 1, Len(map))) = Len(map)
      BY <2>5, <3>6
    <3>8. ASSUME NEW i \in 1..Len(map) PROVE decoded'[i] = SubSeq(bytes, 1, Len(map))[i]
      <4>1. i \in 1..(Len(map) - 1 + 1) /\ 1 + i - 1 = i
        BY <2>5
      <4> QED BY <2>6, <3>6, <4>1
    <3> QED BY <3>3, <3>5, <3>6, <3>7, <3>8, SeqEqual
  <2>8. IsPrefix(decoded', bytes)
    BY <2>5, <2>7 DEF IsPrefix
  <2>9. given' = tokenIds => decoded' = bytes
    <3> SUFFICES ASSUME ids = tokenIds PROVE decoded' = bytes
      BY <1>1
    <3>1. map = CodeOf(text)
      BY <1>3, <2>3
    <3>2. SubSeq(bytes, 1, Len(bytes)) = bytes
      BY <1>6, SubSeqFull
    <3> QED BY <1>6, <2>7, <3>1, <3>2
  <2>10. DecodeInvertsEncode'
    BY <1>1, <1>8, <2>8, <2>9 DEF DecodeInvertsEncode, bytes, BytesOf
  <2> QED BY <1>1, <1>2, <1>4, <2>10 DEF BytesInv, SymbolsInv, InPiece
<1>9. CASE stage' = "out_of_range"
  <2>1. ASSUME IsPrefix(ids, tokenIds) PROVE FALSE
    <3>1. CASE ids = Append(tokenIds, Cardinality(Vocabulary))
      <4> DEFINE OneMore == Ids \cup {Cardinality(Vocabulary)}
      <4>1. tokenIds \in Seq(OneMore) /\ Cardinality(Vocabulary) \in OneMore
        <5>1. tokenIds \in [1..Len(tokenIds) -> Ids]
          BY <1>3, LenProperties
        <5>2. tokenIds \in [1..Len(tokenIds) -> OneMore]
          BY <5>1
        <5> QED BY <1>3, <5>2, SeqDef
      <4> HIDE DEF OneMore
      <4>2. Len(ids) = Len(tokenIds) + 1
        BY <3>1, <4>1, AppendProperties
      <4> QED BY <1>3, <2>1, <4>2 DEF IsPrefix
    <3>2. CASE \E n \in 0..Len(tokenIds) : ids = SubSeq(tokenIds, 1, n)
      <4>1. PICK n \in 0..Len(tokenIds) : ids = SubSeq(tokenIds, 1, n)
        BY <3>2
      <4>2. \A k \in 1..n : tokenIds[k] \in Ids
        <5>1. \A k \in 1..n : k \in 1..Len(tokenIds)
          BY <1>3
        <5> QED BY <1>3, <5>1, ElementOfSeq
      <4>3. ids \in Seq(Ids)
        <5>1. n \in Int
          OBVIOUS
        <5> QED BY <4>1, <4>2, <5>1, SubSeqProperties
      <4>4. \A k \in DOMAIN ids : ids[k] \in Ids
        BY <4>3, LenProperties, ElementOfSeq
      <4> QED BY <1>1, <1>5, <1>9, <4>4
    <3> QED BY <3>1, <3>2 DEF DecodeArguments
  <2>2. DecodeInvertsEncode'
    BY <1>1, <1>9, <2>1 DEF DecodeInvertsEncode
  <2> QED BY <1>1, <1>2, <1>4, <2>2 DEF BytesInv, SymbolsInv, InPiece
<1> QED BY <1>1, <1>8, <1>9

LEMMA BytesNextInv == IInv /\ BytesInv /\ [Next]_vars => BytesInv'
<1> SUFFICES ASSUME IInv, BytesInv, [Next]_vars PROVE BytesInv'
  OBVIOUS
<1>1. CASE Load BY <1>1, BytesLoadInv
<1>2. ASSUME NEW t \in Texts(mergesFile), Encode(t) PROVE BytesInv' BY <1>2, BytesEncodeInv
<1>3. CASE StartSegment BY <1>3, BytesStartSegmentInv
<1>4. CASE StartPiece BY <1>4, BytesStartPieceInv
<1>5. CASE FindPair BY <1>5, BytesFindPairInv
<1>6. CASE Sweep BY <1>6, BytesSweepInv
<1>7. CASE EndSweep BY <1>7, BytesEndSweepInv
<1>8. CASE EmitTokens BY <1>8, BytesEmitTokensInv
<1>9. CASE EndSegment BY <1>9, BytesEndSegmentInv
<1>10. ASSUME NEW ids \in DecodeArguments, Decode(ids) PROVE BytesInv' BY <1>10, BytesDecodeInv
<1>11. CASE UNCHANGED vars
  <2>1. /\ UNCHANGED tables /\ UNCHANGED <<stage, text, position, segment, index, pieceEnd>>
        /\ UNCHANGED <<symbols, swept, at, tokenIds, given, decoded>>
    BY <1>11 DEF vars, loaderVars, tables, textVars, pieceVars, sweepVars, decodeVars
  <2>2. VocabularyInv'
    BY <2>1 DEF BytesInv, VocabularyInv, tables, fileVars, tableVars, Vocabulary
  <2>3. /\ Ids' = Ids /\ idToToken' = idToToken /\ Base' = Base /\ Done' = Done
        /\ (IsMarker(position)' <=> IsMarker(position))
    BY <2>1 DEF tables, tableVars, Ids, Vocabulary, Base, Done, IsMarker
  <2>4. PlaceInv'
    BY <2>1, <2>3 DEF BytesInv, PlaceInv, InSegment, InPiece, IsEncoded
  <2>5. TokensInv'
    BY <2>1, <2>3 DEF BytesInv, TokensInv, InSegment, InPiece, IsEncoded
  <2>6. SymbolsInv'
    BY <2>1 DEF BytesInv, SymbolsInv, InPiece
  <2>7. DecodeInvertsEncode'
    BY <2>1 DEF BytesInv, DecodeInvertsEncode, BytesOf
  <2> QED BY <2>2, <2>4, <2>5, <2>6, <2>7 DEF BytesInv
<1> QED
  BY <1>1, <1>2, <1>3, <1>4, <1>5, <1>6, <1>7, <1>8, <1>9, <1>10, <1>11 DEF Next, Ended

\* The round trip: of every text that is valid UTF-8 and every tables that load
\* accepted, decode gives the bytes back, all of them or as many as the first
\* tokens stand for, wherever a token ends within a character.
THEOREM DecodeAlwaysInvertsEncode == Spec => []DecodeInvertsEncode
<1>1. Init => BytesInv
  BY BytesInitInv
<1>2. IInv /\ BytesInv /\ [Next]_vars => BytesInv'
  BY BytesNextInv
<1>3. BytesInv => DecodeInvertsEncode
  BY DEF BytesInv
<1> QED BY <1>1, <1>2, <1>3, InductiveInvariant, PTL DEF Spec

-----------------------------------------------------------------------------
(* What load makes of the files. *)

EntriesAreGood ==
  /\ Len(vocabularyFile) \in 1..MaxVocabularySize
  /\ Cardinality(TokensOfFile) = Len(vocabularyFile)
  /\ {vocabularyFile[k].id : k \in DOMAIN vocabularyFile} = 0..(Len(vocabularyFile) - 1)
  /\ \A token \in TokensOfFile :
       TokenSize(token) \in 1..MaxTokenLength /\ {token[k] : k \in DOMAIN token} \subseteq Alphabet
  /\ {<<c>> : c \in Alphabet} \subseteq TokensOfFile

IsRule(words) ==
  \E left, right \in TokensOfFile : words = <<left, right>> /\ left \o right \in TokensOfFile

\* The entries before the line are the vocabulary.
EntriesInv ==
  stage = "vocabulary" =>
    /\ line - 1 \in 0..Len(vocabularyFile) /\ line - 1 <= MaxVocabularySize
    /\ Vocabulary = {vocabularyFile[k].token : k \in 1..(line - 1)}
    /\ \A j, k \in 1..(line - 1) : vocabularyFile[j].token = vocabularyFile[k].token => j = k
    /\ \A k \in 1..(line - 1) :
         /\ tokenToId[vocabularyFile[k].token] = vocabularyFile[k].id
         /\ IsAlphabetToken(vocabularyFile[k].token)

\* All entries are, and the rules before the line are the ranks.
LinesInv ==
  stage = "merges" =>
    /\ EntriesAreGood /\ Vocabulary = TokensOfFile
    /\ line - 1 \in 0..Len(mergesFile)
    /\ ToSet(mergeRules) = {mergesFile[k] : k \in {r \in RuleLines : r < line}}
    /\ \A k \in RuleLines : k < line => IsRule(mergesFile[k])
    /\ \A j, k \in RuleLines : j < line /\ k < line /\ mergesFile[j] = mergesFile[k] => j = k

FilesInv ==
  /\ vocabularyFile \in Seq([token : Seq(Nat), id : Nat])
  /\ mergesFile \in Seq(Seq(Seq(Nat)))
  /\ \A k \in DOMAIN mergesFile : mergesFile[k] # <<>>
  /\ mergeRules \in Seq(Seq(Seq(Nat))) /\ line \in Nat \ {0}

LoadsInv == EntriesInv /\ LinesInv /\ LoadsExactlyUsableTables

LEMMA CountValues ==
  ASSUME NEW S, IsFiniteSet(S), NEW f
  PROVE  /\ IsFiniteSet({f[x] : x \in S}) /\ Cardinality({f[x] : x \in S}) <= Cardinality(S)
         /\ Cardinality({f[x] : x \in S}) = Cardinality(S)
              <=> \A a, b \in S : f[a] = f[b] => a = b
<1> DEFINE T == {f[x] : x \in S}
           g == [x \in S |-> f[x]]
<1>1. g \in Surjection(S, T)
  BY DEF Surjection
<1>2. g \in Injection(S, T) <=> \A a, b \in S : f[a] = f[b] => a = b
  BY DEF Injection, IsInjective
<1>3. /\ IsFiniteSet(T) /\ Cardinality(T) <= Cardinality(S)
      /\ Cardinality(T) = Cardinality(S) <=> g \in Injection(S, T)
  <2> HIDE DEF T, g
  <2> QED BY <1>1, FS_Surjection
<1> HIDE DEF g
<1> QED BY <1>2, <1>3

LEMMA FilesAreTyped ==
  ASSUME IInv, VocabularyInv
  PROVE  FilesInv
<1>1. PICK files \in Files : mergesFile = files.merges
  BY DEF IInv, TablesInv
<1>2. \A k \in DOMAIN mergesFile : mergesFile[k] # <<>>
  BY <1>1, FilesAssumption DEF FilesAssumption
<1> QED BY <1>2 DEF FilesInv, IInv, TablesInv, VocabularyInv

LEMMA FilesKept ==
  ASSUME UNCHANGED fileVars
  PROVE  /\ EntriesAreGood' = EntriesAreGood /\ TokensOfFile' = TokensOfFile
         /\ GoodVocabularyFile' = GoodVocabularyFile /\ GoodMergesFile' = GoodMergesFile
         /\ RuleLines' = RuleLines /\ RulesOfFile' = RulesOfFile
BY DEF fileVars, EntriesAreGood, TokensOfFile, GoodVocabularyFile, GoodMergesFile, RuleLines,
   RulesOfFile

LEMMA GoodFileIs == GoodVocabularyFile <=> EntriesAreGood /\ EndOfText \in TokensOfFile
BY DEF GoodVocabularyFile, EntriesAreGood

LEMMA GoodMergesIs ==
  GoodMergesFile <=> /\ RuleLines # {} /\ \A k \in RuleLines : IsRule(mergesFile[k])
                     /\ \A j, k \in RuleLines : mergesFile[j] = mergesFile[k] => j = k
BY DEF GoodMergesFile, IsRule

\* The first entries of the vocabulary file, by their tokens.
LEMMA EntriesRead ==
  ASSUME FilesInv, EntriesInv, stage = "vocabulary"
  PROVE  /\ IsFiniteSet(Vocabulary) /\ Cardinality(Vocabulary) = line - 1
         /\ EntriesAreGood =>
              /\ \A j, k \in 1..Len(vocabularyFile) :
                   /\ vocabularyFile[j].token = vocabularyFile[k].token => j = k
                   /\ vocabularyFile[j].id = vocabularyFile[k].id => j = k
              /\ \A k \in 1..Len(vocabularyFile) :
                   /\ vocabularyFile[k].id \in 0..(Len(vocabularyFile) - 1)
                   /\ IsAlphabetToken(vocabularyFile[k].token)
<1> DEFINE n == Len(vocabularyFile)
           token == [k \in 1..n |-> vocabularyFile[k].token]
           id == [k \in 1..n |-> vocabularyFile[k].id]
<1>0. n \in Nat /\ DOMAIN vocabularyFile = 1..n
  BY LenProperties DEF FilesInv
<1>1. \A k \in 1..n : token[k] = vocabularyFile[k].token /\ id[k] = vocabularyFile[k].id
  OBVIOUS
<1>2. line - 1 \in 0..n /\ Vocabulary = {vocabularyFile[k].token : k \in 1..(line - 1)}
      /\ \A j, k \in 1..(line - 1) : vocabularyFile[j].token = vocabularyFile[k].token => j = k
  BY DEF EntriesInv
<1> HIDE DEF token, id, n
<1>3. IsFiniteSet(1..n) /\ Cardinality(1..n) = n
  BY <1>0, FS_Interval
<1>4. IsFiniteSet(Vocabulary) /\ Cardinality(Vocabulary) = line - 1
  <2> DEFINE m == line - 1
  <2>1. m \in Nat /\ \A k \in 1..m : k \in 1..n
    BY <1>0, <1>2
  <2>2. Vocabulary = {token[k] : k \in 1..m} /\ \A j, k \in 1..m : token[j] = token[k] => j = k
    <3>1. \A k \in 1..m : token[k] = vocabularyFile[k].token
      BY <1>1, <2>1
    <3> QED BY <1>2, <3>1
  <2> HIDE DEF m
  <2>3. IsFiniteSet(1..m) /\ Cardinality(1..m) = m
    BY <2>1, FS_Interval
  <2>4. IsFiniteSet({token[k] : k \in 1..m}) /\ Cardinality({token[k] : k \in 1..m}) = m
    <3>1. \A a, b \in 1..m : token[a] = token[b] => a = b
      BY <2>2
    <3> DEFINE S == 1..m
    <3>2. IsFiniteSet(S) /\ Cardinality(S) = m /\ \A a, b \in S : token[a] = token[b] => a = b
      BY <2>3, <3>1
    <3> HIDE DEF S
    <3>3. IsFiniteSet({token[k] : k \in S}) /\ Cardinality({token[k] : k \in S}) = m
      BY <3>2, CountValues
    <3> QED BY <3>3 DEF S
  <2> QED BY <2>2, <2>4 DEF m
<1>5. ASSUME EntriesAreGood
      PROVE  /\ \A j, k \in 1..n : token[j] = token[k] => j = k
             /\ \A j, k \in 1..n : id[j] = id[k] => j = k
             /\ \A k \in 1..n : id[k] \in 0..(n - 1) /\ IsAlphabetToken(token[k])
  <2>1. TokensOfFile = {token[k] : k \in 1..n}
    BY <1>0, <1>1 DEF TokensOfFile
  <2>2. {id[k] : k \in 1..n} = 0..(n - 1) /\ Cardinality(TokensOfFile) = n
    <3>1. {vocabularyFile[k].id : k \in 1..n} = 0..(n - 1) /\ Cardinality(TokensOfFile) = n
      BY <1>0, <1>5 DEF EntriesAreGood, n
    <3>2. {id[k] : k \in 1..n} = {vocabularyFile[k].id : k \in 1..n}
      BY <1>1, Zenon
    <3> QED BY <3>1, <3>2
  <2>3. \A j, k \in 1..n : token[j] = token[k] => j = k
    BY <1>3, <2>1, <2>2, CountValues
  <2>4. Cardinality({id[k] : k \in 1..n}) = n
    <3>1. Cardinality(0..(n - 1)) = n
      BY <1>0, FS_Interval
    <3> QED BY <2>2, <3>1
  <2>5. \A j, k \in 1..n : id[j] = id[k] => j = k
    BY <1>3, <2>4, CountValues
  <2>6. \A t \in TokensOfFile : IsAlphabetToken(t)
    BY <1>5 DEF EntriesAreGood, IsAlphabetToken
  <2> QED BY <2>1, <2>2, <2>3, <2>5, <2>6
<1> QED BY <1>1, <1>4, <1>5 DEF n

LEMMA ReadEntryLoads ==
  ASSUME FilesInv, LoadsInv, ReadEntry
  PROVE  LoadsInv'
<1> DEFINE entry == vocabularyFile[line]
           n == Len(vocabularyFile)
<1>0. /\ stage = "vocabulary" /\ line <= n /\ line \in Nat \ {0} /\ n \in Nat /\ line \in 1..n
      /\ MaxVocabularySize \in Nat /\ DOMAIN vocabularyFile = 1..n
  BY LenProperties, FilesAssumption DEF ReadEntry, FilesInv, FilesAssumption
<1>1. /\ line - 1 \in 0..n
      /\ Vocabulary = {vocabularyFile[k].token : k \in 1..(line - 1)}
      /\ \A j, k \in 1..(line - 1) : vocabularyFile[j].token = vocabularyFile[k].token => j = k
      /\ \A k \in 1..(line - 1) :
           /\ tokenToId[vocabularyFile[k].token] = vocabularyFile[k].id
           /\ IsAlphabetToken(vocabularyFile[k].token)
  BY <1>0 DEF LoadsInv, EntriesInv
<1>2. Cardinality(Vocabulary) = line - 1
  BY <1>0, EntriesRead DEF LoadsInv
<1>3. UNCHANGED fileVars
  BY DEF ReadEntry, RejectTables
<1>4. CASE GoodEntry(entry)
  <2>1. /\ stage' = "vocabulary" /\ line' = line + 1 /\ vocabularyFile' = vocabularyFile
        /\ tokenToId' = [token \in Vocabulary \cup {entry.token} |->
                          IF token = entry.token THEN entry.id ELSE tokenToId[token]]
    BY <1>0, <1>4 DEF ReadEntry, fileVars
  <2>2. /\ entry.token \notin Vocabulary /\ IsAlphabetToken(entry.token)
        /\ Cardinality(Vocabulary) < MaxVocabularySize
    BY <1>4 DEF GoodEntry
  <2>3. line' - 1 \in 0..n /\ line' - 1 <= MaxVocabularySize /\ line' - 1 = line
    BY <1>0, <1>2, <2>1, <2>2
  <2>4. \A k \in 1..line : k = line \/ k \in 1..(line - 1)
    BY <1>0
  <2>5. Vocabulary' = {vocabularyFile[k].token : k \in 1..line}
    <3>1. Vocabulary' = Vocabulary \cup {entry.token}
      BY <2>1 DEF Vocabulary
    <3>2. \A k \in 1..(line - 1) : k \in 1..line
      BY <1>0
    <3>3. line \in 1..line
      BY <1>0
    <3> QED BY <1>1, <2>4, <3>1, <3>2, <3>3
  <2>6. \A j, k \in 1..line : vocabularyFile[j].token = vocabularyFile[k].token => j = k
    BY <1>1, <2>2, <2>4
  <2>7. \A k \in 1..line : /\ tokenToId'[vocabularyFile[k].token] = vocabularyFile[k].id
                           /\ IsAlphabetToken(vocabularyFile[k].token)
    <3> SUFFICES ASSUME NEW k \in 1..line
                 PROVE  /\ tokenToId'[vocabularyFile[k].token] = vocabularyFile[k].id
                        /\ IsAlphabetToken(vocabularyFile[k].token)
      OBVIOUS
    <3>1. CASE k = line
      BY <2>1, <2>2, <3>1
    <3>2. CASE k \in 1..(line - 1)
      <4>1. vocabularyFile[k].token \in Vocabulary
        BY <1>1, <3>2
      <4> QED BY <1>1, <2>1, <2>2, <3>2, <4>1
    <3> QED BY <2>4, <3>1, <3>2
  <2>8. EntriesInv'
    <3>1. line' - 1 = line /\ line \in 0..n /\ line <= MaxVocabularySize
      BY <1>0, <2>3
    <3>2. line' - 1 \in 0..Len(vocabularyFile') /\ line' - 1 <= MaxVocabularySize
      BY <2>1, <3>1
    <3>3. Vocabulary' = {vocabularyFile'[k].token : k \in 1..(line' - 1)}
      BY <2>1, <2>5, <3>1
    <3>4. \A j, k \in 1..(line' - 1) : vocabularyFile'[j].token = vocabularyFile'[k].token => j = k
      BY <2>1, <2>6, <3>1
    <3>5. \A k \in 1..(line' - 1) : /\ tokenToId'[vocabularyFile'[k].token] = vocabularyFile'[k].id
                                   /\ IsAlphabetToken(vocabularyFile'[k].token)
      <4> HIDE DEF entry, n
      <4>1. vocabularyFile' = vocabularyFile
        BY <2>1
      <4> QED BY <2>7, <3>1, <4>1
    <3> QED BY <3>2, <3>3, <3>4, <3>5 DEF EntriesInv
  <2> QED BY <2>1, <2>8 DEF LoadsInv, LinesInv, LoadsExactlyUsableTables, Loading
<1>5. CASE ~GoodEntry(entry)
  <2>1. stage' = "rejected"
    BY <1>5 DEF ReadEntry, RejectTables
  <2>2. ASSUME GoodVocabularyFile PROVE FALSE
    <3>1. EntriesAreGood /\ n <= MaxVocabularySize
      BY <1>0, <2>2, GoodFileIs DEF EntriesAreGood
    <3>2. /\ \A j, k \in 1..n : vocabularyFile[j].token = vocabularyFile[k].token => j = k
          /\ \A k \in 1..n : /\ vocabularyFile[k].id \in 0..(n - 1)
                             /\ IsAlphabetToken(vocabularyFile[k].token)
      BY <1>0, <3>1, EntriesRead DEF LoadsInv
    <3>3. entry.id < MaxVocabularySize /\ IsAlphabetToken(entry.token)
      BY <1>0, <3>1, <3>2
    <3>4. Cardinality(Vocabulary) < MaxVocabularySize
      BY <1>0, <1>2, <3>1
    <3>5. entry.token \notin Vocabulary
      <4> SUFFICES ASSUME NEW k \in 1..(line - 1), vocabularyFile[k].token = vocabularyFile[line].token
                   PROVE  FALSE
        BY <1>1
      <4>1. k \in 1..n /\ k # line
        BY <1>0
      <4> QED BY <1>0, <3>2, <4>1
    <3> QED BY <1>5, <3>3, <3>4, <3>5 DEF GoodEntry
  <2>3. GoodVocabularyFile' = GoodVocabularyFile
    BY <1>3, FilesKept
  <2> QED BY <2>1, <2>2, <2>3 DEF LoadsInv, EntriesInv, LinesInv, LoadsExactlyUsableTables
<1> QED BY <1>4, <1>5

LEMMA IndexVocabularyLoads ==
  ASSUME IInv, FilesInv, LoadsInv, IndexVocabulary
  PROVE  LoadsInv'
<1> DEFINE n == Len(vocabularyFile)
           Accepted == Vocabulary # {} /\ IdsAreDense /\ AlphabetIsComplete
<1>0. /\ stage = "vocabulary" /\ line > n /\ line \in Nat \ {0} /\ n \in Nat
      /\ DOMAIN vocabularyFile = 1..n
  BY LenProperties DEF IndexVocabulary, FilesInv
<1>1. /\ line - 1 = n /\ n <= MaxVocabularySize
      /\ Vocabulary = TokensOfFile
      /\ \A j, k \in 1..n : vocabularyFile[j].token = vocabularyFile[k].token => j = k
      /\ \A k \in 1..n : /\ tokenToId[vocabularyFile[k].token] = vocabularyFile[k].id
                         /\ IsAlphabetToken(vocabularyFile[k].token)
  <2>1. line - 1 = n
    BY <1>0 DEF LoadsInv, EntriesInv
  <2> QED BY <1>0, <2>1 DEF LoadsInv, EntriesInv, TokensOfFile
<1>2. Cardinality(Vocabulary) = n
  BY <1>0, <1>1, EntriesRead DEF LoadsInv
<1>3. UNCHANGED fileVars
  BY DEF IndexVocabulary, RejectTables
<1>4. ASSUME Accepted PROVE EntriesAreGood
  <2>1. n \in 1..MaxVocabularySize
    <3>1. n # 0
      BY <1>0, <1>1, <1>4 DEF TokensOfFile
    <3>2. MaxVocabularySize \in Nat
      BY FilesAssumption DEF FilesAssumption
    <3> QED BY <1>0, <1>1, <3>1, <3>2
  <2>2. {vocabularyFile[k].id : k \in 1..n} = 0..(n - 1)
    <3> DEFINE id == [k \in 1..n |-> vocabularyFile[k].id]
               ids == {id[k] : k \in 1..n}
    <3>1. \A k \in 1..n : vocabularyFile[k].token \in Vocabulary /\ id[k] = vocabularyFile[k].id
      BY <1>0, <1>1 DEF TokensOfFile
    <3>2. \A k \in 1..n : id[k] \in 0..(n - 1)
      <4>1. \A k \in 1..n : id[k] < n
        BY <1>1, <1>2, <1>4, <3>1 DEF IdsAreDense
      <4>2. \A k \in 1..n : id[k] \in Nat
        <5>1. \A k \in 1..n : vocabularyFile[k] \in [token : Seq(Nat), id : Nat]
          BY ElementOfSeq DEF FilesInv
        <5> QED BY <5>1
      <4> HIDE DEF id
      <4> QED BY <1>0, <4>1, <4>2
    <3>3. \A j, k \in 1..n : id[j] = id[k] => j = k
      BY <1>1, <1>4, <3>1 DEF IdsAreDense
    <3> HIDE DEF id, n
    <3>4. IsFiniteSet(1..n) /\ Cardinality(1..n) = n
      BY <1>0, FS_Interval
    <3>5. Cardinality(ids) = n
      BY <3>3, <3>4, CountValues
    <3>6. IsFiniteSet(0..(n - 1)) /\ Cardinality(0..(n - 1)) = n
      <4>1. n - 1 \in Int
        BY <1>0
      <4>2. /\ IsFiniteSet(0..(n - 1))
            /\ Cardinality(0..(n - 1)) = IF 0 > n - 1 THEN 0 ELSE n - 1 - 0 + 1
        BY <4>1, FS_Interval
      <4> QED BY <1>0, <4>2
    <3>7. ids \subseteq 0..(n - 1)
      BY <3>2
    <3>8. ids = 0..(n - 1)
      <4> HIDE DEF ids
      <4> QED BY <3>5, <3>6, <3>7, FS_Subset
    <3> QED BY <3>1, <3>8
  <2>3. \A token \in TokensOfFile :
          TokenSize(token) \in 1..MaxTokenLength /\ {token[k] : k \in DOMAIN token} \subseteq Alphabet
    BY <1>0, <1>1 DEF TokensOfFile, IsAlphabetToken
  <2>4. {<<c>> : c \in Alphabet} \subseteq TokensOfFile
    BY <1>1, <1>4 DEF AlphabetIsComplete, Alphabet
  <2> QED BY <1>0, <1>1, <1>2, <2>1, <2>2, <2>3, <2>4 DEF EntriesAreGood
<1>5. ASSUME EntriesAreGood PROVE Accepted
  <2>1. /\ \A j, k \in 1..n : vocabularyFile[j].id = vocabularyFile[k].id => j = k
        /\ \A k \in 1..n : vocabularyFile[k].id \in 0..(n - 1)
    BY <1>0, <1>5, EntriesRead DEF LoadsInv
  <2>2. \A token \in Vocabulary : \E k \in 1..n : token = vocabularyFile[k].token
    BY <1>0, <1>1 DEF TokensOfFile
  <2>3. Vocabulary # {}
    <3>1. 1 \in 1..n
      BY <1>0, <1>5 DEF EntriesAreGood
    <3>2. vocabularyFile[1].token \in TokensOfFile
      BY <1>0, <3>1 DEF TokensOfFile
    <3> QED BY <1>1, <3>2
  <2>4. \A token \in Vocabulary : tokenToId[token] < Cardinality(Vocabulary)
    <3> SUFFICES ASSUME NEW k \in 1..n PROVE vocabularyFile[k].id < n
      BY <1>1, <1>2, <2>2
    <3>1. vocabularyFile[k].id \in 0..(n - 1)
      BY <2>1
    <3> QED BY <1>0, <3>1
  <2>5. \A s, t \in Vocabulary : tokenToId[s] = tokenToId[t] => s = t
    BY <1>1, <2>1, <2>2
  <2>6. AlphabetIsComplete
    BY <1>1, <1>5 DEF EntriesAreGood, AlphabetIsComplete, Alphabet
  <2> QED BY <2>3, <2>4, <2>5, <2>6 DEF IdsAreDense
<1>6. CASE Accepted
  <2>1. stage' = "merges" /\ line' = 1 /\ UNCHANGED <<mergesFile, tokenToId, mergeRules>>
    BY <1>6 DEF IndexVocabulary, fileVars
  <2>2. EntriesAreGood' /\ Vocabulary' = TokensOfFile'
    BY <1>1, <1>3, <1>4, <1>6, <2>1, FilesKept DEF Vocabulary
  <2>3. mergeRules = <<>> /\ ToSet(mergeRules') = {}
    <3>1. mergeRules = <<>>
      BY <1>0 DEF IInv, TablesInv
    <3> QED BY <2>1, <3>1 DEF ToSet
  <2>4. \A k \in RuleLines' : ~(k < line')
    <3>1. \A k \in RuleLines' : k \in 1..Len(mergesFile)
      BY <2>1, LenProperties DEF RuleLines, FilesInv
    <3> QED BY <2>1, <3>1
  <2>5. line' - 1 \in 0..Len(mergesFile')
    BY <2>1, LenProperties DEF FilesInv
  <2>6. LinesInv'
    BY <2>2, <2>3, <2>4, <2>5 DEF LinesInv
  <2> QED BY <2>1, <2>6 DEF LoadsInv, EntriesInv, LoadsExactlyUsableTables, Loading
<1>7. CASE ~Accepted
  <2>1. stage' = "rejected"
    BY <1>7 DEF IndexVocabulary, RejectTables
  <2>2. ~GoodVocabularyFile'
    BY <1>3, <1>5, <1>7, FilesKept, GoodFileIs
  <2> QED BY <2>1, <2>2 DEF LoadsInv, EntriesInv, LinesInv, LoadsExactlyUsableTables
<1> QED BY <1>6, <1>7

\* A line is skipped exactly if it is not a rule and need not be one.
LEMMA SkippedLine ==
  ASSUME FilesInv, NEW k \in DOMAIN mergesFile
  PROVE  k \in RuleLines <=> ~(IsBlank(mergesFile[k]) \/ IsVersionHeader(k, mergesFile[k]))
<1> DEFINE first == mergesFile[1][1]
<1>1. mergesFile[k] # << <<>> >> <=> ~IsBlank(mergesFile[k])
  BY DEF IsBlank
<1>2. ASSUME k = 1
      PROVE  (\A n \in 0..Len(first) : SubSeq(first, 1, n) # VersionPrefix)
               <=> ~IsVersionHeader(k, mergesFile[k])
  <2>1. first \in Seq(Nat) /\ Len(first) \in Nat
    <3>1. DOMAIN mergesFile = 1..Len(mergesFile)
      BY LenProperties DEF FilesInv
    <3>2. mergesFile[1] \in Seq(Seq(Nat)) /\ mergesFile[1] # <<>>
      BY <1>2, <3>1, ElementOfSeq DEF FilesInv
    <3>3. Len(mergesFile[1]) \in Nat \ {0}
      BY <3>2, EmptySeq
    <3>4. 1 \in 1..Len(mergesFile[1])
      BY <3>3
    <3>5. first \in Seq(Nat)
      BY <3>2, <3>4, ElementOfSeq
    <3> QED BY <3>5, LenProperties
  <2>2. VersionPrefix \in Seq(Nat) /\ Len(VersionPrefix) \in Nat
    BY FilesAssumption, LenProperties DEF FilesAssumption
  <2>3. ASSUME NEW n \in 0..Len(first), SubSeq(first, 1, n) = VersionPrefix
        PROVE  n = Len(VersionPrefix)
    <3>1. n \in Int /\ \A j \in 1..n : first[j] \in Nat
      <4>1. \A j \in 1..n : j \in 1..Len(first)
        BY <2>1
      <4> QED BY <2>1, <4>1, ElementOfSeq
    <3>2. Len(SubSeq(first, 1, n)) = IF 1 <= n THEN n - 1 + 1 ELSE 0
      BY <3>1, SubSeqProperties
    <3>3. Len(VersionPrefix) = IF 1 <= n THEN n - 1 + 1 ELSE 0
      BY <2>3, <3>2
    <3> QED BY <2>1, <3>3
  <2> HIDE DEF first
  <2>4. (\E n \in 0..Len(first) : SubSeq(first, 1, n) = VersionPrefix)
          <=> /\ Len(first) >= Len(VersionPrefix)
              /\ SubSeq(first, 1, Len(VersionPrefix)) = VersionPrefix
    <3>1. Len(first) >= Len(VersionPrefix) => Len(VersionPrefix) \in 0..Len(first)
      BY <2>1, <2>2
    <3> QED BY <2>1, <2>2, <2>3, <3>1
  <2> QED BY <1>2, <2>4 DEF IsVersionHeader, first
<1>3. k # 1 => ~IsVersionHeader(k, mergesFile[k])
  BY DEF IsVersionHeader
<1> HIDE DEF first
<1> QED BY <1>1, <1>2, <1>3 DEF RuleLines, first

\* In a vocabulary of good entries, a good rule is a rule that is new.
LEMMA GoodRuleIs ==
  ASSUME EntriesAreGood, Vocabulary = TokensOfFile, NEW words \in Seq(Seq(Nat))
  PROVE  GoodRule(words) <=> IsRule(words) /\ \A rank \in DOMAIN mergeRules : mergeRules[rank] # words
<1>1. ASSUME Len(words) = 2 PROVE words = <<words[1], words[2]>>
  BY <1>1, SeqEqual
<1>2. \A token \in TokensOfFile : IsAlphabetToken(token)
  BY DEF EntriesAreGood, IsAlphabetToken
<1>3. GoodRule(words) => IsRule(words)
  BY <1>1 DEF GoodRule, IsRule
<1>4. ASSUME NEW left \in TokensOfFile, NEW right \in TokensOfFile,
             words = <<left, right>>, left \o right \in TokensOfFile,
             \A rank \in DOMAIN mergeRules : mergeRules[rank] # words
      PROVE  GoodRule(words)
  BY <1>2, <1>4 DEF GoodRule
<1> QED BY <1>3, <1>4 DEF GoodRule, IsRule

LEMMA SetOfAppend ==
  ASSUME NEW S, NEW s \in Seq(S), NEW x \in S
  PROVE  ToSet(Append(s, x)) = ToSet(s) \cup {x}
<1>1. /\ Append(s, x) \in Seq(S) /\ Len(Append(s, x)) = Len(s) + 1 /\ Len(s) \in Nat
      /\ \A k \in 1..Len(s) : Append(s, x)[k] = s[k]
      /\ Append(s, x)[Len(s) + 1] = x
  BY AppendProperties, LenProperties
<1>2. DOMAIN Append(s, x) = 1..(Len(s) + 1) /\ DOMAIN s = 1..Len(s)
  BY <1>1, LenProperties
<1>3. \A k \in 1..(Len(s) + 1) : k \in 1..Len(s) \/ k = Len(s) + 1
  BY <1>1
<1>4. Len(s) + 1 \in 1..(Len(s) + 1) /\ \A k \in 1..Len(s) : k \in 1..(Len(s) + 1)
  BY <1>1
<1> QED BY <1>1, <1>2, <1>3, <1>4 DEF ToSet

LEMMA ReadLineLoads ==
  ASSUME FilesInv, LoadsInv, ReadLine
  PROVE  LoadsInv'
<1> DEFINE words == mergesFile[line]
           Skipped == IsBlank(words) \/ IsVersionHeader(line, words)
           Before(n) == {r \in RuleLines : r < n}
<1>0. /\ stage = "merges" /\ line \in 1..Len(mergesFile) /\ Len(mergesFile) \in Nat
      /\ DOMAIN mergesFile = 1..Len(mergesFile) /\ words \in Seq(Seq(Nat))
  <2>1. stage = "merges" /\ line \in 1..Len(mergesFile) /\ Len(mergesFile) \in Nat
    BY LenProperties DEF ReadLine, FilesInv
  <2> QED BY <2>1, LenProperties, ElementOfSeq DEF FilesInv
<1>1. /\ EntriesAreGood /\ Vocabulary = TokensOfFile
      /\ ToSet(mergeRules) = {mergesFile[k] : k \in Before(line)}
      /\ \A k \in RuleLines : k < line => IsRule(mergesFile[k])
      /\ \A j, k \in RuleLines : j < line /\ k < line /\ mergesFile[j] = mergesFile[k] => j = k
  BY <1>0 DEF LoadsInv, LinesInv
<1>2. UNCHANGED fileVars
  BY DEF ReadLine, RejectTables
<1>3. line \in RuleLines <=> ~Skipped
  BY <1>0, SkippedLine
<1>4. GoodRule(words) <=> IsRule(words) /\ \A rank \in DOMAIN mergeRules : mergeRules[rank] # words
  <2> HIDE DEF words
  <2> QED BY <1>0, <1>1, GoodRuleIs
<1>5. words \in ToSet(mergeRules) <=> \E rank \in DOMAIN mergeRules : mergeRules[rank] = words
  BY DEF ToSet
<1>6. \A k \in RuleLines : (k < line + 1) <=> (k < line \/ k = line)
  <2>1. RuleLines \subseteq 1..Len(mergesFile)
    BY <1>0 DEF RuleLines
  <2> QED BY <1>0, <2>1
<1> HIDE DEF words, Skipped
<1>7. CASE Skipped \/ GoodRule(words)
  <2>1. /\ stage' = "merges" /\ line' = line + 1 /\ UNCHANGED <<mergesFile, tokenToId>>
        /\ mergeRules' = IF Skipped THEN mergeRules ELSE Append(mergeRules, words)
    BY <1>0, <1>7 DEF ReadLine, fileVars, words, Skipped
  <2>2. /\ EntriesAreGood' /\ Vocabulary' = TokensOfFile' /\ RuleLines' = RuleLines
        /\ TokensOfFile' = TokensOfFile
    BY <1>1, <1>2, <2>1, FilesKept DEF Vocabulary
  <2>3. line' - 1 \in 0..Len(mergesFile')
    BY <1>0, <2>1
  <2>4. CASE Skipped
    <3>1. \A k \in RuleLines : k < line' <=> k < line
      BY <1>3, <1>6, <2>1, <2>4
    <3>2. ToSet(mergeRules') = {mergesFile[k] : k \in Before(line')}
      <4>1. Before(line') = Before(line)
        BY <3>1
      <4> QED BY <1>1, <2>1, <2>4, <4>1
    <3>3. LinesInv'
      <4>1. ToSet(mergeRules)' = {mergesFile'[k] : k \in {r \in RuleLines' : r < line'}}
        BY <2>1, <2>2, <3>2 DEF ToSet
      <4>2. \A k \in RuleLines' : k < line' => IsRule(mergesFile[k])'
        BY <1>1, <2>1, <2>2, <3>1 DEF IsRule
      <4>3. \A j, k \in RuleLines' :
              j < line' /\ k < line' /\ mergesFile'[j] = mergesFile'[k] => j = k
        BY <1>1, <2>1, <2>2, <3>1
      <4> QED BY <2>2, <2>3, <4>1, <4>2, <4>3 DEF LinesInv
    <3> QED BY <2>1, <3>3 DEF LoadsInv, EntriesInv, LoadsExactlyUsableTables, Loading
  <2>5. CASE ~Skipped
    <3>1. line \in RuleLines /\ IsRule(words) /\ words \notin ToSet(mergeRules)
      BY <1>3, <1>4, <1>5, <1>7, <2>5
    <3>2. ToSet(mergeRules') = ToSet(mergeRules) \cup {words}
      BY <1>0, <2>1, <2>5, SetOfAppend DEF FilesInv
    <3>3. Before(line') = Before(line) \cup {line}
      BY <1>6, <2>1, <3>1
    <3>4. ToSet(mergeRules') = {mergesFile[k] : k \in Before(line')}
      <4> HIDE DEF Before
      <4> QED BY <1>1, <3>2, <3>3 DEF words
    <3>5. \A k \in RuleLines : k < line' => IsRule(mergesFile[k])
      BY <1>1, <1>6, <2>1, <3>1 DEF words
    <3>6. \A j, k \in RuleLines : j < line' /\ k < line' /\ mergesFile[j] = mergesFile[k] => j = k
      <4>1. \A k \in RuleLines : k < line => mergesFile[k] # words
        BY <1>1, <3>1
      <4> QED BY <1>1, <1>6, <2>1, <4>1 DEF words
    <3>7. LinesInv'
      <4>1. ToSet(mergeRules)' = {mergesFile'[k] : k \in {r \in RuleLines' : r < line'}}
        BY <2>1, <2>2, <3>4 DEF ToSet
      <4>2. \A k \in RuleLines' : k < line' => IsRule(mergesFile[k])'
        BY <2>1, <2>2, <3>5 DEF IsRule
      <4>3. \A j, k \in RuleLines' :
              j < line' /\ k < line' /\ mergesFile'[j] = mergesFile'[k] => j = k
        BY <2>1, <2>2, <3>6
      <4> QED BY <2>2, <2>3, <4>1, <4>2, <4>3 DEF LinesInv
    <3> QED BY <2>1, <3>7 DEF LoadsInv, EntriesInv, LoadsExactlyUsableTables, Loading
  <2> QED BY <2>4, <2>5
<1>8. CASE ~(Skipped \/ GoodRule(words))
  <2>1. stage' = "rejected"
    BY <1>8 DEF ReadLine, RejectTables, words, Skipped
  <2>2. ASSUME GoodMergesFile PROVE FALSE
    <3>1. line \in RuleLines /\ IsRule(words)
      BY <1>3, <1>8, <2>2, GoodMergesIs DEF words
    <3>2. words \in ToSet(mergeRules)
      BY <1>4, <1>5, <1>8, <3>1
    <3>3. PICK k \in RuleLines : k < line /\ mergesFile[k] = mergesFile[line]
      BY <1>1, <3>2 DEF words
    <3>4. k = line
      BY <2>2, <3>1, <3>3, GoodMergesIs
    <3> QED BY <1>0, <3>3, <3>4
  <2>3. GoodMergesFile' = GoodMergesFile
    BY <1>2, FilesKept
  <2> QED BY <2>1, <2>2, <2>3 DEF LoadsInv, EntriesInv, LinesInv, LoadsExactlyUsableTables
<1> QED BY <1>7, <1>8

LEMMA FinishLoadLoads ==
  ASSUME FilesInv, LoadsInv, FinishLoad
  PROVE  LoadsInv'
<1>0. /\ stage = "merges" /\ line > Len(mergesFile) /\ Len(mergesFile) \in Nat /\ line \in Nat
      /\ UNCHANGED fileVars
  BY LenProperties DEF FinishLoad, RejectTables, FilesInv
<1>1. \A k \in RuleLines : k < line
  <2>1. RuleLines \subseteq 1..Len(mergesFile)
    BY LenProperties DEF RuleLines, FilesInv
  <2> QED BY <1>0, <2>1
<1>2. /\ EntriesAreGood /\ Vocabulary = TokensOfFile
      /\ ToSet(mergeRules) = RulesOfFile
      /\ \A k \in RuleLines : IsRule(mergesFile[k])
      /\ \A j, k \in RuleLines : mergesFile[j] = mergesFile[k] => j = k
  BY <1>0, <1>1 DEF LoadsInv, LinesInv, RulesOfFile
<1>3. RuleLines # {} <=> mergeRules # <<>>
  <2>1. RuleLines # {} <=> RulesOfFile # {}
    BY DEF RulesOfFile
  <2>2. mergeRules = <<>> => ToSet(mergeRules) = {}
    BY DEF ToSet
  <2>3. mergeRules # <<>> => ToSet(mergeRules) # {}
    <3> SUFFICES ASSUME mergeRules # <<>> PROVE ToSet(mergeRules) # {}
      OBVIOUS
    <3>1. Len(mergeRules) \in Nat \ {0} /\ DOMAIN mergeRules = 1..Len(mergeRules)
      BY EmptySeq, LenProperties DEF FilesInv
    <3>2. 1 \in DOMAIN mergeRules
      BY <3>1
    <3> QED BY <3>2 DEF ToSet
  <2> QED BY <1>2, <2>1, <2>2, <2>3
<1>4. (GoodVocabularyFile /\ GoodMergesFile) <=> (mergeRules # <<>> /\ EndOfText \in Vocabulary)
  BY <1>2, <1>3, GoodFileIs, GoodMergesIs
<1>5. /\ GoodVocabularyFile' = GoodVocabularyFile /\ GoodMergesFile' = GoodMergesFile
      /\ RulesOfFile' = RulesOfFile
  BY <1>0, FilesKept
<1>6. CASE mergeRules # <<>> /\ EndOfText \in Vocabulary
  <2>1. stage' = "loaded" /\ mergeRules' = mergeRules
    BY <1>6 DEF FinishLoad, tableVars
  <2> QED BY <1>2, <1>4, <1>5, <1>6, <2>1 DEF LoadsInv, EntriesInv, LinesInv, LoadsExactlyUsableTables
<1>7. CASE ~(mergeRules # <<>> /\ EndOfText \in Vocabulary)
  <2>1. stage' = "rejected"
    BY <1>7 DEF FinishLoad, RejectTables
  <2> QED BY <1>4, <1>5, <1>7, <2>1 DEF LoadsInv, EntriesInv, LinesInv, LoadsExactlyUsableTables
<1> QED BY <1>6, <1>7

LEMMA LoadsInitInv == Init => LoadsInv
<1> SUFFICES ASSUME Init PROVE LoadsInv
  OBVIOUS
<1>1. stage = "vocabulary" /\ line = 1 /\ tokenToId = [token \in {} |-> 0]
  BY DEF Init, LoaderInit
<1>2. Len(vocabularyFile) \in Nat /\ MaxVocabularySize \in Nat
  <2>1. vocabularyFile \in Seq([token : Seq(Nat), id : Nat])
    BY FilesAssumption DEF FilesAssumption, Init, LoaderInit
  <2> QED BY <2>1, LenProperties, FilesAssumption DEF FilesAssumption
<1>3. Vocabulary = {} /\ 1..(line - 1) = {} /\ line - 1 \in 0..Len(vocabularyFile)
  BY <1>1, <1>2 DEF Vocabulary
<1>4. EntriesInv
  BY <1>1, <1>2, <1>3 DEF EntriesInv
<1> QED BY <1>1, <1>4 DEF LoadsInv, LinesInv, LoadsExactlyUsableTables, Loading

LEMMA LoadsNextInv == IInv /\ VocabularyInv /\ LoadsInv /\ [Next]_vars => LoadsInv'
<1> SUFFICES ASSUME IInv, VocabularyInv, LoadsInv, [Next]_vars PROVE LoadsInv'
  OBVIOUS
<1>0. FilesInv
  BY FilesAreTyped
<1>1. CASE Load
  BY <1>0, <1>1, ReadEntryLoads, IndexVocabularyLoads, ReadLineLoads, FinishLoadLoads DEF Load, LoadStep
<1>2. ASSUME UNCHANGED tables, stage \notin {"vocabulary", "merges", "rejected"},
             stage' \notin {"vocabulary", "merges", "rejected"}
      PROVE  LoadsInv'
  <2>1. UNCHANGED fileVars /\ mergeRules' = mergeRules
    BY <1>2 DEF tables, tableVars
  <2>2. /\ GoodVocabularyFile' = GoodVocabularyFile /\ GoodMergesFile' = GoodMergesFile
        /\ RulesOfFile' = RulesOfFile
    BY <2>1, FilesKept
  <2> QED BY <1>2, <2>1, <2>2 DEF LoadsInv, EntriesInv, LinesInv, LoadsExactlyUsableTables, Loading
<1>3. ASSUME UNCHANGED tables, stage' = stage PROVE LoadsInv'
  <2>1. /\ UNCHANGED fileVars /\ UNCHANGED <<line, tokenToId, mergeRules>> /\ Vocabulary' = Vocabulary
        /\ vocabularyFile' = vocabularyFile /\ mergesFile' = mergesFile
    BY <1>3 DEF tables, fileVars, tableVars, Vocabulary
  <2>2. /\ GoodVocabularyFile' = GoodVocabularyFile /\ GoodMergesFile' = GoodMergesFile
        /\ RulesOfFile' = RulesOfFile /\ EntriesAreGood' = EntriesAreGood
        /\ TokensOfFile' = TokensOfFile /\ RuleLines' = RuleLines
    BY <2>1, FilesKept
  <2>3. EntriesInv'
    BY <1>3, <2>1 DEF LoadsInv, EntriesInv
  <2>4. LinesInv'
    BY <1>3, <2>1, <2>2 DEF LoadsInv, LinesInv, IsRule
  <2>5. LoadsExactlyUsableTables'
    BY <1>3, <2>1, <2>2 DEF LoadsInv, LoadsExactlyUsableTables, Loading
  <2> QED BY <2>3, <2>4, <2>5 DEF LoadsInv
<1>4. CASE UNCHANGED vars
  BY <1>3, <1>4 DEF vars, loaderVars, tables
<1>5. ASSUME NEW t \in Texts(mergesFile), Encode(t) PROVE LoadsInv' BY <1>2, <1>5 DEF Encode
<1>6. CASE StartSegment BY <1>2, <1>6 DEF StartSegment
<1>7. CASE StartPiece BY <1>2, <1>7 DEF StartPiece
<1>8. CASE FindPair BY <1>2, <1>8 DEF FindPair
<1>9. CASE Sweep BY <1>3, <1>9 DEF Sweep
<1>10. CASE EndSweep BY <1>2, <1>10 DEF EndSweep
<1>11. CASE EmitTokens BY <1>2, <1>11 DEF EmitTokens
<1>12. CASE EndSegment BY <1>2, <1>12 DEF EndSegment
<1>13. ASSUME NEW ids \in DecodeArguments, Decode(ids) PROVE LoadsInv' BY <1>2, <1>13 DEF Decode
<1> QED
  BY <1>1, <1>4, <1>5, <1>6, <1>7, <1>8, <1>9, <1>10, <1>11, <1>12, <1>13 DEF Next, Ended

\* load accepts exactly the files that docs/tokenizer.md calls for, wherever in
\* them what is wrong stands, and its ranks are the rules and nothing else.
THEOREM LoadsAlwaysExactlyUsableTables == Spec => []LoadsExactlyUsableTables
<1>1. Init => BytesInv /\ LoadsInv
  BY BytesInitInv, LoadsInitInv
<1>2. IInv /\ BytesInv /\ LoadsInv /\ [Next]_vars => BytesInv' /\ LoadsInv'
  BY BytesNextInv, LoadsNextInv DEF BytesInv
<1>3. LoadsInv => LoadsExactlyUsableTables
  BY DEF LoadsInv
<1> QED BY <1>1, <1>2, <1>3, InductiveInvariant, PTL DEF Spec

-----------------------------------------------------------------------------
(* The markers in the text and among the tokens. *)

Markers ==
  {p \in 1..(Len(text) - Len(Marker) + 1) : SubSeq(text, p, p + Len(Marker) - 1) = Marker}
MarkersBefore(n) == {p \in Markers : p < n}
MarkerTokens == {k \in DOMAIN tokenIds : tokenIds[k] = tokenToId[EndOfText]}

\* One token for each marker before the position, none of them in the segment.
MarkersInv ==
  /\ stage = "segment" \/ InSegment =>
       Cardinality(MarkerTokens) = Cardinality(MarkersBefore(position))
  /\ InSegment => \A p \in Markers : p \notin (Base + 1)..(position - 1)
  /\ stage = "encoded" => Cardinality(MarkerTokens) = Cardinality(Markers)

MarkerByte(k) == Utf8[Marker[k]][1]

LEMMA MarkerBytes ==
  /\ Marker \in Seq(Characters) /\ Len(Marker) \in Nat \ {0} /\ DOMAIN Marker = 1..Len(Marker)
  /\ \A k \in 1..Len(Marker) :
       /\ MarkerByte(k) \in Bytes /\ Utf8[Marker[k]] = <<MarkerByte(k)>>
       /\ \A c \in Characters : \A j \in 1..Len(Utf8[c]) : Utf8[c][j] = MarkerByte(k) => c = Marker[k]
  /\ \A c \in Characters : Utf8[c] \in Seq(Bytes) /\ Len(Utf8[c]) \in Nat \ {0}
<1>1. Marker \in Seq(Characters) /\ Len(Marker) \in Nat \ {0} /\ DOMAIN Marker = 1..Len(Marker)
  BY TextAssumption, LenProperties, EmptySeq DEF TextAssumption
<1>2. \A c \in Characters : Utf8[c] \in Seq(Bytes) /\ Utf8[c] # <<>>
  BY TextAssumption DEF TextAssumption
<1>3. \A c \in Characters : Len(Utf8[c]) \in Nat \ {0} /\ DOMAIN Utf8[c] = 1..Len(Utf8[c])
  BY <1>2, EmptySeq, LenProperties
<1>4. ASSUME NEW k \in 1..Len(Marker)
      PROVE  /\ MarkerByte(k) \in Bytes /\ Utf8[Marker[k]] = <<MarkerByte(k)>>
             /\ \A c \in Characters : \A j \in 1..Len(Utf8[c]) : Utf8[c][j] = MarkerByte(k) => c = Marker[k]
  <2>1. PICK b \in Bytes : /\ Utf8[Marker[k]] = <<b>>
                           /\ \A c \in Characters : b \in ToSet(Utf8[c]) => c = Marker[k]
    BY <1>1, TextAssumption DEF TextAssumption
  <2>2. MarkerByte(k) = b
    BY <2>1 DEF MarkerByte
  <2>3. \A c \in Characters : \A j \in 1..Len(Utf8[c]) : Utf8[c][j] \in ToSet(Utf8[c])
    BY <1>3 DEF ToSet
  <2> QED BY <2>1, <2>2, <2>3
<1> QED BY <1>1, <1>2, <1>3, <1>4

LEMMA MarkerTokenIs ==
  /\ EndOfText \in Seq(Bytes) /\ Len(EndOfText) = Len(Marker)
  /\ \A k \in 1..Len(Marker) : EndOfText[k] = MarkerByte(k)
<1> DEFINE u == [k \in 1..Len(Marker) |-> MarkerByte(k)]
<1>1. u \in Seq(Bytes) /\ Len(u) = Len(Marker)
  <2>1. u \in [1..Len(Marker) -> Bytes] /\ Len(Marker) \in Nat
    BY MarkerBytes
  <2>2. u \in Seq(Bytes)
    BY <2>1, SeqDef
  <2>3. DOMAIN u = 1..Len(u) /\ Len(u) \in Nat
    BY <2>2, LenProperties
  <2>4. DOMAIN u = 1..Len(Marker)
    OBVIOUS
  <2> HIDE DEF u
  <2> QED BY <2>1, <2>2, <2>3, <2>4
<1>2. [k \in DOMAIN Marker |-> Utf8[Marker[k]]] = [k \in DOMAIN u |-> <<u[k]>>]
  BY MarkerBytes
<1>3. FlattenSeq([k \in DOMAIN u |-> <<u[k]>>]) = u
  <2> HIDE DEF u
  <2> QED BY <1>1, FlattenSingletons
<1>4. EndOfText = u
  <2> HIDE DEF u
  <2> QED BY <1>2, <1>3, TextAssumption DEF TextAssumption
<1>5. \A k \in 1..Len(Marker) : u[k] = MarkerByte(k)
  OBVIOUS
<1> HIDE DEF u
<1> QED BY <1>1, <1>4, <1>5

\* Where the first bytes of the marker stand in a text, its characters do.
StandsIn(t, m, p) == p + m <= Len(t) /\ \A j \in 1..m : t[p + j] = Marker[j]
BytesStandIn(bytes, m, o) ==
  o + m <= Len(bytes) /\ \A j \in 1..m : bytes[o + j] = MarkerByte(j)
IsAligned(t) ==
  \A m \in 0..Len(Marker), o \in Nat :
    BytesStandIn(BytesOf(t), m, o) =>
      \E p \in Nat : StandsIn(t, m, p) /\ (o + m = Len(BytesOf(t)) => p + m = Len(t))

LEMMA AlignedAppend ==
  ASSUME NEW s \in Seq(Characters), NEW x \in Characters, IsAligned(s)
  PROVE  IsAligned(Append(s, x))
<1> DEFINE t == Append(s, x)
           a == BytesOf(s)
           u == Utf8[x]
<1>0. Len(Marker) \in Nat \ {0}
  BY MarkerBytes
<1>1. /\ t \in Seq(Characters) /\ Len(t) = Len(s) + 1 /\ Len(s) \in Nat
      /\ \A k \in 1..Len(s) : t[k] = s[k]
      /\ t[Len(s) + 1] = x
  BY AppendProperties, LenProperties
<1>2. u \in Seq(Bytes) /\ Len(u) \in Nat \ {0} /\ a \in Seq(Bytes) /\ Len(a) \in Nat
  BY MarkerBytes, BytesType, LenProperties
<1>3. BytesOf(t) = a \o u
  <2>1. t = s \o <<x>> /\ <<x>> \in Seq(Characters)
    BY AppendIsConcat
  <2>2. BytesOf(<<x>>) = u
    <3>1. [k \in DOMAIN <<x>> |-> Utf8[<<x>>[k]]] = Append(<<>>, u)
      OBVIOUS
    <3>2. <<>> \in Seq(Seq(Bytes)) /\ <<>> \in Seq(Bytes)
      BY EmptySeq
    <3>3. FlattenSeq(Append(<<>>, u)) = FlattenSeq(<<>>) \o u
      BY <1>2, <3>2, FlattenAppend
    <3>4. <<>> \o u = u
      BY <1>2, ConcatEmptySeq
    <3> QED BY <3>1, <3>3, <3>4, FlattenEmpty DEF BytesOf
  <2>3. BytesOf(s \o <<x>>) = BytesOf(s) \o BytesOf(<<x>>)
    BY <2>1, BytesConcat
  <2> QED BY <2>1, <2>2, <2>3
<1>4. /\ Len(a \o u) = Len(a) + Len(u)
      /\ \A i \in 1..(Len(a) + Len(u)) : (a \o u)[i] = IF i <= Len(a) THEN a[i] ELSE u[i - Len(a)]
  BY <1>2, ConcatProperties
<1> HIDE DEF t, a, u
<1> SUFFICES ASSUME NEW m \in 0..Len(Marker), NEW o \in Nat, BytesStandIn(a \o u, m, o)
             PROVE  \E p \in Nat : StandsIn(t, m, p) /\ (o + m = Len(a) + Len(u) => p + m = Len(t))
  BY <1>3, <1>4 DEF IsAligned, t
<1>5. m \in Nat /\ o + m <= Len(a) + Len(u) /\ \A j \in 1..m : (a \o u)[o + j] = MarkerByte(j)
  BY <1>0, <1>4 DEF BytesStandIn
<1>6. CASE o + m <= Len(a)
  <2>1. BytesStandIn(a, m, o)
    <3>1. \A j \in 1..m : o + j \in 1..(Len(a) + Len(u)) /\ o + j <= Len(a)
      BY <1>2, <1>5, <1>6
    <3> QED BY <1>4, <1>5, <1>6, <3>1 DEF BytesStandIn
  <2>2. PICK p \in Nat : StandsIn(s, m, p)
    BY <2>1 DEF IsAligned, a
  <2>3. StandsIn(t, m, p)
    <3>1. p + m <= Len(s) /\ \A j \in 1..m : s[p + j] = Marker[j]
      BY <2>2 DEF StandsIn
    <3>2. \A j \in 1..m : p + j \in 1..Len(s)
      BY <1>1, <1>5, <3>1
    <3>3. p + m <= Len(t)
      BY <1>1, <1>5, <3>1
    <3> QED BY <1>1, <3>1, <3>2, <3>3 DEF StandsIn
  <2>4. o + m # Len(a) + Len(u)
    BY <1>2, <1>5, <1>6
  <2> QED BY <2>3, <2>4
<1>7. CASE ~(o + m <= Len(a)) /\ m = 0
  <2>1. Len(t) \in Nat /\ StandsIn(t, 0, Len(t))
    BY <1>1 DEF StandsIn
  <2>2. Len(t) + 0 = Len(t)
    BY <2>1
  <2> QED BY <1>7, <2>1, <2>2
<1>8. CASE ~(o + m <= Len(a)) /\ m # 0
  <2>1. /\ o + m \in 1..(Len(a) + Len(u)) /\ o + m - Len(a) \in 1..Len(u) /\ m \in 1..m
        /\ m \in 1..Len(Marker) /\ m - 1 \in 0..Len(Marker) /\ m - 1 \in Nat
    BY <1>0, <1>2, <1>5, <1>8
  <2>2. u[o + m - Len(a)] = MarkerByte(m)
    BY <1>4, <1>5, <1>8, <2>1
  <2>3. x = Marker[m]
    BY <2>1, <2>2, MarkerBytes DEF u
  <2>4. Len(u) = 1
    <3>1. Utf8[Marker[m]] = <<MarkerByte(m)>>
      BY <2>1, MarkerBytes
    <3>2. u = <<MarkerByte(m)>>
      BY <2>3, <3>1 DEF u
    <3> QED BY <3>2
  <2>5. o + (m - 1) = Len(a)
    BY <1>2, <1>5, <2>1, <2>4
  <2>6. BytesStandIn(a, m - 1, o)
    <3>1. \A j \in 1..(m - 1) : j \in 1..m /\ o + j \in 1..(Len(a) + Len(u)) /\ o + j <= Len(a)
      BY <1>2, <1>5, <2>1, <2>5
    <3>2. \A j \in 1..(m - 1) : a[o + j] = MarkerByte(j)
      BY <1>4, <1>5, <3>1
    <3> QED BY <1>2, <2>5, <3>2 DEF BytesStandIn
  <2>7. PICK p \in Nat : StandsIn(s, m - 1, p) /\ p + (m - 1) = Len(s)
    BY <2>1, <2>5, <2>6 DEF IsAligned, a
  <2>8. StandsIn(t, m, p) /\ p + m = Len(t)
    <3>1. p + m = Len(s) + 1 /\ p + m = Len(t)
      BY <1>1, <2>1, <2>7
    <3>2. ASSUME NEW j \in 1..m PROVE t[p + j] = Marker[j]
      <4>1. CASE j = m
        BY <1>1, <2>3, <3>1, <4>1
      <4>2. CASE j # m
        <5>1. j \in 1..(m - 1) /\ p + j \in 1..Len(s)
          BY <1>1, <2>1, <3>1, <4>2
        <5> QED BY <1>1, <2>7, <5>1 DEF StandsIn
      <4> QED BY <4>1, <4>2
    <3> QED BY <1>1, <3>1, <3>2 DEF StandsIn
  <2> QED BY <2>8
<1> QED BY <1>6, <1>7, <1>8

LEMMA TextsAreAligned == \A t \in Seq(Characters) : IsAligned(t)
<1> DEFINE P == {t \in Seq(Characters) : IsAligned(t)}
<1>1. <<>> \in P
  <2>1. BytesOf(<<>>) = <<>> /\ Len(<<>>) = 0 /\ <<>> \in Seq(Characters)
    <3>1. [k \in DOMAIN <<>> |-> Utf8[<<>>[k]]] = <<>>
      OBVIOUS
    <3> QED BY <3>1, FlattenEmpty, EmptySeq DEF BytesOf
  <2>2. ASSUME NEW m \in 0..Len(Marker), NEW o \in Nat, BytesStandIn(<<>>, m, o)
        PROVE  StandsIn(<<>>, m, 0) /\ 0 + m = Len(<<>>)
    <3>1. m = 0
      BY <2>1, <2>2, MarkerBytes DEF BytesStandIn
    <3> QED BY <2>1, <3>1 DEF StandsIn
  <2>3. IsAligned(<<>>)
    BY <2>1, <2>2 DEF IsAligned
  <2> QED BY <2>1, <2>3
<1>2. ASSUME NEW s \in Seq(Characters), NEW x \in Characters, s \in P PROVE Append(s, x) \in P
  BY <1>2, AlignedAppend, AppendProperties
<1> HIDE DEF P
<1>3. \A t \in Seq(Characters) : t \in P
  BY <1>1, <1>2, SequenceInduction
<1> QED BY <1>3 DEF P

\* No symbol of a piece is the marker, for its characters would stand there.
LEMMA NoMarkerSymbol ==
  ASSUME IInv, BytesInv, MarkersInv, stage = "emit", NEW n \in DOMAIN symbols
  PROVE  symbols[n] # EndOfText
<1> SUFFICES ASSUME symbols[n] = EndOfText PROVE FALSE
  OBVIOUS
<1> DEFINE piece == SubSeq(segment, index, pieceEnd - 1)
           bytes == BytesOf(piece)
           front == FlattenSeq(SubSeq(symbols, 1, n - 1))
           back == FlattenSeq(SubSeq(symbols, n + 1, Len(symbols)))
           o == Len(front)
           L == Len(Marker)
<1>1. /\ segment \in Seq(Characters) /\ Len(segment) \in Nat /\ index \in Nat \ {0}
      /\ symbols \in Seq(Vocabulary) /\ Vocabulary \subseteq Seq(Alphabet)
      /\ Base \in Nat /\ \A k \in 1..Len(segment) : segment[k] = text[Base + k]
      /\ pieceEnd \in (index + 1)..(Len(segment) + 1)
      /\ FlattenSeq(symbols) = CodeOf(piece)
      /\ EndOfText \in Vocabulary
      /\ \A p \in Markers : p \notin (Base + 1)..(position - 1)
      /\ text \in Seq(Characters \cup {Invalid}) /\ Len(text) \in Nat
      /\ position - 1 \in 0..Len(text) /\ position \in Nat
  BY LenProperties DEF IInv, PieceInv, SegmentInv, TextInv, BytesInv, VocabularyInv, PlaceInv, SymbolsInv,
     MarkersInv, InSegment, InPiece
<1>2. /\ piece \in Seq(Characters) /\ Len(piece) = pieceEnd - index
      /\ \A k \in 1..(pieceEnd - index) : piece[k] = segment[index - 1 + k]
  <2>1. PICK last \in Int : last = pieceEnd - 1 /\ last <= Len(segment) /\ index <= last
    BY <1>1
  <2>2. \A k \in index..last : segment[k] \in Characters
    <3>1. \A k \in index..last : k \in 1..Len(segment)
      BY <1>1, <2>1
    <3> QED BY <1>1, <3>1, ElementOfSeq
  <2>3. /\ SubSeq(segment, index, last) \in Seq(Characters)
        /\ Len(SubSeq(segment, index, last)) = IF index <= last THEN last - index + 1 ELSE 0
        /\ \A i \in 1..(last - index + 1) : SubSeq(segment, index, last)[i] = segment[index + i - 1]
    BY <1>1, <2>2, SubSeqProperties
  <2>4. last - index + 1 = pieceEnd - index /\ pieceEnd \in Int
    BY <1>1, <2>1
  <2>5. \A k \in 1..(pieceEnd - index) : index + k - 1 = index - 1 + k
    BY <1>1, <2>4
  <2> QED BY <2>1, <2>3, <2>4, <2>5
<1>3. /\ symbols \in Seq(Seq(Alphabet)) /\ Len(symbols) \in Nat /\ n \in 1..Len(symbols)
      /\ EndOfText \in Seq(Alphabet)
  <2>1. Len(symbols) \in Nat /\ symbols \in [1..Len(symbols) -> Vocabulary] /\ n \in 1..Len(symbols)
    BY <1>1, LenProperties
  <2>2. symbols \in [1..Len(symbols) -> Seq(Alphabet)]
    BY <1>1, <2>1
  <2> QED BY <1>1, <2>1, <2>2, SeqDef
<1> HIDE DEF piece
<1>4. /\ front \in Seq(Alphabet) /\ back \in Seq(Alphabet)
      /\ CodeOf(piece) = (front \o EndOfText) \o back
  <2>1. /\ FlattenSeq(SubSeq(symbols, 1, n)) = front \o EndOfText
        /\ front \in Seq(Alphabet)
    BY <1>3, FlattenPrefix
  <2>2. SubSeq(symbols, 1, n) \in Seq(Seq(Alphabet))
    <3>1. \A k \in 1..n : symbols[k] \in Seq(Alphabet)
      <4>1. \A k \in 1..n : k \in 1..Len(symbols)
        BY <1>3
      <4> QED BY <1>3, <4>1, ElementOfSeq
    <3>2. n \in Int
      BY <1>3
    <3> QED BY <3>1, <3>2, SubSeqProperties
  <2>3. SubSeq(symbols, n + 1, Len(symbols)) \in Seq(Seq(Alphabet))
    <3>1. \A k \in (n + 1)..Len(symbols) : symbols[k] \in Seq(Alphabet)
      <4>1. \A k \in (n + 1)..Len(symbols) : k \in 1..Len(symbols)
        BY <1>3
      <4> QED BY <1>3, <4>1, ElementOfSeq
    <3>2. n + 1 \in Int /\ Len(symbols) \in Int
      BY <1>3
    <3> QED BY <3>1, <3>2, SubSeqProperties
  <2>4. symbols = SubSeq(symbols, 1, n) \o SubSeq(symbols, n + 1, Len(symbols))
    <3>1. 1 \in 1..(Len(symbols) + 1) /\ n \in (1 - 1)..Len(symbols) /\ Len(symbols) \in n..Len(symbols)
      BY <1>3
    <3>2. SubSeq(symbols, 1, n) \o SubSeq(symbols, n + 1, Len(symbols)) = SubSeq(symbols, 1, Len(symbols))
      BY <1>3, <3>1, ConcatAdjacentSubSeq
    <3>3. SubSeq(symbols, 1, Len(symbols)) = symbols
      BY <1>3, SubSeqFull
    <3> QED BY <3>2, <3>3
  <2>5. FlattenSeq(symbols) = FlattenSeq(SubSeq(symbols, 1, n)) \o back
    <3> DEFINE left == SubSeq(symbols, 1, n)
               right == SubSeq(symbols, n + 1, Len(symbols))
    <3>1. left \in Seq(Seq(Alphabet)) /\ right \in Seq(Seq(Alphabet)) /\ symbols = left \o right
      BY <2>2, <2>3, <2>4
    <3> HIDE DEF left, right
    <3>2. FlattenSeq(left \o right) = FlattenSeq(left) \o FlattenSeq(right)
      BY <3>1, FlattenConcat
    <3>3. FlattenSeq(symbols) = FlattenSeq(left) \o FlattenSeq(right)
      BY <3>1, <3>2
    <3> QED BY <3>3 DEF left, right
  <2>6. back \in Seq(Alphabet)
    BY <2>3, FlattenType
  <2> QED BY <1>1, <2>1, <2>5, <2>6
<1>5. /\ bytes \in Seq(Bytes) /\ Len(CodeOf(piece)) = Len(bytes)
      /\ \A k \in 1..Len(bytes) : CodeOf(piece)[k] = ByteToCodePoint(bytes[k])
  <2>1. bytes \in Seq(Bytes)
    BY <1>2, BytesType
  <2> HIDE DEF bytes
  <2> QED BY <2>1, CodedType DEF CodeOf, bytes
<1> HIDE DEF front, back, bytes
<1>6. /\ L \in Nat \ {0} /\ Len(EndOfText) = L /\ EndOfText \in Seq(Bytes)
      /\ \A k \in 1..L : EndOfText[k] = MarkerByte(k)
  BY MarkerTokenIs, MarkerBytes
<1>7. o \in Nat /\ Len(back) \in Nat
  BY <1>4, LenProperties
<1> HIDE DEF o, L
<1>8. o + L <= Len(bytes) /\ \A j \in 1..L : CodeOf(piece)[o + j] = EndOfText[j]
  <2>1. /\ front \o EndOfText \in Seq(Alphabet) /\ Len(front \o EndOfText) = o + L
        /\ \A i \in 1..(o + L) : (front \o EndOfText)[i] = IF i <= o THEN front[i] ELSE EndOfText[i - o]
    <3>1. front \in Seq(Alphabet) /\ EndOfText \in Seq(Alphabet) /\ Len(EndOfText) = L
      BY <1>3, <1>4, <1>6
    <3> QED BY ONLY <3>1, ConcatProperties DEF o
  <2> DEFINE w == front \o EndOfText
  <2>2. w \in Seq(Alphabet) /\ Len(w) = o + L
    BY <2>1
  <2>3. \A j \in 1..L : w[o + j] = EndOfText[j]
    <3> SUFFICES ASSUME NEW j \in 1..L PROVE w[o + j] = EndOfText[j]
      OBVIOUS
    <3>1. j \in Nat \ {0} /\ j <= L /\ L \in Nat /\ o \in Nat
      BY <1>6, <1>7
    <3>2. o + j \in 1..(o + L)
      BY <3>1
    <3>3. ~(o + j <= o) /\ (o + j) - o = j
      BY <3>1
    <3> HIDE DEF w
    <3>4. w[o + j] = IF o + j <= o THEN front[o + j] ELSE EndOfText[(o + j) - o]
      BY <2>1, <3>2 DEF w
    <3> QED BY <3>3, <3>4
  <2>4. CodeOf(piece) = w \o back
    BY <1>4
  <2> HIDE DEF w
  <2>5. /\ Len(w \o back) = Len(w) + Len(back)
        /\ \A i \in 1..(Len(w) + Len(back)) : (w \o back)[i] = IF i <= Len(w) THEN w[i] ELSE back[i - Len(w)]
    BY <1>4, <2>2, ConcatProperties
  <2>6. \A j \in 1..L : o + j \in 1..(Len(w) + Len(back)) /\ o + j <= Len(w)
    BY <1>6, <1>7, <2>2
  <2>7. \A j \in 1..L : CodeOf(piece)[o + j] = w[o + j]
    BY <2>4, <2>5, <2>6
  <2>8. o + L <= Len(bytes)
    BY <1>5, <1>6, <1>7, <2>2, <2>4, <2>5
  <2> QED BY <2>3, <2>7, <2>8
<1>9. BytesStandIn(bytes, L, o)
  <2>1. ASSUME NEW j \in 1..L PROVE bytes[o + j] = MarkerByte(j)
    <3>1. o + j \in 1..Len(bytes)
      <4>1. Len(bytes) \in Nat
        BY <1>5, LenProperties
      <4> QED BY <1>6, <1>7, <1>8, <4>1
    <3>2. bytes[o + j] \in Bytes
      BY <1>5, <3>1, ElementOfSeq
    <3>3. EndOfText[j] \in Bytes /\ EndOfText[j] \in Alphabet /\ EndOfText[j] = MarkerByte(j)
      BY <1>3, <1>6, ElementOfSeq
    <3>4. ByteToCodePoint(bytes[o + j]) = EndOfText[j]
      BY <1>5, <1>8, <3>1
    <3>5. ByteToCodePoint(EndOfText[j]) = EndOfText[j]
      BY <3>3, CodePoints
    <3>6. bytes[o + j] = EndOfText[j]
      BY <3>2, <3>3, <3>4, <3>5, CodePoints
    <3> QED BY <3>3, <3>6
  <2> QED BY <1>8, <2>1 DEF BytesStandIn
<1>10. PICK p \in Nat : p + L <= Len(piece) /\ \A j \in 1..L : piece[p + j] = Marker[j]
  <2>1. IsAligned(piece)
    BY <1>2, TextsAreAligned
  <2>2. L \in 0..Len(Marker)
    BY <1>6 DEF L
  <2>3. \E p \in Nat : StandsIn(piece, L, p)
    BY <1>7, <1>9, <2>1, <2>2 DEF IsAligned, bytes
  <2> QED BY <2>3 DEF StandsIn
<1> DEFINE q == Base + index + p
<1>11. /\ q \in 1..Len(text) /\ q + L - 1 <= Len(text) /\ q \in (Base + 1)..(position - 1)
       /\ \A j \in 1..L : text[q + j - 1] = Marker[j]
  <2>1. p + L <= pieceEnd - index /\ pieceEnd <= Len(segment) + 1 /\ pieceEnd \in Int
    BY <1>1, <1>2, <1>10
  <2>2. Base + Len(segment) = position - 1 /\ position - 1 <= Len(text)
    BY <1>1 DEF Base
  <2>3. q + L - 1 <= Base + Len(segment) /\ q >= Base + 1 /\ q \in Nat
    BY <1>1, <1>6, <2>1
  <2>4. ASSUME NEW j \in 1..L PROVE text[q + j - 1] = Marker[j]
    <3>1. p + j \in 1..(pieceEnd - index) /\ index - 1 + (p + j) \in 1..Len(segment)
          /\ Base + (index - 1 + (p + j)) = q + j - 1
      BY <1>1, <1>6, <2>1
    <3>2. piece[p + j] = segment[index - 1 + (p + j)]
      BY <1>2, <3>1
    <3>3. segment[index - 1 + (p + j)] = text[Base + (index - 1 + (p + j))]
      BY <1>1, <3>1
    <3> QED BY <1>10, <3>1, <3>2, <3>3
  <2> HIDE DEF q
  <2>5. q \in 1..Len(text) /\ q + L - 1 <= Len(text) /\ q \in (Base + 1)..(position - 1)
    BY <1>1, <1>6, <2>2, <2>3
  <2> QED BY <2>4, <2>5
<1> HIDE DEF q
<1>12. SubSeq(text, q, q + L - 1) = Marker
  <2> DEFINE last == q + L - 1
             sub == SubSeq(text, q, last)
  <2>1. q \in Int /\ last \in Int /\ last <= Len(text) /\ q >= 1 /\ q <= last /\ last - q + 1 = L
    BY <1>1, <1>6, <1>11
  <2> HIDE DEF last
  <2>2. \A k \in q..last : text[k] \in Characters \cup {Invalid}
    <3>1. \A k \in q..last : k \in 1..Len(text)
      BY <1>1, <2>1
    <3> QED BY <1>1, <3>1, ElementOfSeq
  <2>3. /\ sub \in Seq(Characters \cup {Invalid})
        /\ Len(sub) = IF q <= last THEN last - q + 1 ELSE 0
        /\ \A i \in 1..(last - q + 1) : sub[i] = text[q + i - 1]
    BY <2>1, <2>2, SubSeqProperties
  <2>4. Len(sub) = L /\ \A i \in 1..L : sub[i] = Marker[i]
    BY <1>11, <2>1, <2>3
  <2>5. Marker \in Seq(Characters \cup {Invalid}) /\ Len(Marker) = L
    <3>1. Marker \in [1..Len(Marker) -> Characters] /\ Len(Marker) \in Nat
      BY MarkerBytes, LenProperties
    <3>2. Marker \in [1..Len(Marker) -> Characters \cup {Invalid}]
      BY <3>1
    <3> QED BY <3>1, <3>2, SeqDef DEF L
  <2>6. sub = Marker
    <3> HIDE DEF sub
    <3> QED BY <2>3, <2>4, <2>5, SeqEqual
  <2> QED BY <2>6 DEF last
<1>13. q \in Markers
  <2>1. q \in 1..(Len(text) - L + 1)
    BY <1>1, <1>6, <1>11
  <2> QED BY <1>12, <2>1 DEF Markers, L
<1> QED BY <1>1, <1>11, <1>13


\* Where the markers of a text are, and that no two of them overlap.
LEMMA MarkersAre ==
  ASSUME text \in Seq(Characters \cup {Invalid})
  PROVE  /\ IsFiniteSet(Markers) /\ Markers \subseteq 1..Len(text)
         /\ \A p \in Nat \ {0} : IsMarker(p) <=> p \in Markers
         /\ \A p \in Markers : \A k \in 1..Len(Marker) : text[p + k - 1] = Marker[k]
<1>1. Len(text) \in Nat /\ Len(Marker) \in Nat \ {0}
  BY LenProperties, MarkerBytes
<1>2. Markers \subseteq 1..Len(text)
  BY <1>1 DEF Markers
<1>3. IsFiniteSet(Markers)
  <2>1. IsFiniteSet(1..Len(text))
    <3>1. 1 \in Int /\ Len(text) \in Int
      BY <1>1
    <3> QED BY <3>1, FS_Interval
  <2> QED BY <1>2, <2>1, FS_Subset
<1>4. \A p \in Nat \ {0} : IsMarker(p) <=> p \in Markers
  BY <1>1 DEF Markers, IsMarker
<1>5. ASSUME NEW p \in Markers PROVE \A k \in 1..Len(Marker) : text[p + k - 1] = Marker[k]
  <2>0. p \in 1..(Len(text) - Len(Marker) + 1) /\ SubSeq(text, p, p + Len(Marker) - 1) = Marker
    BY DEF Markers
  <2> DEFINE last == p + Len(Marker) - 1
  <2>1. last \in Int /\ last = p + Len(Marker) - 1 /\ last <= Len(text) /\ p \in Int /\ p >= 1
    BY <1>1, <2>0
  <2> HIDE DEF last
  <2>2. SubSeq(text, p, last) = Marker
    BY <2>0, <2>1
  <2>3. \A k \in p..last : text[k] \in Characters \cup {Invalid}
    <3>1. \A k \in p..last : k \in 1..Len(text)
      BY <1>1, <2>1
    <3> QED BY <3>1, ElementOfSeq
  <2>4. \A i \in 1..(last - p + 1) : SubSeq(text, p, last)[i] = text[p + i - 1]
    BY <2>1, <2>3, SubSeqProperties
  <2>5. last - p + 1 = Len(Marker)
    BY <1>1, <2>1
  <2> QED BY <2>2, <2>4, <2>5
<1> QED BY <1>2, <1>3, <1>4, <1>5

LEMMA MarkersApart ==
  ASSUME text \in Seq(Characters \cup {Invalid}), NEW p \in Markers, NEW q \in Markers, p < q
  PROVE  p + Len(Marker) <= q
<1>1. p \in Nat /\ q \in Nat /\ Len(Marker) \in Nat \ {0}
  <2>1. Len(text) \in Nat
    BY LenProperties
  <2> QED BY <2>1, MarkersAre, MarkerBytes
<1> SUFFICES ASSUME ~(p + Len(Marker) <= q) PROVE FALSE
  OBVIOUS
<1>2. /\ q - p + 1 \in 2..Len(Marker) /\ q - p + 1 \in 1..Len(Marker) /\ 1 \in 1..Len(Marker)
      /\ p + (q - p + 1) - 1 = q /\ q + 1 - 1 = q
  BY <1>1
<1>3. text[p + (q - p + 1) - 1] = Marker[q - p + 1] /\ text[q + 1 - 1] = Marker[1]
  BY <1>2, MarkersAre
<1>4. Marker[q - p + 1] # Marker[1]
  BY <1>2, TextAssumption DEF TextAssumption
<1> QED BY <1>2, <1>3, <1>4

\* There is no marker between the position and the next one.
LEMMA NextMarkerIsNext ==
  ASSUME text \in Seq(Characters \cup {Invalid}), position \in Nat \ {0}
  PROVE  \A p \in Markers : p >= position => p >= NextMarker
<1> DEFINE markers == {p \in position..Len(text) : IsMarker(p)}
<1>1. Len(text) \in Nat
  BY LenProperties
<1> SUFFICES ASSUME NEW p \in Markers, p >= position PROVE p >= NextMarker
  OBVIOUS
<1>2. p \in markers
  <2>1. p \in 1..Len(text) /\ p \in Nat \ {0}
    BY <1>1, MarkersAre
  <2>2. IsMarker(p)
    BY <2>1, MarkersAre
  <2> QED BY <1>1, <2>1, <2>2
<1>3. markers \in SUBSET Nat
  BY <1>1
<1>4. NextMarker = First(markers)
  <2> HIDE DEF markers
  <2> QED BY <1>2 DEF NextMarker, markers
<1> HIDE DEF markers
<1>5. First(markers) \in Nat /\ First(markers) <= p
  BY <1>2, <1>3, FirstIsLeast
<1>6. p \in Nat
  BY <1>2, <1>3
<1> QED BY <1>4, <1>5, <1>6

LEMMA MarkersStartSegmentInv ==
  ASSUME IInv, BytesInv, MarkersInv, StartSegment
  PROVE  MarkersInv'
<1>1. /\ stage = "segment" /\ stage' \in {"piece", "invalid"} /\ UNCHANGED <<text, tokenIds, tokenToId>>
      /\ position' = NextMarker /\ segment' = SubSeq(text, position, NextMarker - 1)
  BY DEF StartSegment, tables, tableVars
<1>2. /\ text \in Seq(Characters \cup {Invalid}) /\ position \in Nat \ {0} /\ Len(text) \in Nat
      /\ position - 1 \in 0..Len(text)
      /\ Cardinality(MarkerTokens) = Cardinality(MarkersBefore(position))
  BY <1>1, LenProperties DEF IInv, TextInv, BytesInv, PlaceInv, MarkersInv
<1>3. PICK end \in Nat \ {0} : end = NextMarker /\ end <= Len(text) + 1 /\ end >= position
  BY <1>2, NextMarkerRange, NextMarkerIs
<1>4. Markers' = Markers /\ MarkerTokens' = MarkerTokens
  BY <1>1 DEF Markers, MarkerTokens
<1>5. \A p \in Markers : p \in Nat /\ (p >= position => p >= end)
  <2>1. \A p \in Markers : p \in Nat
    BY <1>2, MarkersAre
  <2> QED BY <1>2, <1>3, <2>1, NextMarkerIsNext
<1>6. MarkersBefore(position)' = MarkersBefore(position)
  <2>1. MarkersBefore(end) = MarkersBefore(position)
    BY <1>2, <1>3, <1>5 DEF MarkersBefore
  <2> QED BY <1>1, <1>3, <1>4, <2>1 DEF MarkersBefore
<1>7. \A p \in Markers' : p \notin (Base' + 1)..(position' - 1)
  <2>1. Len(segment') = end - position
    <3>1. \A k \in position..(end - 1) : text[k] \in Characters \cup {Invalid}
      <4>1. \A k \in position..(end - 1) : k \in 1..Len(text)
        BY <1>2, <1>3
      <4> QED BY <1>2, <4>1, ElementOfSeq
    <3>2. Len(segment') = IF position <= end - 1 THEN (end - 1) - position + 1 ELSE 0
      <4>1. position \in Int /\ end - 1 \in Int
        BY <1>2
      <4>2. segment' = SubSeq(text, position, end - 1)
        BY <1>1, <1>3
      <4> QED BY <3>1, <4>1, <4>2, SubSeqProperties
    <3> QED BY <1>2, <1>3, <3>2
  <2>2. Base' + 1 = position /\ position' = end
    BY <1>1, <1>2, <1>3, <2>1 DEF Base
  <2> QED BY <1>2, <1>3, <1>4, <1>5, <2>2
<1> QED BY <1>1, <1>2, <1>4, <1>6, <1>7 DEF MarkersInv

LEMMA MarkersEmitTokensInv ==
  ASSUME IInv, BytesInv, MarkersInv, EmitTokens
  PROVE  MarkersInv'
<1>1. symbols \in Seq(Vocabulary) /\ Len(symbols) \in Nat /\ DOMAIN symbols = 1..Len(symbols)
  BY LenProperties DEF EmitTokens, IInv, PieceInv, InPiece
<1>2. \A k \in DOMAIN symbols : symbols[k] \in Vocabulary
  BY <1>1, ElementOfSeq
<1>3. /\ stage = "emit" /\ stage' = "piece" /\ UNCHANGED <<text, position, segment, tokenToId>>
      /\ tokenIds' = tokenIds \o Each(tokenToId, symbols)
  BY <1>2 DEF EmitTokens, textVars, Each, tables, tableVars
<1> DEFINE new == Each(tokenToId, symbols)
           marker == tokenToId[EndOfText]
<1>4. tokenIds \in Seq(Ids) /\ Len(tokenIds) \in Nat
  BY <1>3, LenProperties DEF BytesInv, TokensInv, InSegment, InPiece
<1>5. /\ Maps(tokenToId, Vocabulary, Ids) /\ EndOfText \in Vocabulary
      /\ \A token \in Vocabulary : idToToken[tokenToId[token]] = token
  BY <1>3, TokensAreCoded DEF BytesInv, Loaded
<1>6. new \in Seq(Ids) /\ Len(new) = Len(symbols) /\ \A k \in 1..Len(symbols) : new[k] = tokenToId[symbols[k]]
  BY <1>1, <1>5, EachType
<1> HIDE DEF new
<1>7. \A k \in 1..Len(new) : new[k] # marker
  <2> SUFFICES ASSUME NEW k \in 1..Len(symbols), tokenToId[symbols[k]] = tokenToId[EndOfText] PROVE FALSE
    BY <1>6
  <2>1. symbols[k] = EndOfText
    BY <1>1, <1>2, <1>5
  <2>2. k \in DOMAIN symbols
    BY <1>1
  <2> QED BY <1>3, <2>1, <2>2, NoMarkerSymbol
<1> HIDE DEF marker
<1>8. {k \in DOMAIN tokenIds' : tokenIds'[k] = marker} = {k \in DOMAIN tokenIds : tokenIds[k] = marker}
  <2>0. /\ tokenIds \o new \in Seq(Ids) /\ Len(tokenIds \o new) = Len(tokenIds) + Len(new)
        /\ \A i \in 1..(Len(tokenIds) + Len(new)) :
             (tokenIds \o new)[i] = IF i <= Len(tokenIds) THEN tokenIds[i] ELSE new[i - Len(tokenIds)]
    BY <1>4, <1>6, ConcatProperties
  <2>1. /\ DOMAIN (tokenIds \o new) = 1..(Len(tokenIds) + Len(new)) /\ DOMAIN tokenIds = 1..Len(tokenIds)
        /\ \A i \in 1..(Len(tokenIds) + Len(new)) :
             (tokenIds \o new)[i] = IF i <= Len(tokenIds) THEN tokenIds[i] ELSE new[i - Len(tokenIds)]
    BY <1>4, <2>0, LenProperties
  <2>2. Len(new) \in Nat
    BY <1>1, <1>6
  <2>3. \A i \in 1..(Len(tokenIds) + Len(new)) : (tokenIds \o new)[i] = marker => i <= Len(tokenIds)
    <3>1. \A i \in 1..(Len(tokenIds) + Len(new)) : ~(i <= Len(tokenIds)) => i - Len(tokenIds) \in 1..Len(new)
      BY <1>4, <2>2
    <3> QED BY <1>7, <2>1, <3>1
  <2>4. \A i \in 1..Len(tokenIds) : i \in 1..(Len(tokenIds) + Len(new)) /\ i <= Len(tokenIds)
    BY <1>4, <2>2
  <2>5. \A i \in 1..(Len(tokenIds) + Len(new)) : i <= Len(tokenIds) => i \in 1..Len(tokenIds)
    BY <1>4
  <2>6. \A i \in 1..Len(tokenIds) : (tokenIds \o new)[i] = tokenIds[i]
    BY <2>1, <2>4
  <2>7. tokenIds' = tokenIds \o new
    BY <1>3 DEF new
  <2> QED BY <2>1, <2>3, <2>4, <2>5, <2>6, <2>7
<1>9. MarkerTokens' = MarkerTokens
  <2>1. marker = tokenToId'[EndOfText]
    BY <1>3 DEF marker
  <2> QED BY <1>8, <2>1 DEF MarkerTokens, marker
<1>10. Markers' = Markers /\ MarkersBefore(position)' = MarkersBefore(position) /\ Base' = Base
  BY <1>3 DEF Markers, MarkersBefore, Base
<1> QED BY <1>3, <1>9, <1>10 DEF MarkersInv, InSegment, InPiece

LEMMA MarkersEndSegmentInv ==
  ASSUME IInv, BytesInv, MarkersInv, EndSegment
  PROVE  MarkersInv'
<1>1. /\ stage = "piece" /\ UNCHANGED <<text, tokenToId>>
      /\ \/ /\ position <= Len(text) /\ stage' = "segment"
            /\ position' = position + Len(Marker)
            /\ tokenIds' = Append(tokenIds, tokenToId[EndOfText])
         \/ /\ ~(position <= Len(text)) /\ stage' = "encoded"
            /\ UNCHANGED <<tokenIds, position>>
  BY DEF EndSegment, tables, tableVars
<1>2. /\ text \in Seq(Characters \cup {Invalid}) /\ Len(text) \in Nat /\ position \in Nat \ {0}
      /\ tokenIds \in Seq(Ids) /\ Len(tokenIds) \in Nat /\ DOMAIN tokenIds = 1..Len(tokenIds)
      /\ position <= Len(text) => IsMarker(position)
      /\ Cardinality(MarkerTokens) = Cardinality(MarkersBefore(position))
      /\ Len(Marker) \in Nat \ {0}
  BY <1>1, LenProperties, MarkerBytes DEF IInv, TextInv, BytesInv, PlaceInv, TokensInv, MarkersInv, InSegment
<1>3. /\ Markers' = Markers
      /\ \A p \in Markers : p \in Nat \ {0} /\ p <= Len(text)
      /\ IsFiniteSet(Markers)
  <2>1. Markers' = Markers
    BY <1>1 DEF Markers
  <2>2. Markers \subseteq 1..Len(text) /\ IsFiniteSet(Markers)
    BY <1>2, MarkersAre
  <2> QED BY <1>2, <2>1, <2>2
<1>4. CASE ~(position <= Len(text))
  <2>1. MarkersBefore(position) = Markers
    BY <1>2, <1>3, <1>4 DEF MarkersBefore
  <2>2. MarkerTokens' = MarkerTokens
    BY <1>1, <1>4 DEF MarkerTokens
  <2> QED BY <1>1, <1>2, <1>3, <1>4, <2>1, <2>2 DEF MarkersInv, InSegment, InPiece
<1>5. CASE position <= Len(text)
  <2>1. position \in Markers
    BY <1>2, <1>5, MarkersAre
  <2>2. MarkersBefore(position + Len(Marker)) = MarkersBefore(position) \cup {position}
    <3>1. ASSUME NEW p \in Markers PROVE p < position + Len(Marker) <=> p < position \/ p = position
      <4>1. position < p => position + Len(Marker) <= p
        BY <1>2, <2>1, MarkersApart
      <4> QED BY <1>2, <1>3, <4>1
    <3> QED BY <2>1, <3>1 DEF MarkersBefore
  <2>3. Cardinality(MarkersBefore(position + Len(Marker))) = Cardinality(MarkersBefore(position)) + 1
    <3>1. IsFiniteSet(MarkersBefore(position))
      BY <1>3, FS_Subset DEF MarkersBefore
    <3>2. position \notin MarkersBefore(position)
      BY <1>2 DEF MarkersBefore
    <3> QED BY <2>2, <3>1, <3>2, FS_AddElement
  <2>4. MarkerTokens' = MarkerTokens \cup {Len(tokenIds) + 1}
    <3> DEFINE marker == tokenToId[EndOfText]
               new == Append(tokenIds, marker)
    <3>1. /\ DOMAIN new = 1..(Len(tokenIds) + 1) /\ new[Len(tokenIds) + 1] = marker
          /\ \A k \in 1..Len(tokenIds) : new[k] = tokenIds[k]
      <4>1. new \in Seq(Ids) /\ Len(new) = Len(tokenIds) + 1
        <5>1. marker \in Ids
          <6>1. VocabularyInv /\ Loaded
            BY <1>1 DEF BytesInv, Loaded
          <6>2. EndOfText \in Vocabulary
            BY <6>1, TokensAreCoded
          <6> QED BY <6>2 DEF Ids
        <5> QED BY <1>2, <5>1, AppendProperties
      <4> QED BY <1>2, <4>1, AppendProperties, LenProperties
    <3>2. tokenIds' = new /\ tokenToId'[EndOfText] = marker
      BY <1>1, <1>5
    <3>3. 1..(Len(tokenIds) + 1) = 1..Len(tokenIds) \cup {Len(tokenIds) + 1}
      BY <1>2
    <3>4. {k \in DOMAIN new : new[k] = marker} = {k \in DOMAIN tokenIds : tokenIds[k] = marker} \cup {Len(tokenIds) + 1}
      <4> HIDE DEF new, marker
      <4> QED BY <1>2, <3>1, <3>3
    <3> HIDE DEF new
    <3> QED BY <3>2, <3>4 DEF MarkerTokens
  <2>5. Cardinality(MarkerTokens') = Cardinality(MarkerTokens) + 1
    <3>1. MarkerTokens \subseteq 1..Len(tokenIds)
      BY <1>2 DEF MarkerTokens
    <3>2. IsFiniteSet(MarkerTokens)
      <4>1. 1 \in Int /\ Len(tokenIds) \in Int
        BY <1>2
      <4> QED BY <3>1, <4>1, FS_Interval, FS_Subset
    <3>3. Len(tokenIds) + 1 \notin MarkerTokens
      BY <1>2, <3>1
    <3> QED BY <2>4, <3>2, <3>3, FS_AddElement
  <2>6. MarkersBefore(position)' = MarkersBefore(position + Len(Marker))
    BY <1>1, <1>3, <1>5 DEF MarkersBefore
  <2> QED BY <1>1, <1>2, <1>5, <2>3, <2>5, <2>6 DEF MarkersInv, InSegment, InPiece
<1> QED BY <1>4, <1>5

LEMMA MarkersNextInv == IInv /\ BytesInv /\ MarkersInv /\ [Next]_vars => MarkersInv'
<1> SUFFICES ASSUME IInv, BytesInv, MarkersInv, [Next]_vars PROVE MarkersInv'
  OBVIOUS
<1>1. CASE Load
  <2>1. stage' \in {"vocabulary", "merges", "loaded", "rejected"}
    BY <1>1 DEF Load, LoadStep, ReadEntry, IndexVocabulary, ReadLine, FinishLoad, RejectTables
  <2> QED BY <2>1 DEF MarkersInv, InSegment, InPiece
<1>2. ASSUME NEW t \in Texts(mergesFile), Encode(t) PROVE MarkersInv'
  <2>1. stage' = "segment" /\ position' = 1 /\ tokenIds' = tokenIds /\ tokenIds = <<>> /\ text' = t
    BY <1>2 DEF Encode, BytesInv, TokensInv
  <2>2. MarkerTokens' = {} /\ MarkersBefore(position)' = {}
    <3>1. MarkerTokens' = {}
      BY <2>1 DEF MarkerTokens
    <3>2. text' \in Seq(Characters \cup {Invalid}) /\ Len(text') \in Nat
      BY <1>2, EncodeInv, LenProperties DEF IInv, TextInv
    <3>3. Len(Marker) \in Nat
      BY MarkerBytes
    <3>4. \A p \in Markers' : ~(p < 1)
      BY <3>2, <3>3 DEF Markers
    <3> QED BY <2>1, <3>1, <3>4 DEF MarkersBefore
  <2> QED BY <2>1, <2>2 DEF MarkersInv, InSegment, InPiece
<1>3. CASE StartSegment BY <1>3, MarkersStartSegmentInv
<1>4. CASE EmitTokens BY <1>4, MarkersEmitTokensInv
<1>5. CASE EndSegment BY <1>5, MarkersEndSegmentInv
<1>6. CASE StartPiece \/ FindPair \/ Sweep \/ EndSweep
  <2>1. /\ InSegment /\ InSegment' /\ stage' \notin {"segment", "encoded"}
        /\ UNCHANGED <<text, position, segment, tokenIds, tokenToId>>
    BY <1>6 DEF StartPiece, FindPair, Sweep, EndSweep, textVars, pieceVars, tables, tableVars, InSegment, InPiece
  <2>2. /\ Markers' = Markers /\ MarkersBefore(position)' = MarkersBefore(position)
        /\ Base' = Base /\ MarkerTokens' = MarkerTokens
    BY <2>1 DEF Markers, MarkersBefore, Base, MarkerTokens
  <2> QED BY <2>1, <2>2 DEF MarkersInv
<1>7. ASSUME NEW ids \in DecodeArguments, Decode(ids) PROVE MarkersInv'
  <2>1. stage' \in {"decoded", "out_of_range"}
    BY <1>7 DEF Decode
  <2> QED BY <2>1 DEF MarkersInv, InSegment, InPiece
<1>8. CASE UNCHANGED vars
  <2>1. UNCHANGED <<stage, text, position, segment, tokenIds, tokenToId>>
    BY <1>8 DEF vars, loaderVars, tableVars, textVars, pieceVars
  <2>2. /\ Markers' = Markers /\ MarkersBefore(position)' = MarkersBefore(position)
        /\ Base' = Base /\ MarkerTokens' = MarkerTokens
    BY <2>1 DEF Markers, MarkersBefore, Base, MarkerTokens
  <2> QED BY <2>1, <2>2 DEF MarkersInv, InSegment, InPiece
<1> QED
  BY <1>1, <1>2, <1>3, <1>4, <1>5, <1>6, <1>7, <1>8 DEF Next, Ended

\* Whatever the rules and the text, encode returns one marker token for each
\* marker in the text: the merges never make one, the splitting never drops one.
THEOREM MarkerIsAlwaysOnlyFromText == Spec => []MarkerIsOnlyFromText
<1>1. Init => MarkersInv
  BY DEF Init, LoaderInit, MarkersInv, InSegment, InPiece
<1>2. MarkersInv => MarkerIsOnlyFromText
  BY DEF MarkersInv, MarkerIsOnlyFromText, MarkerTokens, Markers
<1> QED BY InitInv, NextInv, BytesInitInv, BytesNextInv, MarkersNextInv, <1>1, <1>2, PTL DEF Spec

-----------------------------------------------------------------------------
(* Merging a pair everywhere against merging one pair at a time. *)

Ranks(rules, list) ==
  {r \in DOMAIN rules : \E k \in 1..(Len(list) - 1) : rules[r] = <<list[k], list[k + 1]>>}

\* The two symbols at p and p + 1 of one list are one symbol of the other.
IsMerged(list, p, merged) ==
  /\ Len(merged) = Len(list) - 1
  /\ \A k \in 1..Len(merged) :
       merged[k] = IF k < p THEN list[k]
                   ELSE IF k = p THEN list[p] \o list[p + 1] ELSE list[k + 1]

\* A pair that has the lowest rank of a list, and p is the first place it is at.
IsNext(rules, list, r, p) ==
  /\ r \in DOMAIN rules /\ \A s \in Ranks(rules, list) : r <= s
  /\ p \in 1..(Len(list) - 1) /\ rules[r] = <<list[p], list[p + 1]>>
  /\ \A k \in 1..(p - 1) : rules[r] # <<list[k], list[k + 1]>>

Inserted(list, p) ==
  SubSeq(list, 1, p - 1) \o <<list[p] \o list[p + 1]>> \o SubSeq(list, p + 2, Len(list))

LEMMA InsertedIsMerged ==
  ASSUME NEW S, NEW list \in Seq(S), NEW p \in 1..(Len(list) - 1), list[p] \o list[p + 1] \in S
  PROVE  Inserted(list, p) \in Seq(S) /\ IsMerged(list, p, Inserted(list, p))
<1> DEFINE n == Len(list)
           left == SubSeq(list, 1, p - 1)
           middle == <<list[p] \o list[p + 1]>>
           right == SubSeq(list, p + 2, n)
<1>1. n \in Nat /\ p \in Nat /\ p >= 1 /\ p + 1 <= n
  BY LenProperties
<1>2. \A k \in 1..n : list[k] \in S
  BY ElementOfSeq
<1>3. left \in Seq(S) /\ Len(left) = p - 1 /\ \A k \in 1..(p - 1) : left[k] = list[k]
  <2>1. 1 \in Int /\ p - 1 \in Int /\ \A k \in 1..(p - 1) : k \in 1..n
    BY <1>1
  <2>2. \A k \in 1..(p - 1) : list[k] \in S
    BY <1>2, <2>1
  <2>3. /\ left \in Seq(S) /\ Len(left) = IF 1 <= p - 1 THEN (p - 1) - 1 + 1 ELSE 0
        /\ \A k \in 1..((p - 1) - 1 + 1) : left[k] = list[1 + k - 1]
    BY <2>1, <2>2, SubSeqProperties
  <2> HIDE DEF left
  <2>4. Len(left) = p - 1
    BY <1>1, <2>3
  <2>5. \A k \in 1..(p - 1) : k \in 1..((p - 1) - 1 + 1) /\ 1 + k - 1 = k
    BY <1>1
  <2> QED BY <2>3, <2>4, <2>5
<1>4. right \in Seq(S) /\ Len(right) = n - p - 1 /\ \A k \in 1..(n - p - 1) : right[k] = list[p + 1 + k]
  <2>1. p + 2 \in Int /\ n \in Int /\ \A k \in (p + 2)..n : k \in 1..n
    BY <1>1
  <2>2. \A k \in (p + 2)..n : list[k] \in S
    BY <1>2, <2>1
  <2>3. /\ right \in Seq(S) /\ Len(right) = IF p + 2 <= n THEN n - (p + 2) + 1 ELSE 0
        /\ \A k \in 1..(n - (p + 2) + 1) : right[k] = list[p + 2 + k - 1]
    BY <2>1, <2>2, SubSeqProperties
  <2> HIDE DEF right, n
  <2>4. Len(right) = n - p - 1
    BY <1>1, <2>3
  <2>5. \A k \in 1..(n - p - 1) : k \in 1..(n - (p + 2) + 1) /\ p + 2 + k - 1 = p + 1 + k
    BY <1>1
  <2> QED BY <2>3, <2>4, <2>5
<1>5. middle \in Seq(S) /\ Len(middle) = 1 /\ middle[1] = list[p] \o list[p + 1]
  <2>1. \A e \in S : <<e>> \in Seq(S) /\ Len(<<e>>) = 1 /\ <<e>>[1] = e
    OBVIOUS
  <2> QED BY <2>1
<1> DEFINE both == left \o middle
           all == both \o right
<1>6. Inserted(list, p) = all
  BY DEF Inserted
<1> HIDE DEF left, middle, right, n
<1>7. /\ both \in Seq(S) /\ Len(both) = p
      /\ \A k \in 1..p : both[k] = IF k < p THEN list[k] ELSE list[p] \o list[p + 1]
  <2>0. /\ both \in Seq(S) /\ Len(both) = Len(left) + Len(middle)
        /\ \A k \in 1..(Len(left) + Len(middle)) :
             both[k] = IF k <= Len(left) THEN left[k] ELSE middle[k - Len(left)]
    BY <1>3, <1>5, ConcatProperties
  <2> HIDE DEF both
  <2>1. /\ both \in Seq(S) /\ Len(both) = (p - 1) + 1
        /\ \A k \in 1..((p - 1) + 1) : both[k] = IF k <= p - 1 THEN left[k] ELSE middle[k - (p - 1)]
    BY <1>3, <1>5, <2>0
  <2>2. ASSUME NEW k \in 1..p PROVE both[k] = IF k < p THEN list[k] ELSE list[p] \o list[p + 1]
    <3>1. k \in 1..((p - 1) + 1)
      BY <1>1
    <3>2. CASE k < p
      <4>1. k <= p - 1 /\ k \in 1..(p - 1)
        BY <1>1, <3>2
      <4> QED BY <1>3, <2>1, <3>1, <3>2, <4>1
    <3>3. CASE ~(k < p)
      <4>1. ~(k <= p - 1) /\ k - (p - 1) = 1
        BY <1>1, <3>3
      <4> QED BY <1>5, <2>1, <3>1, <3>3, <4>1
    <3> QED BY <3>2, <3>3
  <2> QED BY <1>1, <2>1, <2>2
<1> HIDE DEF both
<1>8. /\ all \in Seq(S) /\ Len(all) = p + (n - p - 1)
      /\ \A k \in 1..(p + (n - p - 1)) : all[k] = IF k <= p THEN both[k] ELSE right[k - p]
  <2>1. /\ all \in Seq(S) /\ Len(all) = Len(both) + Len(right)
        /\ \A k \in 1..(Len(both) + Len(right)) :
             all[k] = IF k <= Len(both) THEN both[k] ELSE right[k - Len(both)]
    BY <1>4, <1>7, ConcatProperties
  <2> QED BY <1>4, <1>7, <2>1
<1> HIDE DEF all
<1>9. Len(all) = n - 1
  BY <1>1, <1>8
<1>10. ASSUME NEW k \in 1..(n - 1)
       PROVE  all[k] = IF k < p THEN list[k] ELSE IF k = p THEN list[p] \o list[p + 1] ELSE list[k + 1]
  <2>1. k \in 1..(p + (n - p - 1))
    BY <1>1
  <2>2. CASE k <= p
    <3>1. k \in 1..p /\ (~(k < p) => k = p)
      BY <1>1, <2>2
    <3> QED BY <1>7, <1>8, <2>1, <2>2, <3>1
  <2>3. CASE ~(k <= p)
    <3>1. k - p \in 1..(n - p - 1) /\ p + 1 + (k - p) = k + 1 /\ ~(k < p) /\ k # p
      BY <1>1, <2>3
    <3>2. right[k - p] = list[p + 1 + (k - p)]
      BY <1>4, <3>1
    <3>3. right[k - p] = list[k + 1]
      BY <3>1, <3>2
    <3>4. all[k] = right[k - p]
      BY <1>8, <2>1, <2>3
    <3> QED BY <3>1, <3>3, <3>4
  <2> QED BY <2>2, <2>3
<1> QED BY <1>6, <1>8, <1>9, <1>10 DEF IsMerged, n

LEMMA MergedIsUnique ==
  ASSUME NEW S, NEW list \in Seq(S), NEW p, NEW s \in Seq(S), NEW t \in Seq(S),
         IsMerged(list, p, s), IsMerged(list, p, t)
  PROVE  s = t
<1>1. Len(s) = Len(t) /\ \A k \in 1..Len(s) : s[k] = t[k]
  BY DEF IsMerged
<1> QED BY <1>1, SeqEqual

\* The step of the reference takes the first of the pairs with the lowest rank.
LEMMA MergeOneIs ==
  ASSUME NEW rules, DOMAIN rules \in SUBSET Nat, NEW S, NEW list \in Seq(S),
         NEW r, NEW p, IsNext(rules, list, r, p), list[p] \o list[p + 1] \in S
  PROVE  MergeOne(rules, list) \in Seq(S) /\ IsMerged(list, p, MergeOne(rules, list))
<1> DEFINE ranks == Ranks(rules, list)
           places == {k \in 1..(Len(list) - 1) : rules[First(ranks)] = <<list[k], list[k + 1]>>}
<1>1. /\ r \in DOMAIN rules /\ \A s \in ranks : r <= s
      /\ p \in 1..(Len(list) - 1) /\ rules[r] = <<list[p], list[p + 1]>>
      /\ \A k \in 1..(p - 1) : rules[r] # <<list[k], list[k + 1]>>
  BY DEF IsNext
<1>2. r \in ranks /\ ranks \in SUBSET Nat
  BY <1>1 DEF Ranks
<1>3. MergeOne(rules, list) = IF ranks = {} THEN list ELSE Inserted(list, First(places))
  BY DEF MergeOne, Ranks, Inserted
<1> HIDE DEF ranks
<1>4. First(ranks) = r
  <2>1. First(ranks) \in ranks /\ \A m \in ranks : First(ranks) <= m
    BY <1>2, FirstIsLeast
  <2>2. First(ranks) \in Nat /\ r \in Nat /\ First(ranks) <= r /\ r <= First(ranks)
    BY <1>1, <1>2, <2>1
  <2> QED BY <2>2
<1>5. places = {k \in 1..(Len(list) - 1) : rules[r] = <<list[k], list[k + 1]>>}
  BY <1>4
<1> HIDE DEF places
<1>6. First(places) = p
  <2>1. places \in SUBSET Nat /\ p \in places
    BY <1>1, <1>5
  <2>2. First(places) \in places /\ First(places) <= p
    BY <2>1, FirstIsLeast
  <2>3. First(places) \notin 1..(p - 1)
    BY <1>1, <1>5, <2>2
  <2>4. First(places) \in Nat /\ First(places) >= 1 /\ p \in Nat
    BY <1>5, <2>1, <2>2
  <2> QED BY <2>2, <2>3, <2>4
<1>7. MergeOne(rules, list) = Inserted(list, p)
  BY <1>2, <1>3, <1>6
<1> QED BY <1>1, <1>7, InsertedIsMerged

\* Nothing is left to merge.
LEMMA MergeOneEnds ==
  ASSUME NEW rules, NEW list, Ranks(rules, list) = {}
  PROVE  MergeOne(rules, list) = list
BY DEF MergeOne, Ranks

\* No rule uses what it or a later one makes: a merge brings no pair of a rank
\* as low as its own, and does not bring its own pair back.
LEMMA MergedRanks ==
  ASSUME NEW rules, DOMAIN rules \in SUBSET Nat, WellOrdered(rules),
         NEW S, NEW list \in Seq(S), NEW merged, NEW r, NEW p,
         IsNext(rules, list, r, p), IsMerged(list, p, merged)
  PROVE  /\ \A s \in Ranks(rules, merged) : r <= s
         /\ \A k \in 1..p : k < Len(merged) => rules[r] # <<merged[k], merged[k + 1]>>
<1> DEFINE n == Len(list)
           new == list[p] \o list[p + 1]
<1>1. n \in Nat
  BY LenProperties
<1>2. /\ r \in DOMAIN rules /\ \A s \in Ranks(rules, list) : r <= s
      /\ p \in 1..(n - 1) /\ rules[r] = <<list[p], list[p + 1]>>
      /\ \A k \in 1..(p - 1) : rules[r] # <<list[k], list[k + 1]>>
  BY DEF IsNext
<1>3. /\ Len(merged) = n - 1
      /\ \A k \in 1..(n - 1) : merged[k] = IF k < p THEN list[k] ELSE IF k = p THEN new ELSE list[k + 1]
  BY DEF IsMerged
<1>4. ASSUME NEW s \in DOMAIN rules, new \in {rules[s][1], rules[s][2]} PROVE r < s
  <2>1. rules[r][1] = list[p] /\ rules[r][2] = list[p + 1]
    BY <1>2
  <2>2. rules[r][1] \o rules[r][2] \in {rules[s][1], rules[s][2]}
    BY <1>4, <2>1
  <2> QED BY <1>2, <2>2 DEF WellOrdered
<1> HIDE DEF new, n
\* A pair of the new list was in the old one, or has the new symbol.
<1>5. ASSUME NEW k \in 1..(n - 2)
      PROVE  \/ k < p - 1 /\ merged[k] = list[k] /\ merged[k + 1] = list[k + 1]
             \/ k > p /\ merged[k] = list[k + 1] /\ merged[k + 1] = list[(k + 1) + 1]
             \/ (k = p - 1 \/ k = p) /\ new \in {merged[k], merged[k + 1]}
  <2>1. k \in 1..(n - 1) /\ k + 1 \in 1..(n - 1) /\ p \in Nat /\ k \in Nat
    BY <1>1, <1>2
  <2>2. CASE k < p - 1
    <3>1. k < p /\ k + 1 < p
      BY <2>1, <2>2
    <3> QED BY <1>3, <2>1, <2>2, <3>1
  <2>3. CASE k > p
    <3>1. ~(k < p) /\ k # p /\ ~(k + 1 < p) /\ k + 1 # p
      BY <2>1, <2>3
    <3> QED BY <1>3, <2>1, <2>3, <3>1
  <2>4. CASE k = p - 1
    <3>1. k + 1 = p /\ ~(k + 1 < p)
      BY <2>1, <2>4
    <3> QED BY <1>3, <2>1, <2>4, <3>1
  <2>5. CASE k = p
    <3>1. ~(k < p)
      BY <2>1, <2>5
    <3> QED BY <1>3, <2>1, <2>5, <3>1
  <2> QED BY <2>1, <2>2, <2>3, <2>4, <2>5
<1>6. ASSUME NEW s \in Ranks(rules, merged) PROVE r <= s
  <2>1. PICK k \in 1..(n - 2) : rules[s] = <<merged[k], merged[k + 1]>>
    <3>1. PICK k \in 1..(Len(merged) - 1) : rules[s] = <<merged[k], merged[k + 1]>>
      BY DEF Ranks
    <3>2. k \in 1..(n - 2)
      BY <1>1, <1>3
    <3> QED BY <3>1, <3>2
  <2>2. s \in DOMAIN rules /\ s \in Nat /\ r \in Nat
    BY <1>2 DEF Ranks
  <2>3. CASE \E j \in 1..(n - 1) : merged[k] = list[j] /\ merged[k + 1] = list[j + 1]
    <3>1. s \in Ranks(rules, list)
      BY <2>1, <2>2, <2>3 DEF Ranks, n
    <3> QED BY <1>2, <3>1
  <2>4. CASE new \in {merged[k], merged[k + 1]}
    <3>1. new \in {rules[s][1], rules[s][2]}
      BY <2>1, <2>4
    <3>2. r < s
      BY <1>4, <2>2, <3>1
    <3> QED BY <2>2, <3>2
  <2>5. k \in 1..(n - 1) /\ k + 1 \in 1..(n - 1)
    BY <1>1
  <2> QED BY <1>5, <2>3, <2>4, <2>5
<1>7. ASSUME NEW k \in 1..p, k < Len(merged), rules[r] = <<merged[k], merged[k + 1]>> PROVE FALSE
  <2>1. k \in 1..(n - 2) /\ k \in Nat /\ p \in Nat
    BY <1>1, <1>2, <1>3, <1>7
  <2>2. ~(k > p)
    BY <2>1
  <2>3. CASE k < p - 1 /\ merged[k] = list[k] /\ merged[k + 1] = list[k + 1]
    <3>1. k \in 1..(p - 1)
      BY <2>1, <2>3
    <3> QED BY <1>2, <1>7, <2>3, <3>1
  <2>4. CASE new \in {merged[k], merged[k + 1]}
    <3>1. new \in {rules[r][1], rules[r][2]}
      BY <1>7, <2>4
    <3>2. r < r
      BY <1>2, <1>4, <3>1
    <3>3. r \in Nat
      BY <1>2
    <3> QED BY <3>2, <3>3
  <2> QED BY <1>5, <2>1, <2>2, <2>3, <2>4
<1> QED BY <1>6, <1>7

\* The reference, step by step.
AreMerged(rules, list, n, merged) ==
  merged = [k \in 0..n |-> IF k = 0 THEN list ELSE MergeOne(rules, merged[k - 1])]

LEMMA MergedExist ==
  ASSUME NEW rules, NEW list
  PROVE  \A n \in Nat : \E merged : AreMerged(rules, list, n, merged)
<1> DEFINE S == {n \in Nat : \E merged : AreMerged(rules, list, n, merged)}
<1>1. 0 \in S
  <2>1. AreMerged(rules, list, 0, [k \in 0..0 |-> list])
    BY DEF AreMerged
  <2> QED BY <2>1
<1>2. ASSUME NEW n \in Nat, n \in S PROVE n + 1 \in S
  <2>1. PICK g : AreMerged(rules, list, n, g)
    BY <1>2
  <2> DEFINE h == [k \in 0..(n + 1) |-> IF k = n + 1 THEN MergeOne(rules, g[n]) ELSE g[k]]
  <2>2. ASSUME NEW k \in 0..(n + 1)
        PROVE  h[k] = IF k = 0 THEN list ELSE MergeOne(rules, h[k - 1])
    <3>1. CASE k = n + 1
      <4>1. k # 0 /\ k - 1 = n /\ n \in 0..(n + 1) /\ n # n + 1
        BY <3>1
      <4>2. h[k] = MergeOne(rules, g[n]) /\ h[n] = g[n]
        BY <3>1, <4>1
      <4> HIDE DEF h
      <4> QED BY <4>1, <4>2
    <3>2. CASE k # n + 1
      <4>1. k \in 0..n /\ (k # 0 => k - 1 \in 0..n /\ k - 1 \in 0..(n + 1) /\ k - 1 # n + 1)
        BY <3>2
      <4>2. h[k] = g[k] /\ (k # 0 => h[k - 1] = g[k - 1])
        BY <3>2, <4>1
      <4>3. g[k] = IF k = 0 THEN list ELSE MergeOne(rules, g[k - 1])
        BY <2>1, <4>1 DEF AreMerged
      <4> HIDE DEF h
      <4> QED BY <4>2, <4>3
    <3> QED BY <3>1, <3>2
  <2>3. h = [k \in 0..(n + 1) |-> h[k]]
    OBVIOUS
  <2> HIDE DEF h
  <2>4. AreMerged(rules, list, n + 1, h)
    BY <2>2, <2>3 DEF AreMerged
  <2> QED BY <2>4
<1>3. \A n \in Nat : n \in S
  <2> HIDE DEF S
  <2> QED BY <1>1, <1>2, Induction
<1> QED BY <1>3

LEMMA MergedAgree ==
  ASSUME NEW rules, NEW list, NEW n \in Nat, NEW m \in Nat, NEW g, NEW h,
         AreMerged(rules, list, n, g), AreMerged(rules, list, m, h)
  PROVE  \A k \in Nat : k <= n /\ k <= m => g[k] = h[k]
<1> DEFINE S == {k \in Nat : k <= n /\ k <= m => g[k] = h[k]}
<1>1. 0 \in S
  <2>1. 0 \in 0..n /\ 0 \in 0..m
    OBVIOUS
  <2> QED BY <2>1 DEF AreMerged
<1>2. ASSUME NEW k \in Nat, k \in S PROVE k + 1 \in S
  <2> SUFFICES ASSUME k + 1 <= n, k + 1 <= m PROVE g[k + 1] = h[k + 1]
    OBVIOUS
  <2>1. k + 1 \in 0..n /\ k + 1 \in 0..m /\ k + 1 # 0 /\ (k + 1) - 1 = k
    OBVIOUS
  <2>2. g[k] = h[k]
    BY <1>2
  <2>3. g[k + 1] = MergeOne(rules, g[k])
    BY <2>1 DEF AreMerged
  <2>4. h[k + 1] = MergeOne(rules, h[k])
    BY <2>1 DEF AreMerged
  <2> QED BY <2>2, <2>3, <2>4
<1>3. \A k \in Nat : k \in S
  <2> HIDE DEF S
  <2> QED BY <1>1, <1>2, Induction
<1> QED BY <1>3

LEMMA OneByOneIs ==
  ASSUME NEW rules, NEW list, NEW n \in Nat
  PROVE  \E g : AreMerged(rules, list, n, g) /\ OneByOne(rules, list, n) = g[n]
<1> DEFINE g == CHOOSE g : AreMerged(rules, list, n, g)
<1>1. AreMerged(rules, list, n, g)
  BY MergedExist
<1>2. OneByOne(rules, list, n) = g[n]
  BY DEF OneByOne, AreMerged
<1> QED BY <1>1, <1>2

LEMMA OneByOneUnfolds ==
  ASSUME NEW rules, NEW list
  PROVE  /\ OneByOne(rules, list, 0) = list
         /\ \A n \in Nat : OneByOne(rules, list, n + 1) = MergeOne(rules, OneByOne(rules, list, n))
<1>1. OneByOne(rules, list, 0) = list
  <2>1. PICK g : AreMerged(rules, list, 0, g) /\ OneByOne(rules, list, 0) = g[0]
    BY OneByOneIs
  <2>2. 0 \in 0..0 /\ AreMerged(rules, list, 0, g)
    BY <2>1
  <2>3. g[0] = list
    BY <2>2 DEF AreMerged
  <2> QED BY <2>1, <2>3
<1>2. ASSUME NEW n \in Nat
      PROVE  OneByOne(rules, list, n + 1) = MergeOne(rules, OneByOne(rules, list, n))
  <2>1. PICK g : AreMerged(rules, list, n + 1, g) /\ OneByOne(rules, list, n + 1) = g[n + 1]
    BY OneByOneIs
  <2>2. PICK h : AreMerged(rules, list, n, h) /\ OneByOne(rules, list, n) = h[n]
    BY OneByOneIs
  <2>3. AreMerged(rules, list, n + 1, g) /\ AreMerged(rules, list, n, h)
    BY <2>1, <2>2
  <2>4. g[n] = h[n]
    <3>1. n <= n + 1 /\ n <= n /\ n + 1 \in Nat
      OBVIOUS
    <3> QED BY <2>3, <3>1, MergedAgree
  <2>5. n + 1 \in 0..(n + 1) /\ n + 1 # 0 /\ (n + 1) - 1 = n
    OBVIOUS
  <2>6. g[n + 1] = MergeOne(rules, g[n])
    BY <2>3, <2>5 DEF AreMerged
  <2> QED BY <2>1, <2>2, <2>4, <2>6
<1> QED BY <1>1, <1>2

\* A list with nothing to merge is what any more steps leave.
LEMMA OneByOneEnds ==
  ASSUME NEW rules, NEW list, NEW n \in Nat, Ranks(rules, OneByOne(rules, list, n)) = {}
  PROVE  \A m \in Nat : OneByOne(rules, list, n + m) = OneByOne(rules, list, n)
<1> DEFINE last == OneByOne(rules, list, n)
           S == {m \in Nat : OneByOne(rules, list, n + m) = last}
<1>1. MergeOne(rules, last) = last
  BY MergeOneEnds
<1> HIDE DEF last
<1>2. 0 \in S
  BY DEF last
<1>3. ASSUME NEW m \in Nat, m \in S PROVE m + 1 \in S
  <2>1. n + m \in Nat /\ n + (m + 1) = (n + m) + 1
    OBVIOUS
  <2>2. OneByOne(rules, list, (n + m) + 1) = MergeOne(rules, OneByOne(rules, list, n + m))
    BY <2>1, OneByOneUnfolds
  <2> QED BY <1>1, <1>3, <2>1, <2>2
<1>4. \A m \in Nat : m \in S
  <2> HIDE DEF S
  <2> QED BY <1>2, <1>3, Induction
<1> QED BY <1>4 DEF last

\* What a sweep has done, and the symbols it has not come to.
Joined(done, list, a) == done \o SubSeq(list, a, Len(list))

IsJoined(done, list, a, joined) ==
  /\ Len(joined) = Len(done) + (Len(list) - a + 1)
  /\ \A k \in 1..Len(joined) :
       joined[k] = IF k <= Len(done) THEN done[k] ELSE list[a + (k - Len(done)) - 1]

LEMMA JoinedIs ==
  ASSUME NEW S, NEW done \in Seq(S), NEW list \in Seq(S), NEW a \in 1..(Len(list) + 1)
  PROVE  Joined(done, list, a) \in Seq(S) /\ IsJoined(done, list, a, Joined(done, list, a))
<1> DEFINE n == Len(list)
           rest == SubSeq(list, a, n)
<1>1. n \in Nat /\ Len(done) \in Nat /\ a \in Nat /\ a >= 1 /\ a <= n + 1
  BY LenProperties
<1>2. \A k \in 1..n : list[k] \in S
  BY ElementOfSeq
<1>3. rest \in Seq(S) /\ Len(rest) = n - a + 1 /\ \A k \in 1..(n - a + 1) : rest[k] = list[a + k - 1]
  <2>1. a \in Int /\ n \in Int /\ \A k \in a..n : k \in 1..n
    BY <1>1
  <2>2. \A k \in a..n : list[k] \in S
    BY <1>2, <2>1
  <2>3. /\ rest \in Seq(S) /\ Len(rest) = IF a <= n THEN n - a + 1 ELSE 0
        /\ \A k \in 1..(n - a + 1) : rest[k] = list[a + k - 1]
    BY <2>1, <2>2, SubSeqProperties
  <2> HIDE DEF rest, n
  <2>4. Len(rest) = n - a + 1
    BY <1>1, <2>3
  <2> QED BY <2>3, <2>4
<1>4. Joined(done, list, a) = done \o rest
  BY DEF Joined
<1> HIDE DEF rest, n
<1> DEFINE all == done \o rest
<1>5. /\ all \in Seq(S) /\ Len(all) = Len(done) + Len(rest)
      /\ \A k \in 1..(Len(done) + Len(rest)) :
           all[k] = IF k <= Len(done) THEN done[k] ELSE rest[k - Len(done)]
  BY <1>3, ConcatProperties
<1> HIDE DEF all
<1>6. ASSUME NEW k \in 1..(Len(done) + (n - a + 1))
      PROVE  all[k] = IF k <= Len(done) THEN done[k] ELSE list[a + (k - Len(done)) - 1]
  <2>1. all[k] = IF k <= Len(done) THEN done[k] ELSE rest[k - Len(done)]
    BY <1>3, <1>5
  <2>2. ~(k <= Len(done)) => k - Len(done) \in 1..(n - a + 1)
    BY <1>1
  <2> QED BY <1>3, <2>1, <2>2
<1>7. Len(all) = Len(done) + (n - a + 1)
  BY <1>3, <1>5
<1> QED BY <1>4, <1>5, <1>6, <1>7 DEF IsJoined, all, n

LEMMA JoinedMoves ==
  ASSUME NEW S, NEW done \in Seq(S), NEW list \in Seq(S), NEW a \in 1..Len(list)
  PROVE  Joined(Append(done, list[a]), list, a + 1) = Joined(done, list, a)
<1> DEFINE n == Len(list)
           c == Joined(done, list, a)
           more == Append(done, list[a])
           d == Joined(more, list, a + 1)
           size == Len(done)
<1>1. n \in Nat /\ size \in Nat /\ a \in Nat /\ a >= 1 /\ a <= n /\ a \in 1..(n + 1) /\ a + 1 \in 1..(n + 1)
  BY LenProperties
<1>2. list[a] \in S
  BY ElementOfSeq
<1>3. /\ more \in Seq(S) /\ Len(more) = size + 1
      /\ \A k \in 1..size : more[k] = done[k]
      /\ more[size + 1] = list[a]
  BY <1>2, AppendProperties
<1> HIDE DEF more
<1>4. /\ c \in Seq(S) /\ Len(c) = size + (n - a + 1)
      /\ \A k \in 1..Len(c) : c[k] = IF k <= size THEN done[k] ELSE list[a + (k - size) - 1]
  <2>1. c \in Seq(S) /\ IsJoined(done, list, a, c)
    BY <1>1, JoinedIs
  <2> HIDE DEF c
  <2> QED BY <2>1 DEF IsJoined
<1>5. /\ d \in Seq(S) /\ Len(d) = Len(more) + (n - (a + 1) + 1)
      /\ \A k \in 1..Len(d) :
           d[k] = IF k <= Len(more) THEN more[k] ELSE list[(a + 1) + (k - Len(more)) - 1]
  <2>1. d \in Seq(S) /\ IsJoined(more, list, a + 1, d)
    BY <1>1, <1>3, JoinedIs
  <2> HIDE DEF d
  <2> QED BY <2>1 DEF IsJoined
<1> HIDE DEF c, d, n, size
<1>6. Len(d) = Len(c) /\ size + (n - a + 1) = Len(c)
  BY <1>1, <1>3, <1>4, <1>5
<1>7. ASSUME NEW k \in 1..Len(c) PROVE d[k] = c[k]
  <2>1. k \in Nat /\ k >= 1
    BY <1>1, <1>6
  <2>2. CASE k <= size
    <3>1. k <= Len(more) /\ k \in 1..size
      BY <1>1, <1>3, <2>1, <2>2
    <3> QED BY <1>3, <1>4, <1>5, <1>6, <2>2, <3>1
  <2>3. CASE k = size + 1
    <3>1. k <= Len(more) /\ ~(k <= size) /\ a + (k - size) - 1 = a
      BY <1>1, <1>3, <2>1, <2>3
    <3> QED BY <1>3, <1>4, <1>5, <1>6, <2>3, <3>1
  <2>4. CASE k > size + 1
    <3>1. ~(k <= Len(more)) /\ ~(k <= size)
      BY <1>1, <1>3, <2>1, <2>4
    <3>2. (a + 1) + (k - Len(more)) - 1 = a + (k - size) - 1
      BY <1>1, <1>3, <2>1
    <3>3. d[k] = list[(a + 1) + (k - Len(more)) - 1]
      BY <1>5, <1>6, <3>1
    <3>4. c[k] = list[a + (k - size) - 1]
      BY <1>4, <1>6, <3>1
    <3> QED BY <3>2, <3>3, <3>4
  <2> QED BY <1>1, <2>1, <2>2, <2>3, <2>4
<1>8. d = c
  BY <1>4, <1>5, <1>6, <1>7, SeqEqual
<1> QED BY <1>8 DEF c, d, more

LEMMA JoinedMerges ==
  ASSUME NEW S, NEW done \in Seq(S), NEW list \in Seq(S), NEW a \in 1..(Len(list) - 1),
         list[a] \o list[a + 1] \in S
  PROVE  /\ Len(done) + 1 \in 1..(Len(Joined(done, list, a)) - 1)
         /\ Joined(done, list, a)[Len(done) + 1] = list[a]
         /\ Joined(done, list, a)[(Len(done) + 1) + 1] = list[a + 1]
         /\ IsMerged(Joined(done, list, a), Len(done) + 1,
                     Joined(Append(done, list[a] \o list[a + 1]), list, a + 2))
<1> DEFINE n == Len(list)
           c == Joined(done, list, a)
           new == list[a] \o list[a + 1]
           more == Append(done, new)
           d == Joined(more, list, a + 2)
           size == Len(done)
<1>1. /\ n \in Nat /\ size \in Nat /\ a \in Nat /\ a >= 1 /\ a + 1 <= n
      /\ a \in 1..(n + 1) /\ a + 2 \in 1..(n + 1)
  BY LenProperties
<1>3. /\ more \in Seq(S) /\ Len(more) = size + 1
      /\ \A k \in 1..size : more[k] = done[k]
      /\ more[size + 1] = new
  <2>1. new \in S
    OBVIOUS
  <2> HIDE DEF new
  <2> QED BY <2>1, AppendProperties
<1> HIDE DEF more, new
<1>4. /\ c \in Seq(S) /\ Len(c) = size + (n - a + 1)
      /\ \A k \in 1..Len(c) : c[k] = IF k <= size THEN done[k] ELSE list[a + (k - size) - 1]
  <2>1. c \in Seq(S) /\ IsJoined(done, list, a, c)
    BY <1>1, JoinedIs
  <2> HIDE DEF c
  <2> QED BY <2>1 DEF IsJoined
<1>5. /\ d \in Seq(S) /\ Len(d) = Len(more) + (n - (a + 2) + 1)
      /\ \A k \in 1..Len(d) :
           d[k] = IF k <= Len(more) THEN more[k] ELSE list[(a + 2) + (k - Len(more)) - 1]
  <2>1. d \in Seq(S) /\ IsJoined(more, list, a + 2, d)
    BY <1>1, <1>3, JoinedIs
  <2> HIDE DEF d
  <2> QED BY <2>1 DEF IsJoined
<1> HIDE DEF c, d, n, size
<1>6. /\ Len(d) = Len(c) - 1 /\ size + (n - a + 1) = Len(c)
      /\ Len(c) \in Nat /\ size + 2 <= Len(c)
  BY <1>1, <1>3, <1>4, <1>5
<1>7. c[size + 1] = list[a] /\ c[(size + 1) + 1] = list[a + 1]
  <2>1. size + 1 \in 1..Len(c) /\ ~(size + 1 <= size) /\ a + ((size + 1) - size) - 1 = a
    BY <1>1, <1>6
  <2>2. /\ (size + 1) + 1 \in 1..Len(c) /\ ~((size + 1) + 1 <= size)
        /\ a + (((size + 1) + 1) - size) - 1 = a + 1
    BY <1>1, <1>6
  <2>3. c[size + 1] = list[a + ((size + 1) - size) - 1]
    BY <1>4, <1>6, <2>1
  <2>4. c[(size + 1) + 1] = list[a + (((size + 1) + 1) - size) - 1]
    BY <1>4, <1>6, <2>2
  <2> QED BY <2>1, <2>2, <2>3, <2>4
<1>8. ASSUME NEW k \in 1..Len(d)
      PROVE  d[k] = IF k < size + 1 THEN c[k]
                    ELSE IF k = size + 1 THEN c[size + 1] \o c[(size + 1) + 1] ELSE c[k + 1]
  <2>1. k \in Nat /\ k >= 1 /\ k \in 1..Len(c) /\ k + 1 \in 1..Len(c)
    BY <1>1, <1>6
  <2>2. CASE k <= size
    <3>1. k <= Len(more) /\ k \in 1..size /\ k < size + 1
      BY <1>1, <1>3, <2>1, <2>2
    <3> QED BY <1>3, <1>4, <1>5, <1>6, <2>1, <2>2, <3>1
  <2>3. CASE k = size + 1
    <3>1. k <= Len(more) /\ ~(k < size + 1)
      BY <1>1, <1>3, <2>1, <2>3
    <3>2. d[k] = new
      BY <1>3, <1>5, <1>6, <2>3, <3>1
    <3> QED BY <1>7, <2>3, <3>1, <3>2 DEF new
  <2>4. CASE k > size + 1
    <3>1. ~(k <= Len(more)) /\ ~(k + 1 <= size) /\ ~(k < size + 1) /\ k # size + 1
      BY <1>1, <1>3, <2>1, <2>4
    <3>2. (a + 2) + (k - Len(more)) - 1 = a + ((k + 1) - size) - 1
      BY <1>1, <1>3, <2>1
    <3>3. d[k] = list[(a + 2) + (k - Len(more)) - 1]
      BY <1>5, <1>6, <3>1
    <3>4. c[k + 1] = list[a + ((k + 1) - size) - 1]
      BY <1>4, <1>6, <2>1, <3>1
    <3> QED BY <3>1, <3>2, <3>3, <3>4
  <2> QED BY <1>1, <2>1, <2>2, <2>3, <2>4
<1>9. IsMerged(c, size + 1, d)
  BY <1>6, <1>8 DEF IsMerged
<1>10. size + 1 \in 1..(Len(c) - 1)
  BY <1>1, <1>6
<1> QED BY <1>7, <1>9, <1>10 DEF c, d, more, new, size

\* The symbols as they would be if the sweep ended here.
Current == IF stage = "sweep" THEN Joined(swept, symbols, at) ELSE symbols

\* Every list that encode goes through is one of the reference's; the pair that
\* is swept has the lowest rank all the time, and is not left behind.
MergesInv ==
  InPiece /\ WellOrdered(mergeRules) =>
    /\ Len(Unmerged) \in Nat /\ Len(Unmerged) - Len(Current) \in Nat
    /\ Current = OneByOne(mergeRules, Unmerged, Len(Unmerged) - Len(Current))
    /\ stage = "emit" => Ranks(mergeRules, symbols) = {}
    /\ stage = "sweep" =>
         /\ at \in 1..(Len(symbols) + 1)
         /\ \E r \in DOMAIN mergeRules :
              /\ mergeRules[r] = pair /\ \A s \in Ranks(mergeRules, Current) : r <= s
              /\ \A k \in 1..Len(swept) :
                   k < Len(Current) => mergeRules[r] # <<Current[k], Current[k + 1]>>

LEMMA MergesStartPieceInv ==
  ASSUME IInv, StartPiece
  PROVE  MergesInv'
<1>1. stage' = "find" /\ symbols' = Unmerged'
  BY DEF StartPiece, Unmerged
<1>2. Current' = Unmerged'
  BY <1>1 DEF Current
<1>3. Len(Unmerged') \in Nat /\ Len(Unmerged') - Len(Unmerged') = 0
  <2>1. symbols' \in Seq(Vocabulary')
    BY <1>1, StartPieceInv DEF IInv, PieceInv, InPiece
  <2>2. Len(symbols') \in Nat
    BY <2>1, LenProperties
  <2> QED BY <1>1, <2>2
<1>4. OneByOne(mergeRules', Unmerged', 0) = Unmerged'
  BY OneByOneUnfolds
<1> QED BY <1>1, <1>2, <1>3, <1>4 DEF MergesInv

\* The lists of a sweep have IDs, like the symbols.
LEMMA SymbolsAreTyped ==
  ASSUME IInv, InPiece
  PROVE  /\ symbols \in Seq(Vocabulary) /\ Len(symbols) \in Nat
         /\ stage = "sweep" => swept \in Seq(Vocabulary) /\ Len(swept) \in Nat
         /\ mergeRules \in Seq(Seq(Seq(Nat))) /\ DOMAIN mergeRules \in SUBSET Nat
BY LenProperties DEF IInv, TablesInv, PieceInv, SweepInv

LEMMA MergesFindPairInv ==
  ASSUME IInv, MergesInv, FindPair
  PROVE  MergesInv'
<1>1. /\ stage = "find" /\ stage' \in {"emit", "sweep"} /\ mergeRules' = mergeRules
      /\ UNCHANGED <<segment, index, pieceEnd, symbols>>
  BY DEF FindPair, tables, tableVars, pieceVars
<1>2. Unmerged' = Unmerged
  BY <1>1 DEF Unmerged, BytesOf
<1> SUFFICES ASSUME WellOrdered(mergeRules) PROVE MergesInv'
  BY <1>1 DEF MergesInv
<1>3. /\ Len(Unmerged) \in Nat /\ Len(Unmerged) - Len(symbols) \in Nat
      /\ symbols = OneByOne(mergeRules, Unmerged, Len(Unmerged) - Len(symbols))
  BY <1>1 DEF MergesInv, Current, InPiece
<1>4. /\ symbols \in Seq(Vocabulary) /\ Len(symbols) \in Nat /\ DOMAIN mergeRules \in SUBSET Nat
  BY <1>1, SymbolsAreTyped DEF InPiece
<1>5. CASE RanksPresent = {}
  <2>1. stage' = "emit" /\ Current' = symbols
    BY <1>1, <1>5 DEF FindPair, Current
  <2>2. Ranks(mergeRules, symbols) = {}
    BY <1>5 DEF RanksPresent, Ranks
  <2>3. Ranks(mergeRules', symbols') = {}
    BY <1>1, <2>2
  <2> QED BY <1>1, <1>2, <1>3, <2>1, <2>3 DEF MergesInv
<1>6. CASE RanksPresent # {}
  <2>1. /\ stage' = "sweep" /\ pair' = mergeRules[First(RanksPresent)] /\ swept' = <<>> /\ at' = 1
    BY <1>6 DEF FindPair
  <2>2. RanksPresent = Ranks(mergeRules, symbols)
    BY DEF RanksPresent, Ranks
  <2>3. PICK r \in DOMAIN mergeRules :
          mergeRules[r] = pair' /\ \A s \in Ranks(mergeRules, symbols) : r <= s
    <3>1. RanksPresent \in SUBSET Nat
      BY <1>4 DEF RanksPresent
    <3>2. /\ First(RanksPresent) \in RanksPresent
          /\ \A s \in RanksPresent : First(RanksPresent) <= s
      BY <1>6, <3>1, FirstIsLeast
    <3>3. First(RanksPresent) \in DOMAIN mergeRules
      BY <3>2 DEF RanksPresent
    <3> QED BY <2>1, <2>2, <3>2, <3>3
  <2>4. Joined(<<>>, symbols, 1) = symbols
    BY <1>4, SubSeqFull, ConcatEmptySeq DEF Joined
  <2>5. Current' = symbols
    BY <1>1, <2>1, <2>4 DEF Current
  <2>6. Len(swept') = 0 /\ 1..Len(swept') = {} /\ at' \in 1..(Len(symbols') + 1)
    <3>1. Len(<<>>) = 0 /\ 1..0 = {} /\ 1 \in 1..(Len(symbols) + 1)
      BY <1>4
    <3> QED BY <1>1, <2>1, <3>1
  <2> QED BY <1>1, <1>2, <1>3, <2>1, <2>3, <2>5, <2>6 DEF MergesInv
<1> QED BY <1>5, <1>6

LEMMA MergesEndSweepInv ==
  ASSUME IInv, MergesInv, EndSweep
  PROVE  MergesInv'
<1>1. /\ stage = "sweep" /\ stage' = "find" /\ mergeRules' = mergeRules /\ at > Len(symbols)
      /\ UNCHANGED <<segment, index, pieceEnd>> /\ symbols' = swept
  BY DEF EndSweep, tables, tableVars, pieceVars
<1>2. Unmerged' = Unmerged
  BY <1>1 DEF Unmerged, BytesOf
<1> SUFFICES ASSUME WellOrdered(mergeRules) PROVE MergesInv'
  BY <1>1 DEF MergesInv
<1>3. /\ Len(Unmerged) \in Nat /\ Len(Unmerged) - Len(Current) \in Nat
      /\ Current = OneByOne(mergeRules, Unmerged, Len(Unmerged) - Len(Current))
  BY <1>1 DEF MergesInv, InPiece
<1>4. Current = swept
  <2>1. swept \in Seq(Vocabulary) /\ Len(symbols) \in Nat /\ at \in Nat
    BY <1>1, SymbolsAreTyped DEF IInv, SweepInv, InPiece
  <2>2. SubSeq(symbols, at, Len(symbols)) = <<>>
    BY <1>1, <2>1, SubSeqEmpty
  <2> QED BY <1>1, <2>1, <2>2, ConcatEmptySeq DEF Current, Joined
<1>5. Current' = Current
  BY <1>1, <1>4 DEF Current
<1> QED BY <1>1, <1>2, <1>3, <1>5 DEF MergesInv

\* The heart of it: where the pair is, the sweep does what the reference does
\* next; where it is not, the sweep leaves it behind for good.
LEMMA MergesSweepInv ==
  ASSUME IInv, MergesInv, Sweep
  PROVE  MergesInv'
<1>1. /\ stage = "sweep" /\ stage' = "sweep" /\ mergeRules' = mergeRules /\ at <= Len(symbols)
      /\ UNCHANGED <<segment, index, pieceEnd, symbols, pair>>
  BY DEF Sweep, tables, tableVars, textVars, pieceVars
<1>2. Unmerged' = Unmerged
  BY <1>1 DEF Unmerged, BytesOf
<1> SUFFICES ASSUME WellOrdered(mergeRules) PROVE MergesInv'
  BY <1>1 DEF MergesInv
<1>3. /\ Len(Unmerged) \in Nat /\ Len(Unmerged) - Len(Current) \in Nat
      /\ Current = OneByOne(mergeRules, Unmerged, Len(Unmerged) - Len(Current))
      /\ at \in 1..(Len(symbols) + 1)
  BY <1>1 DEF MergesInv, InPiece
<1>4. PICK r \in DOMAIN mergeRules :
        /\ mergeRules[r] = pair /\ \A s \in Ranks(mergeRules, Current) : r <= s
        /\ \A k \in 1..Len(swept) : k < Len(Current) => mergeRules[r] # <<Current[k], Current[k + 1]>>
  BY <1>1 DEF MergesInv, InPiece
<1>5. /\ symbols \in Seq(Vocabulary) /\ Len(symbols) \in Nat
      /\ swept \in Seq(Vocabulary) /\ Len(swept) \in Nat /\ DOMAIN mergeRules \in SUBSET Nat
      /\ pair[1] \o pair[2] \in Vocabulary
  BY <1>1, SymbolsAreTyped DEF InPiece, IInv, SweepInv
<1>6. at \in 1..Len(symbols) /\ at \in Nat
  BY <1>1, <1>3, <1>5
<1>7. Current = Joined(swept, symbols, at) /\ Current' = Joined(swept', symbols, at')
  BY <1>1 DEF Current
<1>8. /\ Current \in Seq(Vocabulary) /\ Len(Current) = Len(swept) + (Len(symbols) - at + 1)
      /\ \A k \in 1..Len(Current) :
           Current[k] = IF k <= Len(swept) THEN swept[k] ELSE symbols[at + (k - Len(swept)) - 1]
  <2>1. Current \in Seq(Vocabulary) /\ IsJoined(swept, symbols, at, Current)
    BY <1>3, <1>5, <1>7, JoinedIs
  <2> QED BY <2>1 DEF IsJoined
<1>9. CASE at < Len(symbols) /\ <<symbols[at], symbols[at + 1]>> = pair
  <2> DEFINE p == Len(swept) + 1
             new == symbols[at] \o symbols[at + 1]
  <2>1. swept' = Append(swept, new) /\ at' = at + 2
    <3>1. pair[1] = symbols[at] /\ pair[2] = symbols[at + 1]
      BY <1>9
    <3> QED BY <1>9, <3>1 DEF Sweep
  <2>2. new \in Vocabulary
    <3>1. pair[1] = symbols[at] /\ pair[2] = symbols[at + 1]
      BY <1>9
    <3> QED BY <1>5, <3>1
  <2>3. at \in 1..(Len(symbols) - 1)
    BY <1>5, <1>6, <1>9
  <2>4. /\ p \in 1..(Len(Current) - 1)
        /\ Current[p] = symbols[at] /\ Current[p + 1] = symbols[at + 1]
        /\ IsMerged(Current, p, Current')
    BY <1>5, <1>7, <2>1, <2>2, <2>3, JoinedMerges
  <2>5. Len(swept') = p /\ swept' \in Seq(Vocabulary)
    <3> HIDE DEF new
    <3> QED BY <1>5, <2>1, <2>2, AppendProperties
  <2>6. Current' \in Seq(Vocabulary)
    <3>1. at' \in 1..(Len(symbols) + 1)
      BY <1>5, <2>1, <2>3
    <3> QED BY <1>5, <1>7, <2>5, <3>1, JoinedIs
  <2>7. Current[p] \o Current[p + 1] \in Vocabulary
    BY <2>2, <2>4
  <2>8. Len(Current) \in Nat /\ p \in Nat /\ p - 1 = Len(swept) /\ p < Len(Current)
    BY <1>5, <1>8, <2>4, LenProperties
  <2> HIDE DEF p, new
  <2>9. IsNext(mergeRules, Current, r, p)
    <3>1. mergeRules[r] = <<Current[p], Current[p + 1]>>
      BY <1>4, <1>9, <2>4
    <3>2. \A k \in 1..(p - 1) : mergeRules[r] # <<Current[k], Current[k + 1]>>
      <4>1. \A k \in 1..(p - 1) : k \in 1..Len(swept) /\ k < Len(Current)
        BY <2>8
      <4> QED BY <1>4, <4>1
    <3> QED BY <1>4, <2>4, <3>1, <3>2 DEF IsNext
  <2>10. Current' = MergeOne(mergeRules, Current)
    <3>1. /\ MergeOne(mergeRules, Current) \in Seq(Vocabulary)
          /\ IsMerged(Current, p, MergeOne(mergeRules, Current))
      BY <1>5, <1>8, <2>7, <2>9, MergeOneIs
    <3> QED BY <1>8, <2>4, <2>6, <3>1, MergedIsUnique
  <2>11. /\ \A s \in Ranks(mergeRules, Current') : r <= s
         /\ \A k \in 1..p : k < Len(Current') => mergeRules[r] # <<Current'[k], Current'[k + 1]>>
    <3>1. DOMAIN mergeRules \in SUBSET Nat /\ Current \in Seq(Vocabulary) /\ IsMerged(Current, p, Current')
      BY <1>5, <1>8, <2>4
    <3> QED BY <2>9, <3>1, MergedRanks
  <2>12. /\ Len(Current') = Len(Current) - 1
         /\ Len(Unmerged) - Len(Current') = (Len(Unmerged) - Len(Current)) + 1
    <3>1. Len(Current') = Len(Current) - 1
      BY <2>4 DEF IsMerged
    <3> QED BY <1>3, <2>8, <3>1
  <2>13. Current' = OneByOne(mergeRules, Unmerged, Len(Unmerged) - Len(Current'))
    <3> DEFINE n == Len(Unmerged) - Len(Current)
    <3>1. n \in Nat /\ Current = OneByOne(mergeRules, Unmerged, n) /\ Len(Unmerged) - Len(Current') = n + 1
      BY <1>3, <2>12
    <3> HIDE DEF n
    <3>2. OneByOne(mergeRules, Unmerged, n + 1) = MergeOne(mergeRules, OneByOne(mergeRules, Unmerged, n))
      BY <3>1, OneByOneUnfolds
    <3> QED BY <2>10, <3>1, <3>2
  <2>14. Len(Unmerged) - Len(Current') \in Nat
    BY <1>3, <2>12
  <2>15. at' \in 1..(Len(symbols') + 1)
    BY <1>1, <1>5, <2>1, <2>3
  <2> QED BY <1>1, <1>2, <1>3, <1>4, <2>5, <2>11, <2>13, <2>14, <2>15 DEF MergesInv
<1>10. CASE ~(at < Len(symbols) /\ <<symbols[at], symbols[at + 1]>> = pair)
  <2>1. swept' = Append(swept, symbols[at]) /\ at' = at + 1
    BY <1>10 DEF Sweep
  <2>2. Current' = Current
    BY <1>5, <1>6, <1>7, <2>1, JoinedMoves
  <2>3. Len(swept') = Len(swept) + 1
    <3>1. symbols[at] \in Vocabulary
      BY <1>5, <1>6, ElementOfSeq
    <3> QED BY <1>5, <2>1, <3>1, AppendProperties
  <2>4. ASSUME NEW k \in 1..Len(swept'), k < Len(Current)
        PROVE  mergeRules[r] # <<Current[k], Current[k + 1]>>
    <3>1. CASE k \in 1..Len(swept)
      BY <1>4, <2>4, <3>1
    <3>2. CASE k = Len(swept) + 1
      <4>1. at < Len(symbols)
        BY <1>5, <1>6, <1>8, <2>4, <3>2
      <4>2. /\ k \in 1..Len(Current) /\ k + 1 \in 1..Len(Current)
            /\ ~(k <= Len(swept)) /\ ~(k + 1 <= Len(swept))
            /\ at + (k - Len(swept)) - 1 = at /\ at + ((k + 1) - Len(swept)) - 1 = at + 1
        <5> DEFINE size == Len(swept)
                   n == Len(symbols)
                   all == Len(Current)
        <5>1. size \in Nat /\ n \in Nat /\ at \in Nat /\ at >= 1 /\ all = size + (n - at + 1) /\ k = size + 1
          BY <1>5, <1>6, <1>8, <3>2
        <5>2. at < n
          BY <4>1
        <5> HIDE DEF size, n, all
        <5>3. /\ k \in 1..all /\ k + 1 \in 1..all /\ ~(k <= size) /\ ~(k + 1 <= size)
              /\ at + (k - size) - 1 = at /\ at + ((k + 1) - size) - 1 = at + 1
          BY <5>1, <5>2
        <5> QED BY <5>3 DEF size, all
      <4>3. Current[k] = symbols[at + (k - Len(swept)) - 1]
        BY <1>8, <4>2
      <4>4. Current[k + 1] = symbols[at + ((k + 1) - Len(swept)) - 1]
        BY <1>8, <4>2
      <4>5. Current[k] = symbols[at] /\ Current[k + 1] = symbols[at + 1]
        BY <4>2, <4>3, <4>4
      <4> QED BY <1>4, <1>10, <4>1, <4>5
    <3>3. k \in 1..Len(swept) \/ k = Len(swept) + 1
      BY <1>5, <2>3
    <3> QED BY <3>1, <3>2, <3>3
  <2>5. at' \in 1..(Len(symbols') + 1)
    BY <1>1, <1>5, <1>6, <2>1
  <2> QED BY <1>1, <1>2, <1>3, <1>4, <2>2, <2>4, <2>5 DEF MergesInv
<1> QED BY <1>9, <1>10

LEMMA MergesNextInv == IInv /\ MergesInv /\ [Next]_vars => MergesInv'
<1> SUFFICES ASSUME IInv, MergesInv, [Next]_vars PROVE MergesInv'
  OBVIOUS
<1>1. CASE Load
  <2>1. stage' \in {"vocabulary", "merges", "loaded", "rejected"}
    BY <1>1 DEF Load, LoadStep, ReadEntry, IndexVocabulary, ReadLine, FinishLoad, RejectTables
  <2> QED BY <2>1 DEF MergesInv, InPiece
<1>2. ASSUME NEW t \in Texts(mergesFile), Encode(t) PROVE MergesInv'
  BY <1>2 DEF Encode, MergesInv, InPiece
<1>3. CASE StartSegment
  BY <1>3 DEF StartSegment, MergesInv, InPiece
<1>4. CASE StartPiece BY <1>4, MergesStartPieceInv
<1>5. CASE FindPair BY <1>5, MergesFindPairInv
<1>6. CASE Sweep BY <1>6, MergesSweepInv
<1>7. CASE EndSweep BY <1>7, MergesEndSweepInv
<1>8. CASE EmitTokens
  BY <1>8 DEF EmitTokens, MergesInv, InPiece
<1>9. CASE EndSegment
  BY <1>9 DEF EndSegment, MergesInv, InPiece
<1>10. ASSUME NEW ids \in DecodeArguments, Decode(ids) PROVE MergesInv'
  BY <1>10 DEF Decode, MergesInv, InPiece
<1>11. CASE UNCHANGED vars
  <2>1. /\ UNCHANGED <<stage, mergeRules, segment, index, pieceEnd, symbols, pair, swept, at>>
    BY <1>11 DEF vars, loaderVars, tableVars, pieceVars, sweepVars
  <2>2. Unmerged' = Unmerged /\ Current' = Current
    BY <2>1 DEF Unmerged, BytesOf, Current
  <2> QED BY <2>1, <2>2 DEF MergesInv, InPiece
<1> QED
  BY <1>1, <1>2, <1>3, <1>4, <1>5, <1>6, <1>7, <1>8, <1>9, <1>10, <1>11 DEF Next, Ended

\* Merging the pair of the lowest rank everywhere in one sweep comes, for every
\* piece and all rules of which none uses what it or a later one makes, to the
\* same symbols as merging one pair at a time.
THEOREM AlwaysMergesLowestRankFirst == Spec => []MergesLowestRankFirst
<1>1. Init => MergesInv
  BY DEF Init, LoaderInit, MergesInv, InPiece
<1>2. ASSUME IInv, MergesInv PROVE MergesLowestRankFirst
  <2> SUFFICES ASSUME stage = "emit", WellOrdered(mergeRules)
               PROVE  symbols = OneByOne(mergeRules, Unmerged, Len(Unmerged))
    BY DEF MergesLowestRankFirst
  <2> DEFINE n == Len(Unmerged) - Len(symbols)
  <2>1. /\ Len(Unmerged) \in Nat /\ n \in Nat
        /\ symbols = OneByOne(mergeRules, Unmerged, n)
        /\ Ranks(mergeRules, symbols) = {}
    <3>1. Current = symbols
      BY DEF Current
    <3> QED BY <1>2, <3>1 DEF MergesInv, InPiece
  <2>2. Len(symbols) \in Nat
    BY <1>2, SymbolsAreTyped DEF InPiece
  <2>3. Len(Unmerged) = n + Len(symbols)
    BY <2>1, <2>2
  <2> HIDE DEF n
  <2>4. OneByOne(mergeRules, Unmerged, n + Len(symbols)) = OneByOne(mergeRules, Unmerged, n)
    BY <2>1, <2>2, OneByOneEnds
  <2> QED BY <2>1, <2>3, <2>4
<1>3. IInv /\ MergesInv => MergesLowestRankFirst
  BY <1>2
<1> QED BY InitInv, NextInv, MergesNextInv, <1>1, <1>3, PTL DEF Spec
=============================================================================
