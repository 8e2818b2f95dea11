------------------------------ MODULE Sampling ------------------------------
(***************************************************************************)
(* sampling_distribution and sample_token (src/generation.cpp): from the   *)
(* scores of a row to the token that is drawn, one action per filter and   *)
(* one per token of the walk over the probabilities.                       *)
(*                                                                         *)
(* Scores are integers, and so are weights, the values std::exp gives for  *)
(* the distance from the highest score.  What the code computes in double  *)
(* is exact here: probabilities are weights over their total.  The         *)
(* rounding to float at the end is not: a float is a multiple of           *)
(* 1 / FloatUnit, so small probabilities vanish and the sum need not be 1, *)
(* as in the code.                                                         *)
(***************************************************************************)
EXTENDS Integers, FiniteSetsExt

CONSTANTS
  VocabularySize,
  ScoreVectors,            \* the rows a model may answer
  NaN, PosInf, NegInf,     \* the scores that are no numbers
  Temperatures, TopKs, TopPs,
  Divide(_, _),            \* a finite score by a temperature
  Exp(_),                  \* the weight at a distance from the highest score
  PUnit,                   \* top_p is a multiple of 1 / PUnit
  FloatUnit,               \* a float probability is a multiple of 1 / FloatUnit
  Draws                    \* a draw is a multiple of 1 / Draws below 1

Tokens == 0..(VocabularySize - 1)

IsFinite(s) == s \notin {NaN, NegInf, PosInf}
FiniteScores == {s \in UNION {{v[t] : t \in Tokens} : v \in ScoreVectors} : IsFinite(s)}

\* A double has room for the quotients of two floats: none becomes infinite, and
\* different ones stay different.  A weight is never above that of the highest
\* score; an average probability does not vanish in a float.
ASSUME SamplingAssumption ==
  /\ VocabularySize \in Nat \ {0}
  /\ {PUnit, FloatUnit, Draws} \subseteq Nat \ {0}
  /\ NegInf < PosInf /\ NaN \notin {NegInf, PosInf}
  /\ {NaN, NegInf, PosInf} \subseteq Int
  /\ ScoreVectors \subseteq [Tokens -> Int]
  /\ Temperatures \subseteq Int /\ TopKs \subseteq Nat /\ TopPs \subseteq Int
  /\ \A s \in FiniteScores, d \in Temperatures : d > 0 =>
       /\ Divide(s, d) \in Int \ {NaN}
       /\ NegInf < Divide(s, d) /\ Divide(s, d) < PosInf
       /\ \A r \in FiniteScores :
            r < s => /\ Divide(r, d) < Divide(s, d)
                     /\ Exp(Divide(s, d) - Divide(r, d)) \in 0..Exp(0)
  /\ Exp(0) \in Nat \ {0}
  /\ VocabularySize <= 2 * FloatUnit

VARIABLES
  scores, options,   \* the arguments
  stage,             \* what is done next, or how it ended
  working,           \* the scores, scaled and filtered
  probabilities,     \* the distribution, in floats
  target,            \* the draw
  position,          \* the next token of the walk
  cumulative,        \* the probability of the tokens before it
  token              \* what is returned

vars == <<scores, options, stage, working, probabilities, target, position, cumulative, token>>

NoToken == -1

Options == [temperature : Temperatures, topK : TopKs, topP : TopPs]

Init ==
  /\ scores \in ScoreVectors
  /\ options \in Options
  /\ stage = "options"
  /\ working = [t \in Tokens |-> NegInf]
  /\ probabilities = [t \in Tokens |-> 0]
  /\ target = 0 /\ position = 0 /\ cumulative = 0
  /\ token = NoToken

Refuse ==
  /\ stage' = "refused"
  /\ UNCHANGED <<scores, options, working, probabilities, target, position, cumulative, token>>

\* validate_sampling_options.
Validate ==
  /\ stage = "options"
  /\ IF options.temperature > 0 /\ options.topP \in 1..PUnit
     THEN stage' = "temperature"
     ELSE stage' = "invalid"
  /\ UNCHANGED <<scores, options, working, probabilities, target, position, cumulative, token>>

-----------------------------------------------------------------------------
(* Temperature. *)

ScaledWithNaN(s) ==
  IF s \in {NaN, NegInf, PosInf} THEN s ELSE Divide(s, options.temperature)
Scaled(s) ==
  CASE s = NaN               -> NegInf
    [] s \in {NegInf, PosInf} -> s
    [] OTHER                 -> Divide(s, options.temperature)

Scale ==
  /\ stage = "temperature"
  /\ IF \E t \in Tokens : IsFinite(scores[t])
     THEN /\ working' = [t \in Tokens |-> Scaled(scores[t])]
          /\ stage' = "top_k"
          /\ UNCHANGED <<scores, options, probabilities, target, position, cumulative, token>>
     ELSE Refuse

-----------------------------------------------------------------------------
(* The filters. *)

\* ordered[top_k - 1] after nth_element.
Threshold(k) ==
  CHOOSE v \in {working[t] : t \in Tokens} :
    /\ Cardinality({t \in Tokens : working[t] > v}) < k
    /\ k <= Cardinality({t \in Tokens : working[t] >= v})

ApplyTopK ==
  /\ stage = "top_k"
  /\ working' = IF options.topK = 0 \/ options.topK >= VocabularySize
                THEN working
                ELSE [t \in Tokens |->
                       IF working[t] < Threshold(options.topK) THEN NegInf ELSE working[t]]
  /\ stage' = "top_p"
  /\ UNCHANGED <<scores, options, probabilities, target, position, cumulative, token>>

\* softmax.  An infinite score makes the total a NaN, and so does a NaN.
Highest == CHOOSE v \in {working[t] : t \in Tokens} : \A t \in Tokens : working[t] <= v

Weights ==
  [t \in Tokens |-> IF working[t] = NegInf THEN 0 ELSE Exp(Highest - working[t])]

Mass(S) == SumFunctionOnSet(Weights, S)

HasDistribution ==
  /\ \A t \in Tokens : working[t] \notin {PosInf, NaN}
  /\ Mass(Tokens) > 0

\* The order apply_top_p sorts by, and what it drops: all but the last in that
\* order, while the tokens up to this one have a probability of at most 1 - p.
Ascending(s, t) == working[s] < working[t] \/ (working[s] = working[t] /\ s <= t)

DroppedBelowP(t) ==
  /\ \E s \in Tokens : ~Ascending(s, t)
  /\ Mass({s \in Tokens : Ascending(s, t)}) * PUnit <= options.topP * Mass(Tokens)
Dropped(t) ==
  /\ \E s \in Tokens : ~Ascending(s, t)
  /\ Mass({s \in Tokens : Ascending(s, t)}) * PUnit <= (PUnit - options.topP) * Mass(Tokens)

ApplyTopP ==
  /\ stage = "top_p"
  /\ IF options.topP = PUnit \/ HasDistribution
     THEN /\ working' = IF options.topP = PUnit THEN working
                        ELSE [t \in Tokens |-> IF Dropped(t) THEN NegInf ELSE working[t]]
          /\ stage' = "softmax"
          /\ UNCHANGED <<scores, options, probabilities, target, position, cumulative, token>>
     ELSE Refuse

-----------------------------------------------------------------------------
(* The distribution and the draw. *)

\* static_cast<float>: to the nearest multiple.
Float(weight, total) == (2 * weight * FloatUnit + total) \div (2 * total)

Distribute ==
  /\ stage = "softmax"
  /\ IF HasDistribution
     THEN /\ probabilities' = [t \in Tokens |-> Float(Weights[t], Mass(Tokens))]
          /\ stage' = "draw"
          /\ UNCHANGED <<scores, options, working, target, position, cumulative, token>>
     ELSE Refuse

Draw(u) ==
  /\ stage = "draw"
  /\ target' = u
  /\ stage' = "walk"
  /\ UNCHANGED <<scores, options, working, probabilities, position, cumulative, token>>

ReachedOrEqual(c) == target * FloatUnit <= c * Draws
Reached(c) == target * FloatUnit < c * Draws

Return(t) == token' = t /\ stage' = "returned"

Walk ==
  /\ stage = "walk" /\ position < VocabularySize
  /\ cumulative' = cumulative + probabilities[position]
  /\ IF Reached(cumulative')
     THEN Return(position) /\ UNCHANGED position
     ELSE position' = position + 1 /\ UNCHANGED <<stage, token>>
  /\ UNCHANGED <<scores, options, working, probabilities, target>>

\* The walk passed the last token: the last one that could have been chosen.
PossibleFirst(t) ==
  /\ probabilities[t] > 0
  /\ \A s \in Tokens : s < t => probabilities[s] = 0
Possible(t) ==
  /\ probabilities[t] > 0
  /\ \A s \in Tokens : s > t => probabilities[s] = 0

FallBack ==
  /\ stage = "walk" /\ position = VocabularySize
  /\ IF \E t \in Tokens : Possible(t)
     THEN /\ \E t \in Tokens : Possible(t) /\ Return(t)
          /\ UNCHANGED <<scores, options, working, probabilities, target, position, cumulative>>
     ELSE Refuse

Ended == stage \in {"returned", "refused", "invalid"} /\ UNCHANGED vars

Next ==
  \/ Validate
  \/ Scale
  \/ ApplyTopK
  \/ ApplyTopP
  \/ Distribute
  \/ \E u \in 0..(Draws - 1) : Draw(u)
  \/ Walk
  \/ FallBack
  \/ Ended

Spec == Init /\ [][Next]_vars

-----------------------------------------------------------------------------
(* Properties. *)

\* The tokens that survive by their scores alone: those with fewer than top_k
\* better ones (docs/generation.md:96), and of these the fewest best ones whose
\* probability reaches top_p (docs/generation.md:102), of equal ones the later.
Usable == {t \in Tokens : IsFinite(scores[t])}

TopKKeeps ==
  IF options.topK = 0 \/ options.topK >= VocabularySize THEN Usable
  ELSE {t \in Usable : Cardinality({s \in Usable : scores[s] > scores[t]}) < options.topK}

BestScore == CHOOSE v \in {scores[t] : t \in Usable} : \A t \in Usable : scores[t] <= v

MassOf(S) ==
  SumFunctionOnSet([t \in S |-> Exp(Scaled(BestScore) - Scaled(scores[t]))], S)

Better(s, t) == scores[s] > scores[t] \/ (scores[s] = scores[t] /\ s > t)

TopPKeeps ==
  IF options.topP = PUnit THEN TopKKeeps
  ELSE {t \in TopKKeeps :
         MassOf({s \in TopKKeeps : Better(s, t)}) * PUnit < options.topP * MassOf(TopKKeeps)}

\* Dropping the least likely tokens first comes to the same as keeping the most
\* likely ones, whatever the ties, and each filter works on what the one before
\* it left.
KeptIsReference ==
  stage \in {"softmax", "draw", "walk", "returned"}
    /\ (\A t \in Tokens : scores[t] # PosInf)
    => {t \in Tokens : working[t] # NegInf} = TopPKeeps

\* A token that a filter or rounding removed is never drawn, nor is one whose
\* score is no number: not at a draw of zero, not on the boundary of two tokens
\* and not when the probabilities sum to less than the draw.
DrawnIsPermitted ==
  stage = "returned" =>
    /\ token \in Tokens
    /\ probabilities[token] > 0
    /\ working[token] # NegInf
    /\ IsFinite(scores[token])

\* The draw lies in the stretch of the token it selects, or beyond them all.
FloatMass(S) == SumFunctionOnSet(probabilities, S)

DrawSelectsItsToken ==
  stage = "returned" =>
    /\ FloatMass({t \in Tokens : t < token}) * Draws <= target * FloatUnit
    /\ \/ target * FloatUnit < FloatMass({t \in Tokens : t <= token}) * Draws
       \/ \A t \in Tokens : t > token => probabilities[t] = 0

\* Sampling fails for no other reason than scores that admit none.
RefusedIsUnusable ==
  stage = "refused" => Usable = {} \/ \E t \in Tokens : scores[t] = PosInf
=============================================================================
