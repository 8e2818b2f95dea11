--------------------------- MODULE SamplingProofs ---------------------------
(***************************************************************************)
(* For every vocabulary, every row of scores, all options and every draw:  *)
(* the inductive invariant of Sampling and the properties it implies.      *)
(***************************************************************************)
EXTENDS Sampling, DataLemmas

-----------------------------------------------------------------------------
(* Tokens, and numbers that belong to them. *)

LEMMA TokensAreFinite ==
  /\ Tokens \in SUBSET Nat /\ IsFiniteSet(Tokens)
  /\ Cardinality(Tokens) = VocabularySize /\ Tokens # {}
<1>1. VocabularySize \in Nat \ {0}
  BY SamplingAssumption DEF SamplingAssumption
<1>2. /\ IsFiniteSet(Tokens)
      /\ Cardinality(Tokens) = IF 0 > VocabularySize - 1 THEN 0 ELSE VocabularySize - 1 - 0 + 1
  BY <1>1, FS_Interval DEF Tokens
<1>3. Cardinality(Tokens) = VocabularySize
  BY <1>1, <1>2
<1>4. Tokens \in SUBSET Nat /\ 0 \in Tokens
  BY <1>1 DEF Tokens
<1> QED BY <1>2, <1>3, <1>4

\* A number for each token: finitely many, with a greatest and a least.
LEMMA ValuesOfTokens ==
  ASSUME NEW f \in [Tokens -> Int], NEW S \in SUBSET Tokens, S # {}
  PROVE  \E n \in S : \A m \in S : f[m] <= f[n]
BY TokensAreFinite, GreatestValue

LEMMA CountOfTokens ==
  ASSUME NEW S \in SUBSET Tokens, NEW T \in SUBSET S
  PROVE  /\ Cardinality(S) \in Nat /\ Cardinality(T) \in Nat
         /\ Cardinality(T) <= Cardinality(S)
<1>1. IsFiniteSet(S) /\ IsFiniteSet(T)
  BY TokensAreFinite, FS_Subset
<1> QED BY <1>1, FS_Subset, FS_CardinalityType

-----------------------------------------------------------------------------
(* The invariant. *)

TypeInv ==
  /\ scores \in ScoreVectors
  /\ options \in Options
  /\ stage \in {"options", "invalid", "temperature", "top_k", "top_p", "softmax",
                "draw", "walk", "returned", "refused"}
  /\ working \in [Tokens -> Int]
  /\ probabilities \in [Tokens -> Nat]
  /\ target \in Nat /\ position \in 0..VocabularySize /\ cumulative \in Nat

OptionsInv ==
  stage \notin {"options", "invalid"} =>
    options.temperature > 0 /\ options.topP \in 1..PUnit

\* A filter rules tokens out and leaves the others alone, never the highest one:
\* an infinite one stays until a softmax refuses it.
NoneIsInfinite == \A t \in Tokens : scores[t] # PosInf
SomeAreLeft == \E t \in Tokens : working[t] # NegInf
Left == {t \in Tokens : working[t] # NegInf}

WorkingInv ==
  stage \in {"top_k", "top_p", "softmax", "draw", "walk", "returned"} =>
    /\ \A t \in Tokens : working[t] \in {NegInf, Scaled(scores[t])}
    /\ \A t \in Tokens : scores[t] = PosInf => working[t] = PosInf
    /\ SomeAreLeft
    /\ stage = "top_k" => \A t \in Tokens : working[t] = Scaled(scores[t])

\* What each filter left, if every score was a number or ruled out before.
LeftInv ==
  NoneIsInfinite =>
    /\ stage = "top_p" => Left = TopKKeeps
    /\ stage \in {"softmax", "draw", "walk", "returned"} => Left = TopPKeeps

\* After the last softmax no score can have been infinite, and a token is left
\* that a draw may select.
DistributionInv ==
  stage \in {"draw", "walk", "returned"} =>
    /\ NoneIsInfinite
    /\ \A t \in Tokens : probabilities[t] > 0 => working[t] # NegInf
    /\ \E t \in Tokens : probabilities[t] > 0

Before(n) == {t \in Tokens : t < n}

\* The draw lies behind the tokens that the walk has passed.
WalkInv ==
  /\ stage \notin {"walk", "returned", "refused"} => position = 0 /\ cumulative = 0
  /\ stage = "walk" => cumulative = FloatMass(Before(position)) /\ ~Reached(cumulative)
  /\ stage = "returned" => token \in Tokens /\ probabilities[token] > 0

IInv ==
  /\ TypeInv /\ OptionsInv /\ WorkingInv /\ LeftInv /\ DistributionInv /\ WalkInv
  /\ DrawSelectsItsToken
  /\ RefusedIsUnusable

-----------------------------------------------------------------------------
(* Scores. *)

LEMMA ScoreType ==
  ASSUME scores \in ScoreVectors
  PROVE  /\ scores \in [Tokens -> Int]
         /\ \A t \in Tokens : IsFinite(scores[t]) => scores[t] \in FiniteScores
<1>1. scores \in [Tokens -> Int]
  BY SamplingAssumption DEF SamplingAssumption
<1>2. ASSUME NEW t \in Tokens PROVE scores[t] \in UNION {{v[u] : u \in Tokens} : v \in ScoreVectors}
  OBVIOUS
<1> QED BY <1>1, <1>2 DEF FiniteScores

\* Division keeps the order of the scores and what is no number apart.
LEMMA ScaledScores ==
  ASSUME scores \in ScoreVectors, options \in Options, options.temperature > 0
  PROVE  /\ \A t \in Tokens :
              /\ Scaled(scores[t]) \in Int \ {NaN}
              /\ Scaled(scores[t]) = PosInf <=> scores[t] = PosInf
              /\ Scaled(scores[t]) # NegInf <=> scores[t] \notin {NaN, NegInf}
              /\ NegInf <= Scaled(scores[t])
              /\ Scaled(scores[t]) <= PosInf
         /\ \A s, t \in Usable :
              /\ scores[s] > scores[t] <=> Scaled(scores[s]) > Scaled(scores[t])
              /\ scores[s] = scores[t] <=> Scaled(scores[s]) = Scaled(scores[t])
              /\ scores[s] >= scores[t] =>
                   Exp(Scaled(scores[s]) - Scaled(scores[t])) \in 0..Exp(0)
<1>0. /\ {NaN, NegInf, PosInf} \subseteq Int /\ NegInf < PosInf
      /\ NaN \notin {NegInf, PosInf} /\ Exp(0) \in Nat \ {0}
  BY SamplingAssumption DEF SamplingAssumption
<1>1. options.temperature \in Temperatures
  BY DEF Options
<1> DEFINE D(x) == Divide(x, options.temperature)
<1>2. ASSUME NEW x \in FiniteScores
      PROVE  /\ D(x) \in Int \ {NaN} /\ NegInf < D(x) /\ D(x) < PosInf
             /\ \A r \in FiniteScores :
                  r < x => D(r) < D(x) /\ Exp(D(x) - D(r)) \in 0..Exp(0)
  BY <1>1, SamplingAssumption DEF SamplingAssumption
<1>3. \A t \in Tokens : scores[t] \in Int /\ (IsFinite(scores[t]) => scores[t] \in FiniteScores)
  BY ScoreType
<1>4. \A t \in Tokens : IsFinite(scores[t]) => Scaled(scores[t]) = D(scores[t])
  BY DEF Scaled, IsFinite
<1>5. ASSUME NEW t \in Tokens
      PROVE  /\ Scaled(scores[t]) \in Int \ {NaN}
             /\ Scaled(scores[t]) = PosInf <=> scores[t] = PosInf
             /\ Scaled(scores[t]) # NegInf <=> scores[t] \notin {NaN, NegInf}
             /\ NegInf <= Scaled(scores[t])
             /\ Scaled(scores[t]) <= PosInf
  <2>1. CASE IsFinite(scores[t])
    <3>1. Scaled(scores[t]) = D(scores[t]) /\ scores[t] \in FiniteScores
      BY <1>3, <1>4, <2>1
    <3> HIDE DEF D
    <3> QED BY <1>0, <1>2, <2>1, <3>1 DEF IsFinite
  <2>2. CASE ~IsFinite(scores[t])
    BY <1>0, <2>2 DEF IsFinite, Scaled
  <2> QED BY <2>1, <2>2
<1>6. ASSUME NEW s \in Usable, NEW t \in Usable
      PROVE  /\ scores[s] > scores[t] <=> Scaled(scores[s]) > Scaled(scores[t])
             /\ scores[s] = scores[t] <=> Scaled(scores[s]) = Scaled(scores[t])
             /\ scores[s] >= scores[t] =>
                  Exp(Scaled(scores[s]) - Scaled(scores[t])) \in 0..Exp(0)
  <2>1. /\ Scaled(scores[s]) = D(scores[s]) /\ scores[s] \in FiniteScores /\ scores[s] \in Int
        /\ Scaled(scores[t]) = D(scores[t]) /\ scores[t] \in FiniteScores /\ scores[t] \in Int
    BY <1>3, <1>4 DEF Usable
  <2>2. D(scores[s]) \in Int /\ D(scores[t]) \in Int
    BY <1>2, <2>1
  <2>3. CASE scores[s] = scores[t]
    <3>1. D(scores[s]) - D(scores[t]) = 0
      BY <2>2, <2>3
    <3> HIDE DEF D
    <3> QED BY <1>0, <2>1, <2>2, <2>3, <3>1
  <2>4. CASE scores[s] > scores[t]
    <3> HIDE DEF D
    <3> QED BY <1>2, <2>1, <2>2, <2>4
  <2>5. CASE scores[s] < scores[t]
    <3> HIDE DEF D
    <3> QED BY <1>2, <2>1, <2>2, <2>5
  <2> QED BY <2>1, <2>3, <2>4, <2>5
<1> QED BY <1>5, <1>6

-----------------------------------------------------------------------------
(* Top-k. *)

\* The k-th best of the scores, counted with their repetitions.
LEMMA ThresholdSeparates ==
  ASSUME working \in [Tokens -> Int], NEW k \in 1..VocabularySize
  PROVE  /\ \E t \in Tokens : Threshold(k) = working[t]
         /\ Cardinality({t \in Tokens : working[t] > Threshold(k)}) < k
         /\ k <= Cardinality({t \in Tokens : working[t] >= Threshold(k)})
<1> DEFINE V == {working[t] : t \in Tokens}
           Above(v) == {t \in Tokens : working[t] > v}
           From(v) == {t \in Tokens : working[t] >= v}
           IsThreshold(v) == Cardinality(Above(v)) < k /\ k <= Cardinality(From(v))
           Enough == {t \in Tokens : k <= Cardinality(From(working[t]))}
<1>0. Enough \in SUBSET Tokens
  OBVIOUS
<1>1. Enough # {}
  <2> DEFINE negative == [t \in Tokens |-> -working[t]]
  <2>1. negative \in [Tokens -> Int] /\ Tokens # {}
    BY TokensAreFinite
  <2>2. PICK n \in Tokens : \A m \in Tokens : negative[m] <= negative[n]
    <3> HIDE DEF negative
    <3> QED BY <2>1, ValuesOfTokens
  <2>3. From(working[n]) = Tokens
    BY <2>2
  <2> HIDE DEF From
  <2> QED BY <2>3, TokensAreFinite
<1>2. PICK n \in Enough : \A m \in Enough : working[m] <= working[n]
  <2> HIDE DEF Enough
  <2> QED BY <1>0, <1>1, ValuesOfTokens
<1>3. Cardinality(Above(working[n])) < k
  <2> SUFFICES ASSUME ~(Cardinality(Above(working[n])) < k) PROVE FALSE
    OBVIOUS
  <2> DEFINE A == Above(working[n])
             negative == [t \in Tokens |-> -working[t]]
  <2>1. A \in SUBSET Tokens /\ Cardinality(A) \in Nat
    BY CountOfTokens
  <2>2. A # {}
    <3> HIDE DEF A
    <3> QED BY <2>1, FS_EmptySet DEF A
  <2>3. PICK m \in A : \A a \in A : negative[a] <= negative[m]
    <3>1. negative \in [Tokens -> Int]
      OBVIOUS
    <3> HIDE DEF negative, A
    <3> QED BY <2>1, <2>2, <3>1, ValuesOfTokens
  <2>4. From(working[m]) = A
    BY <2>3
  <2>5. m \in Enough
    BY <2>1, <2>4
  <2> QED BY <1>2, <2>3, <2>5
<1>4. working[n] \in V /\ IsThreshold(working[n])
  BY <1>2, <1>3
<1>5. Threshold(k) = CHOOSE v \in V : IsThreshold(v)
  BY DEF Threshold
<1>6. Threshold(k) \in V /\ IsThreshold(Threshold(k))
  <2> HIDE DEF IsThreshold, V
  <2> QED BY <1>4, <1>5
<1> QED BY <1>6

\* Comparing with it keeps the tokens with fewer than k better ones.
LEMMA TopKFilters ==
  ASSUME scores \in ScoreVectors, options \in Options, options.temperature > 0,
         working \in [Tokens -> Int], NEW k \in 1..VocabularySize, NoneIsInfinite,
         \A t \in Tokens : working[t] = Scaled(scores[t])
  PROVE  {t \in Tokens : working[t] # NegInf /\ ~(working[t] < Threshold(k))}
           = {t \in Usable : Cardinality({s \in Usable : scores[s] > scores[t]}) < k}
<1> DEFINE Above(v) == {t \in Tokens : working[t] > v}
           From(v) == {t \in Tokens : working[t] >= v}
           better(t) == {s \in Usable : scores[s] > scores[t]}
<1>1. \A t \in Tokens : t \in Usable <=> working[t] # NegInf
  BY ScaledScores DEF Usable, IsFinite, NoneIsInfinite
<1>2. ASSUME NEW t \in Usable PROVE Above(working[t]) = better(t)
  <2>1. t \in Tokens /\ \A s \in Tokens : NegInf <= working[s] /\ working[s] \in Int /\ NegInf \in Int
    BY ScaledScores, SamplingAssumption DEF Usable, SamplingAssumption
  <2>2. ASSUME NEW s \in Tokens PROVE working[s] > working[t] <=> s \in Usable /\ scores[s] > scores[t]
    <3>1. CASE s \in Usable
      <4>1. scores[s] > scores[t] <=> Scaled(scores[s]) > Scaled(scores[t])
        BY <3>1, ScaledScores
      <4> QED BY <2>1, <3>1, <4>1
    <3>2. CASE s \notin Usable
      <4>1. working[s] = NegInf
        BY <1>1, <3>2
      <4> QED BY <2>1, <3>2, <4>1
    <3> QED BY <3>1, <3>2
  <2> QED BY <2>2 DEF Usable
<1>3. /\ Threshold(k) \in Int
      /\ Cardinality(Above(Threshold(k))) < k /\ k <= Cardinality(From(Threshold(k)))
  BY ThresholdSeparates
<1>4. ASSUME NEW t \in Usable
      PROVE  ~(working[t] < Threshold(k)) <=> Cardinality(better(t)) < k
  <2>0. t \in Tokens /\ working[t] \in Int
    BY DEF Usable
  <2>1. CASE working[t] < Threshold(k)
    <3>1. From(Threshold(k)) \subseteq Above(working[t])
      BY <1>3, <2>0, <2>1
    <3>2. Cardinality(From(Threshold(k))) <= Cardinality(Above(working[t]))
          /\ Cardinality(From(Threshold(k))) \in Nat /\ Cardinality(Above(working[t])) \in Nat
      BY <3>1, CountOfTokens
    <3>3. k <= Cardinality(better(t)) /\ Cardinality(better(t)) \in Nat
      <4> HIDE DEF Above, From, better
      <4> QED BY <1>2, <1>3, <3>2
    <3> HIDE DEF better
    <3> QED BY <2>1, <3>3
  <2>2. CASE ~(working[t] < Threshold(k))
    <3>1. Above(working[t]) \subseteq Above(Threshold(k))
      BY <1>3, <2>0, <2>2
    <3>2. Cardinality(Above(working[t])) <= Cardinality(Above(Threshold(k)))
          /\ Cardinality(Above(Threshold(k))) \in Nat /\ Cardinality(Above(working[t])) \in Nat
      BY <3>1, CountOfTokens
    <3>3. Cardinality(better(t)) < k
      <4> HIDE DEF Above, From, better
      <4> QED BY <1>2, <1>3, <3>2
    <3> HIDE DEF better
    <3> QED BY <2>2, <3>3
  <2> QED BY <2>1, <2>2
<1> QED BY <1>1, <1>4 DEF Usable

-----------------------------------------------------------------------------
(* The softmax. *)

\* What a softmax is made of that does not fail.
Filtered ==
  /\ \A t \in Tokens : working[t] \in {NegInf, Scaled(scores[t])} /\ working[t] # PosInf
  /\ SomeAreLeft

LEMMA HighestIsGreatest ==
  ASSUME working \in [Tokens -> Int]
  PROVE  /\ \E t \in Tokens : Highest = working[t]
         /\ \A t \in Tokens : working[t] <= Highest
<1> DEFINE V == {working[t] : t \in Tokens}
           IsHighest(v) == \A t \in Tokens : working[t] <= v
<1>1. PICK n \in Tokens : IsHighest(working[n])
  BY TokensAreFinite, ValuesOfTokens
<1>2. Highest = CHOOSE v \in V : IsHighest(v)
  BY DEF Highest
<1>3. Highest \in V /\ IsHighest(Highest)
  <2>1. working[n] \in V
    OBVIOUS
  <2> HIDE DEF V, IsHighest
  <2> QED BY <1>1, <1>2, <2>1
<1> QED BY <1>3

\* Nothing weighs more than the highest score, and what is ruled out nothing.
LEMMA WeightsOfTokens ==
  ASSUME scores \in ScoreVectors, options \in Options, options.temperature > 0,
         working \in [Tokens -> Int], Filtered
  PROVE  /\ Weights \in [Tokens -> 0..Exp(0)]
         /\ \A t \in Tokens : working[t] = NegInf => Weights[t] = 0
         /\ \A t \in Tokens : working[t] = Highest => Weights[t] = Exp(0)
         /\ \E t \in Left : working[t] = Highest
<1>0. Exp(0) \in Nat \ {0} /\ NegInf \in Int
  BY SamplingAssumption DEF SamplingAssumption
<1>1. PICK h \in Tokens : Highest = working[h] /\ \A t \in Tokens : working[t] <= working[h]
  BY HighestIsGreatest
<1>2. \A t \in Left : t \in Usable /\ working[t] = Scaled(scores[t])
  BY ScaledScores DEF Left, Filtered, Usable, IsFinite
<1>3. h \in Left
  <2>1. PICK t \in Left : TRUE
    BY DEF Filtered, SomeAreLeft, Left
  <2>2. working[t] # NegInf /\ NegInf <= working[t] /\ t \in Tokens
    BY <1>2, <2>1, ScaledScores DEF Left
  <2> QED BY <1>0, <1>1, <2>2 DEF Left
<1>4. ASSUME NEW t \in Left PROVE Exp(working[h] - working[t]) \in 0..Exp(0)
  <2>1. t \in Usable /\ h \in Usable /\ t \in Tokens
    BY <1>2, <1>3 DEF Usable
  <2>2. Scaled(scores[t]) <= Scaled(scores[h]) /\ Scaled(scores[t]) \in Int /\ Scaled(scores[h]) \in Int
    BY <1>1, <1>2, <1>3, <2>1
  <2>3. scores[h] >= scores[t]
    <3>1. /\ scores[h] > scores[t] <=> Scaled(scores[h]) > Scaled(scores[t])
          /\ scores[h] = scores[t] <=> Scaled(scores[h]) = Scaled(scores[t])
      BY <2>1, ScaledScores
    <3>2. scores[h] \in Int /\ scores[t] \in Int
      BY <2>1, ScoreType DEF Usable
    <3> QED BY <2>2, <3>1, <3>2
  <2> QED BY <1>2, <1>3, <2>1, <2>3, ScaledScores
<1>5. \A t \in Tokens :
        Weights[t] = IF working[t] = NegInf THEN 0 ELSE Exp(working[h] - working[t])
  BY <1>1 DEF Weights
<1>6. \A t \in Tokens : Weights[t] \in 0..Exp(0)
  BY <1>0, <1>4, <1>5 DEF Left
<1>7. Weights \in [Tokens -> 0..Exp(0)]
  <2>1. Weights = [t \in Tokens |-> Weights[t]]
    BY DEF Weights
  <2> QED BY <1>6, <2>1
<1>8. ASSUME NEW t \in Tokens, working[t] = Highest PROVE Weights[t] = Exp(0)
  <2>1. working[h] - working[t] = 0 /\ working[t] # NegInf
    BY <1>1, <1>3, <1>8 DEF Left
  <2> QED BY <1>5, <2>1
<1> QED BY <1>1, <1>3, <1>5, <1>7, <1>8

LEMMA MassOfTokens ==
  ASSUME scores \in ScoreVectors, options \in Options, options.temperature > 0,
         working \in [Tokens -> Int], Filtered
  PROVE  /\ \A S \in SUBSET Tokens : Mass(S) \in Nat
         /\ \A S \in SUBSET Tokens : Mass(Tokens) = Mass(S) + Mass(Tokens \ S)
         /\ Exp(0) <= Mass(Tokens) /\ 0 < Mass(Tokens)
         /\ Mass(Tokens) <= VocabularySize * Exp(0)
<1>0. Exp(0) \in Nat \ {0} /\ IsFiniteSet(Tokens)
  BY TokensAreFinite, SamplingAssumption DEF SamplingAssumption
<1>1. \A t \in Tokens : Weights[t] \in Nat /\ Weights[t] <= Exp(0)
  BY <1>0, WeightsOfTokens
<1>2. \A S \in SUBSET Tokens : Mass(S) \in Nat
  BY <1>0, <1>1, SumType DEF Mass
<1>3. ASSUME NEW S \in SUBSET Tokens PROVE Mass(Tokens) = Mass(S) + Mass(Tokens \ S)
  <2>1. S \cup (Tokens \ S) = Tokens /\ S \cap (Tokens \ S) = {} /\ Tokens \ S \in SUBSET Tokens
    OBVIOUS
  <2>2. Mass(S \cup (Tokens \ S)) = Mass(S) + Mass(Tokens \ S)
    BY <1>0, <1>1, <2>1, SumOfUnion DEF Mass
  <2> QED BY <2>1, <2>2
<1>4. PICK t \in Tokens : Weights[t] = Exp(0)
  BY WeightsOfTokens DEF Left
<1>5. Mass(Tokens) = Weights[t] + Mass(Tokens \ {t})
  BY <1>0, <1>1, SumOfElement DEF Mass
<1>6. Exp(0) <= Mass(Tokens) /\ 0 < Mass(Tokens)
  <2>1. Mass(Tokens \ {t}) \in Nat
    BY <1>2
  <2> QED BY <1>0, <1>4, <1>5, <2>1
<1>7. Mass(Tokens) <= VocabularySize * Exp(0)
  <2>1. Exp(0) \in Nat
    BY <1>0
  <2>2. SumFunctionOnSet(Weights, Tokens) <= Cardinality(Tokens) * Exp(0)
    BY <1>0, <1>1, <2>1, SumIsBounded
  <2> QED BY <2>2, TokensAreFinite DEF Mass
<1> QED BY <1>2, <1>3, <1>6, <1>7

\* An infinite score is all that a softmax can fail for.
LEMMA DistributionExists ==
  ASSUME scores \in ScoreVectors, options \in Options, options.temperature > 0,
         working \in [Tokens -> Int], SomeAreLeft,
         \A t \in Tokens : working[t] \in {NegInf, Scaled(scores[t])}
  PROVE  /\ HasDistribution <=> Filtered
         /\ ~HasDistribution => \E t \in Tokens : scores[t] = PosInf
<1>1. \A t \in Tokens : working[t] # NaN
  BY ScaledScores, SamplingAssumption DEF SamplingAssumption
<1>2. Filtered => Mass(Tokens) > 0
  BY MassOfTokens
<1>3. HasDistribution <=> Filtered
  BY <1>1, <1>2 DEF HasDistribution, Filtered
<1>4. ASSUME NEW t \in Tokens, working[t] = PosInf PROVE scores[t] = PosInf
  BY <1>4, ScaledScores, SamplingAssumption DEF SamplingAssumption
<1> QED BY <1>3, <1>4 DEF Filtered

-----------------------------------------------------------------------------
(* Top-p. *)

\* Dropping the least likely tokens while what is dropped stays within 1 - p is
\* keeping the most likely ones until they reach p.
LEMMA TopPFilters ==
  ASSUME scores \in ScoreVectors, options \in Options, options.temperature > 0,
         options.topP \in 1..PUnit, options.topP # PUnit,
         working \in [Tokens -> Int], Filtered, Left = TopKKeeps
  PROVE  {t \in Tokens : working[t] # NegInf /\ ~Dropped(t)} = TopPKeeps
<1> DEFINE K == TopKKeeps
           W == [t \in K |-> Exp(Scaled(BestScore) - Scaled(scores[t]))]
           better(t) == {s \in K : Better(s, t)}
           upto(t) == {s \in Tokens : Ascending(s, t)}
<1>0. /\ K \in SUBSET Usable /\ K \in SUBSET Tokens /\ IsFiniteSet(K) /\ K = Left
      /\ \A t \in K : working[t] = Scaled(scores[t]) /\ scores[t] \in Int /\ t \in Int
  <2>1. \A t \in Left : t \in Usable /\ working[t] = Scaled(scores[t])
    BY ScaledScores DEF Left, Filtered, Usable, IsFinite
  <2>2. Left \in SUBSET Tokens /\ IsFiniteSet(Left)
    BY TokensAreFinite, FS_Subset DEF Left
  <2>3. \A t \in Tokens : scores[t] \in Int /\ t \in Int
    BY ScoreType, TokensAreFinite
  <2> QED BY <2>1, <2>2, <2>3
<1>a. NegInf \in Int /\ \A t \in Tokens : working[t] \in Int /\ NegInf <= working[t]
  BY ScaledScores, SamplingAssumption DEF SamplingAssumption, Filtered
<1>1. \A s, t \in K : /\ scores[s] > scores[t] <=> working[s] > working[t]
                      /\ scores[s] = scores[t] <=> working[s] = working[t]
  <2> HIDE DEF K
  <2> QED BY <1>0, ScaledScores
<1>2. PICK h \in K : working[h] = Highest
  BY WeightsOfTokens
<1>3. \A t \in Tokens : working[t] <= working[h]
  BY <1>2, HighestIsGreatest
\* The best score is the highest that was left: no filter drops it.
<1>4. BestScore = scores[h]
  <2> DEFINE V == {scores[t] : t \in Usable}
             IsBest(v) == \A t \in Usable : scores[t] <= v
  <2>1. IsBest(scores[h])
    <3> SUFFICES ASSUME NEW t \in Usable, ~(scores[t] <= scores[h]) PROVE FALSE
      OBVIOUS
    <3>1. Usable \in SUBSET Tokens /\ t \in Tokens /\ h \in Usable /\ t # h
      <4>1. t # h
        BY <1>0
      <4> QED BY <1>0, <4>1 DEF Usable
    <3>2. t \notin K
      <4>1. scores[t] \in Int /\ scores[h] \in Int
        BY <3>1, ScoreType
      <4>2. scores[t] > scores[h]
        BY <4>1
      <4>3. t \in K => working[t] > working[h]
        BY <1>1, <4>2
      <4>4. working[t] \in Int /\ working[h] \in Int
        BY <1>a, <1>0, <3>1
      <4> HIDE DEF K
      <4> QED BY <1>3, <3>1, <4>3, <4>4
    <3>3. options.topK # 0 /\ ~(options.topK >= VocabularySize)
      <4> SUFFICES ASSUME options.topK = 0 \/ options.topK >= VocabularySize PROVE FALSE
        OBVIOUS
      <4> QED BY <3>2 DEF TopKKeeps
    <3> DEFINE above(u) == {s \in Usable : scores[s] > scores[u]}
    <3>4. \A u \in Usable : u \in K <=> Cardinality(above(u)) < options.topK
      BY <3>3 DEF TopKKeeps
    <3>5. above(t) \subseteq above(h)
      <4>1. \A s \in Usable : scores[s] \in Int
        BY <3>1, ScoreType
      <4> QED BY <3>1, <4>1
    <3>6. /\ Cardinality(above(t)) <= Cardinality(above(h))
          /\ Cardinality(above(t)) \in Nat /\ Cardinality(above(h)) \in Nat
      <4>1. above(h) \in SUBSET Tokens
        BY <3>1
      <4> HIDE DEF above
      <4> QED BY <3>5, <4>1, CountOfTokens
    <3>7. options.topK \in Nat
      BY SamplingAssumption DEF SamplingAssumption, Options
    <3> HIDE DEF above, K
    <3> QED BY <3>1, <3>2, <3>4, <3>6, <3>7
  <2>2. scores[h] \in V
    BY <1>0, <1>2
  <2>3. \A v \in V : v \in Int
    BY ScoreType DEF Usable
  <2>4. BestScore = CHOOSE v \in V : IsBest(v)
    BY DEF BestScore
  <2>5. BestScore \in V /\ IsBest(BestScore)
    <3> HIDE DEF V, IsBest
    <3> QED BY <2>1, <2>2, <2>4
  <2>6. BestScore <= scores[h] /\ scores[h] <= BestScore
    BY <1>0, <1>2, <2>1, <2>5
  <2> HIDE DEF V
  <2> QED BY <2>2, <2>3, <2>5, <2>6
<1>5. \A t \in K : Weights[t] = W[t] /\ Weights[t] \in Nat
  <2>1. \A t \in K : Weights[t] = Exp(working[h] - working[t])
    BY <1>0, <1>2 DEF Weights, Left
  <2>2. working[h] = Scaled(BestScore)
    BY <1>0, <1>2, <1>4
  <2>3. \A t \in K : W[t] = Exp(Scaled(BestScore) - Scaled(scores[t]))
    OBVIOUS
  <2>4. \A t \in K : Weights[t] \in 0..Exp(0)
    BY <1>0, WeightsOfTokens
  <2> HIDE DEF K, W
  <2> QED BY <1>0, <2>1, <2>2, <2>3, <2>4, SamplingAssumption DEF SamplingAssumption
<1>6. ASSUME NEW S \in SUBSET K PROVE MassOf(S) = Mass(S)
  <2> DEFINE w == [t \in S |-> Exp(Scaled(BestScore) - Scaled(scores[t]))]
  <2>1. \A t \in S : Weights[t] = w[t] /\ Weights[t] \in Nat
    BY <1>5
  <2>2. IsFiniteSet(S)
    BY <1>0, FS_Subset
  <2>3. SumFunctionOnSet(Weights, S) = SumFunctionOnSet(w, S)
    <3> HIDE DEF w, K
    <3> QED BY <2>1, <2>2, SumOfEqual
  <2> QED BY <2>3 DEF MassOf, Mass
<1>7. Mass(K) = Mass(Tokens)
  <2>1. Mass(Tokens) = Mass(K) + Mass(Tokens \ K)
    BY <1>0, MassOfTokens
  <2>2. Mass(Tokens \ K) = 0
    <3>1. \A t \in Tokens \ K : Weights[t] \in Nat /\ Weights[t] <= 0
      BY <1>0, WeightsOfTokens DEF Left
    <3>2. IsFiniteSet(Tokens \ K) /\ Tokens \ K \in SUBSET Tokens
      BY TokensAreFinite, FS_Subset
    <3>3. SumFunctionOnSet(Weights, Tokens \ K) <= Cardinality(Tokens \ K) * 0
      <4> HIDE DEF K
      <4> QED BY <3>1, <3>2, SumIsBounded
    <3>4. Cardinality(Tokens \ K) * 0 = 0
      BY <3>2, FS_CardinalityType
    <3>5. Mass(Tokens \ K) \in Nat
      BY <3>2, MassOfTokens
    <3> QED BY <3>3, <3>4, <3>5 DEF Mass
  <2>3. Mass(K) \in Nat
    BY <1>0, MassOfTokens
  <2> QED BY <2>1, <2>2, <2>3
\* Of a token that is left the better ones are those behind it.
<1>8. ASSUME NEW t \in K
      PROVE  /\ better(t) = Tokens \ upto(t)
             /\ Mass(Tokens) = Mass(upto(t)) + MassOf(better(t))
             /\ (\E s \in Tokens : ~Ascending(s, t)) <=> better(t) # {}
  <2>1. ASSUME NEW s \in Tokens PROVE ~Ascending(s, t) <=> s \in K /\ Better(s, t)
    <3>1. CASE s \in K
      <4>1. /\ scores[s] > scores[t] <=> working[s] > working[t]
            /\ scores[s] = scores[t] <=> working[s] = working[t]
        BY <1>1, <3>1
      <4>2. s \in Int /\ t \in Int /\ working[s] \in Int /\ working[t] \in Int
        BY <1>0, <1>a, <3>1
      <4> HIDE DEF K
      <4> QED BY <3>1, <4>1, <4>2 DEF Ascending, Better
    <3>2. CASE s \notin K
      <4>1. working[s] = NegInf /\ working[t] # NegInf /\ t \in Tokens
        BY <1>0, <3>2 DEF Left
      <4>2. working[s] < working[t]
        BY <1>a, <4>1
      <4> HIDE DEF K
      <4> QED BY <3>2, <4>2 DEF Ascending
    <3> QED BY <3>1, <3>2
  <2>2. better(t) = Tokens \ upto(t) /\ upto(t) \in SUBSET Tokens /\ better(t) \in SUBSET K
    BY <1>0, <2>1
  <2>3. Mass(Tokens) = Mass(upto(t)) + Mass(Tokens \ upto(t))
    <3> HIDE DEF upto
    <3> QED BY <2>2, MassOfTokens
  <2>4. MassOf(better(t)) = Mass(better(t))
    <3> HIDE DEF better
    <3> QED BY <1>6, <2>2
  <2>5. (\E s \in Tokens : ~Ascending(s, t)) <=> better(t) # {}
    BY <1>0, <2>1
  <2> HIDE DEF better, upto
  <2> QED BY <2>2, <2>3, <2>4, <2>5
<1>9. ASSUME NEW t \in K
      PROVE  ~Dropped(t) <=> MassOf(better(t)) * PUnit < options.topP * MassOf(K)
  <2> DEFINE B == MassOf(better(t))
             U == Mass(upto(t))
             M == Mass(Tokens)
             p == options.topP
  <2>1. M = U + B /\ U \in Nat /\ B \in Nat /\ M \in Nat /\ 0 < M /\ MassOf(K) = M
    <3>1. better(t) \in SUBSET Tokens /\ upto(t) \in SUBSET Tokens /\ better(t) \in SUBSET K
      BY <1>0
    <3>2. MassOf(better(t)) = Mass(better(t)) /\ MassOf(K) = Mass(K)
      <4> HIDE DEF better, K
      <4> QED BY <1>6, <3>1
    <3>3. Mass(better(t)) \in Nat /\ Mass(upto(t)) \in Nat /\ Mass(Tokens) \in Nat /\ 0 < Mass(Tokens)
      <4> HIDE DEF better, upto
      <4> QED BY <3>1, MassOfTokens
    <3> HIDE DEF better, upto, K
    <3> QED BY <1>7, <1>8, <3>2, <3>3
  <2>2. p \in Nat /\ 0 < p /\ PUnit \in Nat
    BY SamplingAssumption DEF SamplingAssumption
  <2>3. U * PUnit <= (PUnit - p) * M <=> p * M <= B * PUnit
    <3> HIDE DEF B, U, M, p
    <3>1. M * PUnit = U * PUnit + B * PUnit
      BY <2>1, <2>2
    <3>2. (PUnit - p) * M = M * PUnit - p * M
      BY <2>1, <2>2
    <3>3. p * M \in Int /\ U * PUnit \in Int /\ B * PUnit \in Int /\ M * PUnit \in Int
      BY <2>1, <2>2
    <3> QED BY <3>1, <3>2, <3>3
  <2>4. better(t) = {} => B = 0
    BY SumOfNone DEF MassOf
  <2>5. 0 < p * M /\ p * M \in Int /\ B * PUnit \in Int
    <3> HIDE DEF B, U, M, p
    <3> QED BY <2>1, <2>2
  <2>6. Dropped(t) <=> better(t) # {} /\ U * PUnit <= (PUnit - p) * M
    <3>1. (\E s \in Tokens : ~Ascending(s, t)) <=> better(t) # {}
      BY <1>8
    <3> QED BY <3>1 DEF Dropped
  <2>7. B = 0 => B * PUnit = 0
    BY <2>2
  <2>8. ~Dropped(t) <=> B * PUnit < p * M
    <3> HIDE DEF B, U, M, p, better
    <3> QED BY <2>3, <2>4, <2>5, <2>6, <2>7
  <2>9. MassOf(K) = M
    BY <2>1
  <2>10. ~Dropped(t) <=> B * PUnit < p * MassOf(K)
    <3> HIDE DEF B, M, p, K, better
    <3> QED BY <2>8, <2>9
  <2> QED BY <2>10
<1>10. TopPKeeps = {t \in K : MassOf(better(t)) * PUnit < options.topP * MassOf(K)}
  BY DEF TopPKeeps
<1>11. \A t \in Tokens : working[t] # NegInf <=> t \in K
  BY <1>0 DEF Left
<1> HIDE DEF K, better
<1> QED BY <1>0, <1>9, <1>10, <1>11

-----------------------------------------------------------------------------
(* The draw. *)

\* Rounding makes nothing of no weight, and something of an average one.
LEMMA FloatOfWeight ==
  ASSUME NEW w \in Nat, NEW total \in Nat, 0 < total
  PROVE  /\ Float(w, total) \in Nat
         /\ w = 0 => Float(w, total) = 0
         /\ total <= 2 * w * FloatUnit => 0 < Float(w, total)
<1>0. FloatUnit \in Nat \ {0}
  BY SamplingAssumption DEF SamplingAssumption
<1> DEFINE a == 2 * w * FloatUnit
           n == a + total
           d == 2 * total
<1>1. a \in Nat /\ n \in Nat /\ d \in Nat /\ 0 < d /\ (w = 0 => a = 0)
  BY <1>0
<1>2. Float(w, total) = n \div d
  BY DEF Float
<1>3. d = 2 * total /\ n = a + total
  OBVIOUS
<1> HIDE DEF a, n, d
<1>4. n \div d \in Nat
  BY <1>1
<1>5. ASSUME a = 0 PROVE n \div d = 0
  BY <1>1, <1>3, <1>5
<1>6. ASSUME total <= a PROVE 0 < n \div d
  BY <1>1, <1>3, <1>6
<1> QED BY <1>1, <1>2, <1>4, <1>5, <1>6 DEF a

LEMMA WalkedOver ==
  ASSUME probabilities \in [Tokens -> Nat]
  PROVE  /\ \A S \in SUBSET Tokens : FloatMass(S) \in Nat
         /\ \A S, T \in SUBSET Tokens : S \subseteq T => FloatMass(S) <= FloatMass(T)
         /\ FloatMass(Before(0)) = 0
         /\ \A t \in Tokens : FloatMass(Before(t + 1)) = FloatMass(Before(t)) + probabilities[t]
<1>0. /\ IsFiniteSet(Tokens) /\ \A t \in Tokens : t \in Nat
      /\ \A t \in Tokens : probabilities[t] \in Nat
  BY TokensAreFinite
<1>1. \A S \in SUBSET Tokens : FloatMass(S) \in Nat
  BY <1>0, SumType DEF FloatMass
<1>2. ASSUME NEW S \in SUBSET Tokens, NEW T \in SUBSET Tokens, S \subseteq T
      PROVE  FloatMass(S) <= FloatMass(T)
  <2> DEFINE R == T \ S
  <2>1. T = S \cup R /\ S \cap R = {} /\ R \in SUBSET Tokens
    BY <1>2
  <2> HIDE DEF R
  <2>2. SumFunctionOnSet(probabilities, S \cup R)
          = SumFunctionOnSet(probabilities, S) + SumFunctionOnSet(probabilities, R)
    BY <1>0, <2>1, SumOfUnion
  <2>3. FloatMass(T) = FloatMass(S) + FloatMass(R)
    BY <2>1, <2>2 DEF FloatMass
  <2>4. FloatMass(S) \in Nat /\ FloatMass(R) \in Nat
    BY <1>1, <2>1
  <2> HIDE DEF FloatMass
  <2> QED BY <2>3, <2>4
<1>3. FloatMass(Before(0)) = 0
  <2>1. Before(0) = {}
    BY <1>0 DEF Before
  <2> QED BY <2>1, SumOfNone DEF FloatMass
<1>4. ASSUME NEW t \in Tokens
      PROVE  FloatMass(Before(t + 1)) = FloatMass(Before(t)) + probabilities[t]
  <2>0. t \in Nat
    BY <1>0
  <2>1. \A s \in Tokens : s < t + 1 <=> s < t \/ s = t
    BY <1>0, <2>0
  <2>2. /\ Before(t + 1) \in SUBSET Tokens /\ t \in Before(t + 1)
        /\ Before(t + 1) \ {t} = Before(t) /\ Before(t) \in SUBSET Tokens
    <3>1. \A s : s \in Before(t + 1) <=> s \in Tokens /\ s < t + 1
      BY DEF Before
    <3>2. \A s : s \in Before(t) <=> s \in Tokens /\ s < t
      BY DEF Before
    <3>3. ~(t < t) /\ t < t + 1
      BY <2>0
    <3> QED BY <2>1, <3>1, <3>2, <3>3
  <2> DEFINE B == Before(t + 1)
  <2>3. SumFunctionOnSet(probabilities, B)
          = probabilities[t] + SumFunctionOnSet(probabilities, B \ {t})
    <3>1. B \in SUBSET Tokens /\ t \in B
      BY <2>2
    <3> HIDE DEF B
    <3> QED BY <1>0, <3>1, SumOfElement
  <2>4. FloatMass(B) = probabilities[t] + FloatMass(Before(t))
    BY <2>2, <2>3 DEF FloatMass
  <2>5. FloatMass(Before(t)) \in Nat /\ probabilities[t] \in Nat
    BY <1>0, <1>1, <2>2
  <2> QED BY <2>4, <2>5
<1> QED BY <1>1, <1>2, <1>3, <1>4

-----------------------------------------------------------------------------
(* The actions. *)

LEMMA SameArguments ==
  ASSUME UNCHANGED <<scores, options>>
  PROVE  /\ TopKKeeps' = TopKKeeps /\ TopPKeeps' = TopPKeeps /\ Usable' = Usable
         /\ NoneIsInfinite' = NoneIsInfinite
         /\ \A t \in Tokens : Scaled(scores[t])' = Scaled(scores[t])
<1>1. /\ Usable' = Usable /\ NoneIsInfinite' = NoneIsInfinite
      /\ \A t \in Tokens : Scaled(scores[t])' = Scaled(scores[t])
  BY DEF Usable, NoneIsInfinite, Scaled
<1>2. TopKKeeps' = TopKKeeps
  BY <1>1 DEF TopKKeeps
<1>3. TopPKeeps' = TopPKeeps
  BY <1>2 DEF TopPKeeps, MassOf, BestScore, Better, Usable, Scaled
<1> QED BY <1>1, <1>2, <1>3

LEMMA InitInv == Init => IInv
<1> SUFFICES ASSUME Init PROVE IInv
  OBVIOUS
<1>1. TypeInv
  BY SamplingAssumption DEF Init, TypeInv, SamplingAssumption
<1> QED BY <1>1 DEF Init, IInv, OptionsInv, WorkingInv, LeftInv, DistributionInv, WalkInv,
           DrawSelectsItsToken, RefusedIsUnusable

\* What an exception needs, and what it leaves.
LEMMA RefuseInv ==
  ASSUME IInv, Refuse, stage \notin {"options", "invalid"},
         Usable = {} \/ \E t \in Tokens : scores[t] = PosInf
  PROVE  IInv'
<1>1. /\ UNCHANGED <<scores, options, working, probabilities, target, position, cumulative>>
      /\ stage' = "refused"
  BY DEF Refuse
<1>2. RefusedIsUnusable'
  BY <1>1, SameArguments DEF RefusedIsUnusable
<1>3. TypeInv' /\ OptionsInv'
  BY <1>1 DEF IInv, TypeInv, OptionsInv
<1> QED BY <1>1, <1>2, <1>3 DEF IInv, WorkingInv, LeftInv, DistributionInv, WalkInv,
           DrawSelectsItsToken

LEMMA ValidateInv ==
  ASSUME IInv, Validate
  PROVE  IInv'
<1>1. /\ UNCHANGED <<scores, options, working, probabilities, target, position, cumulative>>
      /\ stage' \in {"temperature", "invalid"} /\ stage = "options"
      /\ stage' = "temperature" => options.temperature > 0 /\ options.topP \in 1..PUnit
  BY DEF Validate
<1>2. TypeInv' /\ OptionsInv'
  BY <1>1 DEF IInv, TypeInv, OptionsInv
<1> QED BY <1>1, <1>2 DEF IInv, WorkingInv, LeftInv, DistributionInv, WalkInv,
           DrawSelectsItsToken, RefusedIsUnusable

\* The arguments after validation.
LEMMA Validated ==
  ASSUME IInv, stage \notin {"options", "invalid"}
  PROVE  /\ scores \in ScoreVectors /\ options \in Options /\ options.temperature > 0
         /\ options.topP \in 1..PUnit /\ options.topK \in Nat
         /\ working \in [Tokens -> Int]
BY SamplingAssumption DEF IInv, TypeInv, OptionsInv, Options, SamplingAssumption

LEMMA ScaleInv ==
  ASSUME IInv, Scale
  PROVE  IInv'
<1>0. stage = "temperature"
  BY DEF Scale
<1>1. CASE ~\E t \in Tokens : IsFinite(scores[t])
  <2>1. Usable = {} /\ Refuse
    BY <1>1 DEF Usable, Scale
  <2> QED BY <1>0, <2>1, RefuseInv
<1>2. CASE \E t \in Tokens : IsFinite(scores[t])
  <2>1. /\ UNCHANGED <<scores, options, probabilities, target, position, cumulative>>
        /\ stage' = "top_k" /\ working' = [t \in Tokens |-> Scaled(scores[t])]
    BY <1>2 DEF Scale
  <2>2. \A t \in Tokens : /\ Scaled(scores[t]) \in Int
                          /\ Scaled(scores[t]) = PosInf <=> scores[t] = PosInf
                          /\ Scaled(scores[t]) # NegInf <=> scores[t] \notin {NaN, NegInf}
    BY <1>0, Validated, ScaledScores
  <2>3. TypeInv' /\ OptionsInv'
    BY <1>0, <2>1, <2>2 DEF IInv, TypeInv, OptionsInv
  <2>4. \A t \in Tokens : working'[t] = Scaled(scores[t])' /\ working'[t] = Scaled(scores[t])
    BY <2>1, SameArguments
  <2>5. SomeAreLeft'
    BY <1>2, <2>2, <2>4 DEF SomeAreLeft, IsFinite
  <2>6. WorkingInv'
    BY <2>1, <2>2, <2>4, <2>5 DEF WorkingInv
  <2> QED BY <1>0, <2>1, <2>3, <2>6 DEF IInv, LeftInv, DistributionInv, WalkInv,
             DrawSelectsItsToken, RefusedIsUnusable
<1> QED BY <1>1, <1>2

LEMMA ApplyTopKInv ==
  ASSUME IInv, ApplyTopK
  PROVE  IInv'
<1> DEFINE off == options.topK = 0 \/ options.topK >= VocabularySize
           k == options.topK
<1>0. /\ stage = "top_k" /\ stage' = "top_p"
      /\ UNCHANGED <<scores, options, probabilities, target, position, cumulative>>
      /\ working' = IF off THEN working
                    ELSE [t \in Tokens |->
                           IF working[t] < Threshold(k) THEN NegInf ELSE working[t]]
  BY DEF ApplyTopK
<1>1. /\ \A t \in Tokens : working[t] = Scaled(scores[t])
      /\ \A t \in Tokens : scores[t] = PosInf => working[t] = PosInf
      /\ SomeAreLeft
  BY <1>0 DEF IInv, WorkingInv
<1>2. /\ scores \in ScoreVectors /\ options \in Options /\ options.temperature > 0
      /\ working \in [Tokens -> Int] /\ k \in Nat
  BY <1>0, Validated
<1>a. NegInf \in Int /\ NegInf < PosInf /\ PosInf \in Int /\ VocabularySize \in Nat
  BY SamplingAssumption DEF SamplingAssumption
<1>3. ~off => k \in 1..VocabularySize
  BY <1>2, <1>a
<1>4. ~off => /\ \E t \in Tokens : Threshold(k) = working[t]
              /\ \A t \in Tokens : working'[t] = IF working[t] < Threshold(k) THEN NegInf ELSE working[t]
  BY <1>0, <1>2, <1>3, ThresholdSeparates
<1>5. working' \in [Tokens -> Int]
  BY <1>0, <1>2, <1>a
<1>6. TypeInv' /\ OptionsInv'
  BY <1>0, <1>5 DEF IInv, TypeInv, OptionsInv
<1>7. ASSUME NEW t \in Tokens
      PROVE  /\ working'[t] \in {NegInf, Scaled(scores[t])}
             /\ scores[t] = PosInf => working'[t] = PosInf
  <2>1. CASE off
    BY <1>0, <1>1, <2>1
  <2>2. CASE ~off
    <3>1. PICK u \in Tokens : Threshold(k) = working[u]
      BY <1>4, <2>2
    <3>2. working[u] <= PosInf /\ working[u] \in Int
      BY <1>1, <1>2, ScaledScores
    <3>3. working'[t] = IF working[t] < Threshold(k) THEN NegInf ELSE working[t]
      BY <1>4, <2>2
    <3>4. scores[t] = PosInf => ~(working[t] < Threshold(k))
      BY <1>1, <1>a, <3>1, <3>2
    <3> QED BY <1>1, <3>3, <3>4
  <2> QED BY <2>1, <2>2
<1>8. \E t \in Tokens : working'[t] # NegInf
  <2>1. CASE off
    BY <1>0, <1>1, <2>1 DEF SomeAreLeft
  <2>2. CASE ~off
    <3>1. PICK h \in Tokens : \A t \in Tokens : working[t] <= working[h]
      BY <1>2, TokensAreFinite, ValuesOfTokens
    <3>2. PICK t \in Tokens : working[t] # NegInf
      BY <1>1 DEF SomeAreLeft
    <3>3. working[h] # NegInf
      <4>1. NegInf <= working[t] /\ working[t] \in Int /\ working[h] \in Int
        BY <1>1, <1>2, ScaledScores
      <4> QED BY <1>a, <3>1, <3>2, <4>1
    <3>4. ~(working[h] < Threshold(k))
      BY <1>2, <1>4, <2>2, <3>1
    <3> QED BY <1>4, <2>2, <3>3, <3>4
  <2> QED BY <2>1, <2>2
<1>9. WorkingInv'
  <2>1. \A t \in Tokens : working'[t] \in {NegInf, Scaled(scores[t])'}
                          /\ (scores'[t] = PosInf => working'[t] = PosInf)
    BY <1>0, <1>7, SameArguments
  <2>2. SomeAreLeft'
    BY <1>8 DEF SomeAreLeft
  <2> QED BY <1>0, <2>1, <2>2 DEF WorkingInv
<1>10. ASSUME NoneIsInfinite PROVE Left' = TopKKeeps
  <2>1. CASE off
    <3>1. Left' = Usable
      BY <1>0, <1>1, <1>2, <1>10, <2>1, ScaledScores DEF Left, Usable, IsFinite, NoneIsInfinite
    <3> QED BY <2>1, <3>1 DEF TopKKeeps
  <2>2. CASE ~off
    <3>1. Left' = {t \in Tokens : working[t] # NegInf /\ ~(working[t] < Threshold(k))}
      BY <1>4, <2>2 DEF Left
    <3>2. TopKKeeps = {t \in Usable : Cardinality({s \in Usable : scores[s] > scores[t]}) < k}
      BY <2>2 DEF TopKKeeps
    <3> HIDE DEF off, k
    <3>3. {t \in Tokens : working[t] # NegInf /\ ~(working[t] < Threshold(k))}
            = {t \in Usable : Cardinality({s \in Usable : scores[s] > scores[t]}) < k}
      BY <1>1, <1>2, <1>3, <1>10, <2>2, TopKFilters
    <3> QED BY <3>1, <3>2, <3>3
  <2> QED BY <2>1, <2>2
<1>11. LeftInv'
  BY <1>0, <1>10, SameArguments DEF LeftInv
<1> QED BY <1>0, <1>6, <1>9, <1>11 DEF IInv, DistributionInv, WalkInv,
           DrawSelectsItsToken, RefusedIsUnusable

LEMMA ApplyTopPInv ==
  ASSUME IInv, ApplyTopP
  PROVE  IInv'
<1>0. stage = "top_p"
  BY DEF ApplyTopP
<1>1. /\ \A t \in Tokens : working[t] \in {NegInf, Scaled(scores[t])}
      /\ \A t \in Tokens : scores[t] = PosInf => working[t] = PosInf
      /\ SomeAreLeft
  BY <1>0 DEF IInv, WorkingInv
<1>2. /\ scores \in ScoreVectors /\ options \in Options /\ options.temperature > 0
      /\ options.topP \in 1..PUnit /\ working \in [Tokens -> Int]
  BY <1>0, Validated
<1>3. CASE ~(options.topP = PUnit \/ HasDistribution)
  <2>1. \E t \in Tokens : scores[t] = PosInf
    BY <1>1, <1>2, <1>3, DistributionExists
  <2>2. Refuse
    BY <1>3 DEF ApplyTopP
  <2> QED BY <1>0, <2>1, <2>2, RefuseInv
<1>4. CASE options.topP = PUnit \/ HasDistribution
  <2>0. /\ UNCHANGED <<scores, options, probabilities, target, position, cumulative>>
        /\ stage' = "softmax"
        /\ working' = IF options.topP = PUnit THEN working
                      ELSE [t \in Tokens |-> IF Dropped(t) THEN NegInf ELSE working[t]]
    BY <1>4 DEF ApplyTopP
  <2>1. options.topP # PUnit =>
          /\ Filtered
          /\ \A t \in Tokens : working'[t] = IF Dropped(t) THEN NegInf ELSE working[t]
    BY <1>1, <1>2, <1>4, <2>0, DistributionExists
  <2>2. working' \in [Tokens -> Int]
    BY <1>2, <2>0, SamplingAssumption DEF SamplingAssumption
  <2>3. TypeInv' /\ OptionsInv'
    BY <1>0, <2>0, <2>2 DEF IInv, TypeInv, OptionsInv
  <2>4. \A t \in Tokens : /\ working'[t] \in {NegInf, Scaled(scores[t])}
                          /\ scores[t] = PosInf => working'[t] = PosInf
    <3>1. CASE options.topP = PUnit
      BY <1>1, <2>0, <3>1
    <3>2. CASE options.topP # PUnit
      BY <1>1, <2>1, <3>2 DEF Filtered
    <3> QED BY <3>1, <3>2
  <2>5. \E t \in Tokens : working'[t] # NegInf
    <3>1. CASE options.topP = PUnit
      BY <1>1, <2>0, <3>1 DEF SomeAreLeft
    <3>2. CASE options.topP # PUnit
      <4> DEFINE Highests == {t \in Tokens : working[t] = Highest}
                 id == [t \in Tokens |-> t]
      <4>1. Highests \in SUBSET Tokens /\ Highests # {} /\ id \in [Tokens -> Int]
        BY <1>2, HighestIsGreatest, TokensAreFinite
      <4>2. PICK n \in Highests : \A m \in Highests : m <= n
        <5>1. \E n \in Highests : \A m \in Highests : id[m] <= id[n]
          <6> HIDE DEF Highests, id
          <6> QED BY <4>1, ValuesOfTokens
        <5> QED BY <5>1
      <4>3. \A s \in Tokens : Ascending(s, n)
        <5> SUFFICES ASSUME NEW s \in Tokens PROVE Ascending(s, n)
          OBVIOUS
        <5>1. working[s] \in Int /\ working[n] \in Int /\ working[s] <= working[n]
          BY <1>2, HighestIsGreatest
        <5>2. working[s] = working[n] => s <= n
          BY <4>2
        <5> HIDE DEF Highests
        <5> QED BY <5>1, <5>2 DEF Ascending
      <4>4. ~Dropped(n)
        BY <4>3 DEF Dropped
      <4>5. working[n] # NegInf
        <5>1. PICK t \in Left : working[t] = Highest
          BY <1>2, <2>1, <3>2, WeightsOfTokens
        <5> QED BY <5>1 DEF Left
      <4> QED BY <2>1, <3>2, <4>4, <4>5
    <3> QED BY <3>1, <3>2
  <2>6. WorkingInv'
    <3>1. \A t \in Tokens : /\ working'[t] \in {NegInf, Scaled(scores[t])'}
                            /\ scores'[t] = PosInf => working'[t] = PosInf
      BY <2>0, <2>4, SameArguments
    <3>2. SomeAreLeft'
      BY <2>5 DEF SomeAreLeft
    <3> QED BY <2>0, <3>1, <3>2 DEF WorkingInv
  <2>7. ASSUME NoneIsInfinite PROVE Left' = TopPKeeps
    <3>0. Left = TopKKeeps
      BY <1>0, <2>7 DEF IInv, LeftInv
    <3>1. CASE options.topP = PUnit
      BY <2>0, <3>0, <3>1 DEF TopPKeeps, Left
    <3>2. CASE options.topP # PUnit
      <4>1. Left' = {t \in Tokens : working[t] # NegInf /\ ~Dropped(t)}
        BY <2>1, <3>2 DEF Left
      <4>2. {t \in Tokens : working[t] # NegInf /\ ~Dropped(t)} = TopPKeeps
        BY <1>2, <2>1, <3>0, <3>2, TopPFilters
      <4> QED BY <4>1, <4>2
    <3> QED BY <3>1, <3>2
  <2>8. LeftInv'
    BY <2>0, <2>7, SameArguments DEF LeftInv
  <2> QED BY <1>0, <2>0, <2>3, <2>6, <2>8 DEF IInv, DistributionInv, WalkInv,
             DrawSelectsItsToken, RefusedIsUnusable
<1> QED BY <1>3, <1>4


LEMMA DistributeInv ==
  ASSUME IInv, Distribute
  PROVE  IInv'
<1>0. stage = "softmax"
  BY DEF Distribute
<1>1. /\ \A t \in Tokens : working[t] \in {NegInf, Scaled(scores[t])}
      /\ \A t \in Tokens : scores[t] = PosInf => working[t] = PosInf
      /\ SomeAreLeft
  BY <1>0 DEF IInv, WorkingInv
<1>2. /\ scores \in ScoreVectors /\ options \in Options /\ options.temperature > 0
      /\ options.topP \in 1..PUnit /\ working \in [Tokens -> Int]
  BY <1>0, Validated
<1>3. CASE ~HasDistribution
  <2>1. \E t \in Tokens : scores[t] = PosInf
    BY <1>1, <1>2, <1>3, DistributionExists
  <2>2. Refuse
    BY <1>3 DEF Distribute
  <2> QED BY <1>0, <2>1, <2>2, RefuseInv
<1>4. CASE HasDistribution
  <2>0. /\ UNCHANGED <<scores, options, working, target, position, cumulative>>
        /\ stage' = "draw"
        /\ probabilities' = [t \in Tokens |-> Float(Weights[t], Mass(Tokens))]
    BY <1>4 DEF Distribute
  <2>1. Filtered
    BY <1>1, <1>2, <1>4, DistributionExists
  <2> DEFINE M == Mass(Tokens)
  <2>2. M \in Nat /\ 0 < M /\ M <= VocabularySize * Exp(0)
    BY <1>2, <2>1, MassOfTokens
  <2>3. \A t \in Tokens : Weights[t] \in Nat /\ (working[t] = NegInf => Weights[t] = 0)
    BY <1>2, <2>1, WeightsOfTokens DEF Weights
  <2>4. PICK h \in Tokens : Weights[h] = Exp(0)
    BY <1>2, <2>1, WeightsOfTokens DEF Left
  <2>5. M <= 2 * Exp(0) * FloatUnit
    <3>1. /\ Exp(0) \in Nat /\ FloatUnit \in Nat /\ VocabularySize \in Nat
          /\ VocabularySize <= 2 * FloatUnit
      BY SamplingAssumption DEF SamplingAssumption
    <3> DEFINE e == Exp(0)
    <3>2. VocabularySize * e <= 2 * e * FloatUnit
      <4>1. e \in Nat
        BY <3>1
      <4> HIDE DEF e
      <4> QED BY <3>1, <4>1
    <3>3. VocabularySize * e \in Nat /\ 2 * e * FloatUnit \in Nat
      <4>1. e \in Nat
        BY <3>1
      <4> HIDE DEF e
      <4> QED BY <3>1, <4>1
    <3> HIDE DEF M
    <3> QED BY <2>2, <3>2, <3>3
  <2>6. ASSUME NEW t \in Tokens
        PROVE  /\ probabilities'[t] \in Nat
               /\ Weights[t] = 0 => probabilities'[t] = 0
               /\ M <= 2 * Weights[t] * FloatUnit => 0 < probabilities'[t]
    <3>1. probabilities'[t] = Float(Weights[t], M) /\ Weights[t] \in Nat
      BY <2>0, <2>3
    <3> HIDE DEF M
    <3> QED BY <2>2, <3>1, FloatOfWeight
  <2>7. probabilities' \in [Tokens -> Nat]
    BY <2>0, <2>6
  <2>8. TypeInv' /\ OptionsInv'
    BY <1>0, <2>0, <2>7 DEF IInv, TypeInv, OptionsInv
  <2>9. NoneIsInfinite
    BY <1>1, <1>4 DEF HasDistribution, NoneIsInfinite
  <2>10. \A t \in Tokens : probabilities'[t] > 0 => working'[t] # NegInf
    BY <2>0, <2>3, <2>6
  <2>11. 0 < probabilities'[h]
    BY <2>4, <2>5, <2>6
  <2>12. DistributionInv'
    <3>1. \E t \in Tokens : probabilities'[t] > 0
      BY <2>6, <2>11
    <3>2. NoneIsInfinite'
      BY <2>0, <2>9, SameArguments
    <3> QED BY <2>10, <3>1, <3>2 DEF DistributionInv
  <2>13. LeftInv'
    BY <1>0, <2>0, SameArguments DEF IInv, LeftInv, Left
  <2>14. WorkingInv'
    BY <1>1, <2>0, SameArguments DEF WorkingInv, SomeAreLeft
  <2> QED BY <1>0, <2>0, <2>8, <2>12, <2>13, <2>14 DEF IInv, WalkInv,
             DrawSelectsItsToken, RefusedIsUnusable
<1> QED BY <1>3, <1>4

\* The walk changes neither the scores nor the distribution.
LEMMA WalkingInv ==
  ASSUME IInv, stage \in {"draw", "walk"}, stage' \in {"walk", "returned"},
         UNCHANGED <<scores, options, working, probabilities>>
  PROVE  /\ OptionsInv' /\ WorkingInv' /\ LeftInv' /\ DistributionInv'
         /\ RefusedIsUnusable'
<1>1. OptionsInv' /\ RefusedIsUnusable'
  BY DEF IInv, OptionsInv, RefusedIsUnusable
<1>2. WorkingInv'
  BY SameArguments DEF IInv, WorkingInv, SomeAreLeft
<1>3. LeftInv'
  BY SameArguments DEF IInv, LeftInv, Left
<1>4. DistributionInv'
  BY SameArguments DEF IInv, DistributionInv
<1> QED BY <1>1, <1>2, <1>3, <1>4

LEMMA DrawInv ==
  ASSUME IInv, NEW u \in 0..(Draws - 1), Draw(u)
  PROVE  IInv'
<1>0. /\ stage = "draw" /\ stage' = "walk" /\ target' = u
      /\ UNCHANGED <<scores, options, working, probabilities, position, cumulative, token>>
  BY DEF Draw
<1>1. Draws \in Nat \ {0} /\ FloatUnit \in Nat \ {0} /\ u \in Nat
  BY SamplingAssumption DEF SamplingAssumption
<1>2. TypeInv'
  BY <1>0, <1>1 DEF IInv, TypeInv
<1>3. position = 0 /\ cumulative = 0 /\ probabilities \in [Tokens -> Nat]
  BY <1>0 DEF IInv, WalkInv, TypeInv
<1>4. cumulative = FloatMass(Before(position))
  BY <1>3, WalkedOver
<1>5. cumulative' = FloatMass(Before(position))'
  BY <1>0, <1>4 DEF FloatMass, Before
<1>6. ~Reached(cumulative)'
  <2>1. u * FloatUnit >= 0 /\ 0 * Draws = 0 /\ u * FloatUnit \in Nat
    BY <1>1
  <2>2. ~(u * FloatUnit < 0 * Draws)
    BY <2>1
  <2>3. cumulative' = 0 /\ target' = u
    BY <1>0, <1>3
  <2> QED BY <2>2, <2>3 DEF Reached
<1>7. WalkInv'
  BY <1>0, <1>5, <1>6 DEF WalkInv
<1> QED BY <1>0, <1>2, <1>7, WalkingInv DEF IInv, DrawSelectsItsToken

LEMMA WalkStepInv ==
  ASSUME IInv, Walk
  PROVE  IInv'
<1>0. /\ stage = "walk" /\ position < VocabularySize
      /\ UNCHANGED <<scores, options, working, probabilities, target>>
      /\ cumulative' = cumulative + probabilities[position]
  BY DEF Walk
<1>1. /\ Draws \in Nat \ {0} /\ FloatUnit \in Nat \ {0} /\ VocabularySize \in Nat \ {0}
      /\ target \in Nat /\ position \in Nat /\ cumulative \in Nat
      /\ probabilities \in [Tokens -> Nat]
  BY SamplingAssumption DEF SamplingAssumption, IInv, TypeInv
<1>2. position \in Tokens /\ probabilities[position] \in Nat
  BY <1>0, <1>1 DEF Tokens
<1>3. cumulative = FloatMass(Before(position)) /\ ~Reached(cumulative)
  BY <1>0 DEF IInv, WalkInv
<1>4. cumulative' = FloatMass(Before(position + 1)) /\ cumulative' \in Nat
  BY <1>0, <1>1, <1>2, <1>3, WalkedOver
<1>5. cumulative * Draws <= target * FloatUnit
  BY <1>1, <1>3 DEF Reached
<1>6. CASE Reached(cumulative')
  <2>1. token' = position /\ stage' = "returned" /\ position' = position
    BY <1>0, <1>6 DEF Walk, Return
  <2>2. TypeInv'
    BY <1>0, <1>4, <2>1 DEF IInv, TypeInv
  <2>3. probabilities[position] > 0
    <3>1. cumulative' # cumulative
      BY <1>3, <1>6
    <3> QED BY <1>0, <1>1, <1>2, <3>1
  <2>4. WalkInv'
    BY <1>0, <1>2, <2>1, <2>3 DEF WalkInv
  <2>5. {t \in Tokens : t < position} = Before(position)
    BY DEF Before
  <2>6. {t \in Tokens : t <= position} = Before(position + 1)
    <3>1. \A t \in Tokens : t <= position <=> t < position + 1
      BY <1>1, TokensAreFinite
    <3> QED BY <3>1 DEF Before
  <2>7. FloatMass({t \in Tokens : t < position}) * Draws <= target * FloatUnit
    BY <1>3, <1>5, <2>5
  <2>8. target * FloatUnit < FloatMass({t \in Tokens : t <= position}) * Draws
    BY <1>4, <1>6, <2>6 DEF Reached
  <2>9. DrawSelectsItsToken'
    BY <1>0, <2>1, <2>7, <2>8 DEF DrawSelectsItsToken, FloatMass
  <2> QED BY <1>0, <2>1, <2>2, <2>4, <2>9, WalkingInv DEF IInv
<1>7. CASE ~Reached(cumulative')
  <2>1. position' = position + 1 /\ UNCHANGED <<stage, token>>
    BY <1>0, <1>7 DEF Walk
  <2>2. position' \in 0..VocabularySize
    BY <1>0, <1>1, <2>1
  <2>3. TypeInv'
    BY <1>0, <1>4, <2>1, <2>2 DEF IInv, TypeInv
  <2>4. cumulative' = FloatMass(Before(position))' /\ ~Reached(cumulative)'
    BY <1>0, <1>4, <1>7, <2>1 DEF FloatMass, Before, Reached
  <2>5. WalkInv'
    BY <1>0, <2>1, <2>4 DEF WalkInv
  <2> QED BY <1>0, <2>1, <2>3, <2>5, WalkingInv DEF IInv, DrawSelectsItsToken
<1> QED BY <1>6, <1>7

LEMMA FallBackInv ==
  ASSUME IInv, FallBack
  PROVE  IInv'
<1>0. stage = "walk" /\ position = VocabularySize
  BY DEF FallBack
<1>1. /\ Draws \in Nat \ {0} /\ FloatUnit \in Nat \ {0} /\ VocabularySize \in Nat \ {0}
      /\ target \in Nat /\ cumulative \in Nat /\ probabilities \in [Tokens -> Nat]
  BY SamplingAssumption DEF SamplingAssumption, IInv, TypeInv
<1>2. \E t \in Tokens : Possible(t)
  <2> DEFINE S == {t \in Tokens : probabilities[t] > 0}
             id == [t \in Tokens |-> t]
  <2>1. S \in SUBSET Tokens /\ S # {} /\ id \in [Tokens -> Int]
    BY <1>0, TokensAreFinite DEF IInv, DistributionInv
  <2>2. PICK n \in S : \A m \in S : id[m] <= id[n]
    <3> HIDE DEF S, id
    <3> QED BY <2>1, ValuesOfTokens
  <2>3. \A m \in S : m <= n
    BY <2>2
  <2>4. n \in Tokens /\ n \in Nat /\ probabilities[n] > 0
    BY <2>2, TokensAreFinite
  <2>5. ASSUME NEW s \in Tokens, s > n PROVE probabilities[s] = 0
    <3>1. s \in Nat /\ ~(s <= n)
      BY <2>4, <2>5, TokensAreFinite
    <3>2. s \notin S /\ probabilities[s] \in Nat
      BY <1>1, <2>3, <3>1
    <3> QED BY <3>2
  <2> QED BY <2>4, <2>5 DEF Possible
<1>3. PICK t \in Tokens : Possible(t) /\ token' = t /\ stage' = "returned"
  BY <1>2 DEF FallBack, Return
<1>4. UNCHANGED <<scores, options, working, probabilities, target, position, cumulative>>
  BY <1>2 DEF FallBack
<1>5. TypeInv'
  BY <1>3, <1>4 DEF IInv, TypeInv
<1>6. WalkInv'
  BY <1>3, <1>4 DEF WalkInv, Possible
<1>7. FloatMass({s \in Tokens : s < t}) * Draws <= target * FloatUnit
  <2>1. cumulative = FloatMass(Before(position)) /\ ~Reached(cumulative)
    BY <1>0 DEF IInv, WalkInv
  <2>2. {s \in Tokens : s < t} = Before(t) /\ Before(t) \in SUBSET Tokens
    BY DEF Before
  <2>3. \A s \in Tokens : s < VocabularySize
    BY <1>1 DEF Tokens
  <2>4. Before(position) = Tokens
    BY <1>0, <2>3 DEF Before
  <2>5. FloatMass(Before(t)) \in Nat /\ FloatMass(Before(t)) <= cumulative
    <3>1. Before(t) \subseteq Tokens /\ Tokens \in SUBSET Tokens
      BY <2>2
    <3> QED BY <1>1, <2>1, <2>2, <2>4, <3>1, WalkedOver
  <2>6. cumulative * Draws <= target * FloatUnit
    BY <1>1, <2>1 DEF Reached
  <2> DEFINE f == FloatMass(Before(t))
  <2>7. f * Draws <= cumulative * Draws /\ f * Draws \in Nat
    <3>1. f \in Nat /\ f <= cumulative
      BY <2>5
    <3> HIDE DEF f
    <3> QED BY <1>1, <3>1
  <2>8. cumulative * Draws \in Nat /\ target * FloatUnit \in Nat
    BY <1>1
  <2>9. f * Draws <= target * FloatUnit
    <3> HIDE DEF f
    <3> QED BY <2>6, <2>7, <2>8
  <2> QED BY <2>2, <2>9
<1>8. \A s \in Tokens : s > t => probabilities[s] = 0
  BY <1>3 DEF Possible
<1>9. DrawSelectsItsToken'
  BY <1>3, <1>4, <1>7, <1>8 DEF DrawSelectsItsToken, FloatMass
<1> QED BY <1>0, <1>3, <1>4, <1>5, <1>6, <1>9, WalkingInv DEF IInv

LEMMA NextInv == IInv /\ [Next]_vars => IInv'
<1> SUFFICES ASSUME IInv, [Next]_vars PROVE IInv'
  OBVIOUS
<1>1. CASE Validate
  BY <1>1, ValidateInv
<1>2. CASE Scale
  BY <1>2, ScaleInv
<1>3. CASE ApplyTopK
  BY <1>3, ApplyTopKInv
<1>4. CASE ApplyTopP
  BY <1>4, ApplyTopPInv
<1>5. CASE Distribute
  BY <1>5, DistributeInv
<1>6. CASE \E u \in 0..(Draws - 1) : Draw(u)
  BY <1>6, DrawInv
<1>7. CASE Walk
  BY <1>7, WalkStepInv
<1>8. CASE FallBack
  BY <1>8, FallBackInv
<1>9. CASE UNCHANGED vars
  <2>1. UNCHANGED <<scores, options, stage, working, probabilities, target, position,
                    cumulative, token>>
    BY <1>9 DEF vars
  <2>2. TypeInv' /\ OptionsInv' /\ RefusedIsUnusable'
    BY <2>1 DEF IInv, TypeInv, OptionsInv, RefusedIsUnusable, Usable
  <2>3. WorkingInv' /\ LeftInv' /\ DistributionInv'
    BY <2>1, SameArguments DEF IInv, WorkingInv, SomeAreLeft, LeftInv, Left, DistributionInv
  <2>4. WalkInv' /\ DrawSelectsItsToken'
    BY <2>1 DEF IInv, WalkInv, DrawSelectsItsToken, FloatMass, Before, Reached
  <2> QED BY <2>2, <2>3, <2>4 DEF IInv
<1> QED BY <1>1, <1>2, <1>3, <1>4, <1>5, <1>6, <1>7, <1>8, <1>9 DEF Next, Ended

-----------------------------------------------------------------------------
(* The theorems. *)

\* Every reachable state satisfies the invariant: types, what each filter has
\* left, a distribution with a token to draw, and a walk behind the draw.
THEOREM InductiveInvariant == Spec => []IInv
<1>1. Init => IInv
  BY InitInv
<1>2. IInv /\ [Next]_vars => IInv'
  BY NextInv
<1> QED BY <1>1, <1>2, PTL DEF Spec

\* The tokens that top-k and then top-p leave are those of the documented
\* reference: the k best of equal rank, and of these the fewest most likely ones
\* that reach p, for every row of scores and whatever the ties
\* (src/generation.cpp, apply_top_k and apply_top_p).
THEOREM KeptAlwaysReference == Spec => []KeptIsReference
<1>1. IInv => KeptIsReference
  BY DEF IInv, LeftInv, NoneIsInfinite, Left, KeptIsReference
<1> QED BY <1>1, InductiveInvariant, PTL

\* No draw returns a token that a filter, the rounding to float or its own score
\* has ruled out (sample_token).
THEOREM DrawnAlwaysPermitted == Spec => []DrawnIsPermitted
<1>1. IInv => DrawnIsPermitted
  <2> SUFFICES ASSUME IInv, stage = "returned" PROVE DrawnIsPermitted
    BY DEF DrawnIsPermitted
  <2>1. token \in Tokens /\ probabilities[token] > 0
    BY DEF IInv, WalkInv
  <2>2. working[token] # NegInf /\ NoneIsInfinite
    BY <2>1 DEF IInv, DistributionInv
  <2>3. working[token] = Scaled(scores[token])
    BY <2>1, <2>2 DEF IInv, WorkingInv
  <2>4. scores[token] \notin {NaN, NegInf}
    BY <2>1, <2>2, <2>3, Validated, ScaledScores
  <2>5. IsFinite(scores[token])
    BY <2>1, <2>2, <2>4 DEF IsFinite, NoneIsInfinite
  <2> QED BY <2>1, <2>2, <2>5 DEF DrawnIsPermitted
<1> QED BY <1>1, InductiveInvariant, PTL

\* The draw falls into the stretch of the token it selects, or behind all of
\* them when the last token with a probability is returned (sample_token).
THEOREM DrawAlwaysSelectsItsToken == Spec => []DrawSelectsItsToken
<1>1. IInv => DrawSelectsItsToken
  BY DEF IInv
<1> QED BY <1>1, InductiveInvariant, PTL

\* Neither the filters nor the walk fail on a row that has a usable score and
\* no infinite one.
THEOREM RefusedAlwaysUnusable == Spec => []RefusedIsUnusable
<1>1. IInv => RefusedIsUnusable
  BY DEF IInv
<1> QED BY <1>1, InductiveInvariant, PTL
=============================================================================
