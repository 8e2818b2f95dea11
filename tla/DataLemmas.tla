---------------------------- MODULE DataLemmas -----------------------------
(***************************************************************************)
(* Induction over the natural numbers and over finite sets as facts about  *)
(* sets, which need no operator to be instantiated; what follows from them *)
(* about the recursive functions in FlattenSeq, in SumFunctionOnSet and in *)
(* products over a sequence; and what Prefix and Append do to a text.      *)
(***************************************************************************)
EXTENDS Integers, SequencesExt, SequenceTheorems, FiniteSetTheorems,
        WellFoundedInduction, TextPrefix, TLAPS

\* A set of numbers has a least one.
LEMMA LeastNumber ==
  ASSUME NEW S \in SUBSET Nat, S # {}
  PROVE  \E n \in S : \A m \in S : n <= m
<1> DEFINE R == {ss \in Nat \X Nat : ss[1] < ss[2]}
<1>1. IsWellFoundedOn(R, Nat)
  BY NatLessThanWellFounded DEF OpToRel
<1>2. PICK n \in S : \A m \in S : ~(<<m, n>> \in R)
  <2> HIDE DEF R
  <2> QED BY <1>1, WFMin
<1>3. \A m \in S : m \in Nat /\ n \in Nat
  OBVIOUS
<1>4. \A m \in S : ~(m < n)
  BY <1>2, <1>3
<1> QED BY <1>3, <1>4

\* A set that has zero and with every number the next one has all numbers.
LEMMA Induction ==
  ASSUME NEW S, 0 \in S, \A n \in Nat : n \in S => n + 1 \in S
  PROVE  \A n \in Nat : n \in S
<1> SUFFICES ASSUME NEW n \in Nat, n \notin S PROVE FALSE
  OBVIOUS
<1>1. PICK m \in Nat \ S : \A k \in Nat \ S : m <= k
  BY LeastNumber
<1>2. m # 0 /\ m - 1 \in Nat /\ ~(m <= m - 1)
  BY <1>1
<1>3. m - 1 \in S
  BY <1>1, <1>2
<1> QED BY <1>2, <1>3, (m - 1) + 1 = m

\* A property of sets that a finite set has whenever its proper subsets do is
\* one of all subsets of a finite set.
LEMMA FiniteInduction ==
  ASSUME NEW A, IsFiniteSet(A), NEW P,
         \A S \in SUBSET A : (\A s \in SUBSET S : s # S => s \in P) => S \in P
  PROVE  \A S \in SUBSET A : S \in P
<1> SUFFICES ASSUME NEW T \in SUBSET A, T \notin P PROVE FALSE
  OBVIOUS
<1> DEFINE sizes == {n \in Nat : \E S \in SUBSET A : S \notin P /\ Cardinality(S) = n}
<1>1. \A S \in SUBSET A : IsFiniteSet(S) /\ Cardinality(S) \in Nat
  BY FS_Subset, FS_CardinalityType
<1>2. sizes # {} /\ sizes \in SUBSET Nat
  BY <1>1
<1>3. PICK n \in sizes : \A m \in sizes : n <= m
  <2> HIDE DEF sizes
  <2> QED BY <1>2, LeastNumber
<1>4. PICK S \in SUBSET A : S \notin P /\ Cardinality(S) = n
  BY <1>3
<1>5. PICK s \in SUBSET S : s # S /\ s \notin P
  BY <1>4
<1>6. Cardinality(s) < Cardinality(S) /\ Cardinality(s) \in Nat /\ Cardinality(S) \in Nat
  BY <1>1, <1>5, FS_Subset
<1>7. Cardinality(s) \in sizes
  BY <1>1, <1>5
<1>8. n <= Cardinality(s)
  <2> HIDE DEF sizes
  <2> QED BY <1>3, <1>7
<1> QED BY <1>4, <1>6, <1>8

\* Of finitely many numbers one is the greatest.
LEMMA GreatestValue ==
  ASSUME NEW A, IsFiniteSet(A), NEW f, \A x \in A : f[x] \in Int
  PROVE  \A S \in SUBSET A : S # {} => \E n \in S : \A m \in S : f[m] <= f[n]
<1> DEFINE P == {S \in SUBSET A : S # {} => \E n \in S : \A m \in S : f[m] <= f[n]}
<1>1. ASSUME NEW S \in SUBSET A, \A s \in SUBSET S : s # S => s \in P, S # {}
      PROVE  \E n \in S : \A m \in S : f[m] <= f[n]
  <2>1. PICK x \in S : TRUE
    BY <1>1
  <2>2. CASE S \ {x} = {}
    BY <2>1, <2>2
  <2>3. CASE S \ {x} # {}
    <3>1. S \ {x} \in P
      BY <1>1
    <3>2. PICK n \in S \ {x} : \A m \in S \ {x} : f[m] <= f[n]
      BY <2>3, <3>1
    <3>3. f[x] \in Int /\ f[n] \in Int
      OBVIOUS
    <3>4. CASE f[x] <= f[n]
      BY <3>2, <3>4
    <3>5. CASE f[n] < f[x]
      <4>1. \A m \in S : f[m] <= f[x]
        BY <3>2, <3>3, <3>5
      <4> QED BY <4>1
    <3> QED BY <3>3, <3>4, <3>5
  <2> QED BY <2>2, <2>3
<1>2. \A S \in SUBSET A : S \in P
  <2>1. \A S \in SUBSET A : (\A s \in SUBSET S : s # S => s \in P) => S \in P
    BY <1>1
  <2> HIDE DEF P
  <2> QED BY <2>1, FiniteInduction
<1> QED BY <1>2

-----------------------------------------------------------------------------
(* FlattenSeq. *)

\* Its definition by recursion defines a function.
LEMMA FlattenDefined ==
  ASSUME NEW T, NEW s \in Seq(Seq(T))
  PROVE  \E f : f = [i \in 1..Len(s) |-> IF i = 1 THEN s[i] ELSE f[i - 1] \o s[i]]
<1> DEFINE Upto(n) == \E g \in [1..n -> Seq(T)] :
                        \A i \in 1..n : g[i] = IF i = 1 THEN s[i] ELSE g[i - 1] \o s[i]
           S == {n \in Nat : n <= Len(s) => Upto(n)}
<1>0. Len(s) \in Nat /\ \A i \in 1..Len(s) : s[i] \in Seq(T)
  BY LenProperties, ElementOfSeq
<1>1. 0 \in S
  <2>1. \A i \in 1..0 : FALSE
    OBVIOUS
  <2>2. [i \in 1..0 |-> s] \in [1..0 -> Seq(T)]
    BY <2>1
  <2>3. Upto(0)
    BY <2>1, <2>2
  <2> QED BY <2>3
<1>2. ASSUME NEW n \in Nat, n \in S PROVE n + 1 \in S
  <2>0. SUFFICES ASSUME n + 1 <= Len(s) PROVE Upto(n + 1)
    <3> HIDE DEF Upto
    <3> QED OBVIOUS
  <2>a. Upto(n)
    <3> HIDE DEF Upto
    <3> QED BY <1>0, <1>2, <2>0
  <2>1. PICK g \in [1..n -> Seq(T)] :
          \A i \in 1..n : g[i] = IF i = 1 THEN s[i] ELSE g[i - 1] \o s[i]
    BY <2>a
  <2> DEFINE new == IF n = 0 THEN s[1] ELSE g[n] \o s[n + 1]
             h == [i \in 1..(n + 1) |-> IF i = n + 1 THEN new ELSE g[i]]
  <2>2. s[n + 1] \in Seq(T)
    BY <1>0, <2>0
  <2>3. new \in Seq(T)
    <3>1. CASE n = 0 BY <3>1, <2>2
    <3>2. CASE n # 0
      <4>1. g[n] \in Seq(T)
        BY <3>2
      <4> QED BY <4>1, <2>2, <3>2, ConcatProperties
    <3> QED BY <3>1, <3>2
  <2>4. h \in [1..(n + 1) -> Seq(T)]
    <3> HIDE DEF new
    <3> QED BY <2>3
  <2>5. ASSUME NEW i \in 1..(n + 1)
        PROVE  h[i] = IF i = 1 THEN s[i] ELSE h[i - 1] \o s[i]
    <3>1. CASE i = n + 1
      <4>1. h[i] = new
        BY <3>1
      <4>2. CASE n = 0 BY <3>1, <4>1, <4>2
      <4>3. CASE n # 0
        <5>1. i # 1 /\ i - 1 = n /\ n \in 1..(n + 1) /\ n # n + 1
          BY <3>1, <4>3
        <5>2. h[i - 1] = g[n]
          BY <5>1
        <5> QED BY <3>1, <4>1, <4>3, <5>1, <5>2
      <4> QED BY <4>2, <4>3
    <3>2. CASE i # n + 1
      <4>1. i \in 1..n /\ (i # 1 => i - 1 \in 1..n /\ i - 1 \in 1..(n + 1) /\ i - 1 # n + 1)
        BY <3>2
      <4>2. h[i] = g[i] /\ (i # 1 => h[i - 1] = g[i - 1])
        BY <3>2, <4>1
      <4> QED BY <2>1, <4>1, <4>2
    <3> QED BY <3>1, <3>2
  <2> HIDE DEF h
  <2> QED BY <2>4, <2>5
<1>3. Len(s) \in S
  <2> HIDE DEF S
  <2> QED BY <1>0, <1>1, <1>2, Induction
<1>4. PICK g \in [1..Len(s) -> Seq(T)] :
        \A i \in 1..Len(s) : g[i] = IF i = 1 THEN s[i] ELSE g[i - 1] \o s[i]
  BY <1>0, <1>3
<1>5. g = [i \in 1..Len(s) |-> IF i = 1 THEN s[i] ELSE g[i - 1] \o s[i]]
  BY <1>4
<1> QED BY <1>5

\* The elements of the sequences are the elements of the flat sequence.
LEMMA FlattenType ==
  ASSUME NEW T, NEW s \in Seq(Seq(T))
  PROVE  FlattenSeq(s) \in Seq(T)
<1> DEFINE IsFlatten(f) == f = [i \in 1..Len(s) |-> IF i = 1 THEN s[i] ELSE f[i - 1] \o s[i]]
           f == CHOOSE f : IsFlatten(f)
<1>0. Len(s) \in Nat /\ \A i \in 1..Len(s) : s[i] \in Seq(T)
  BY LenProperties, ElementOfSeq
<1>1. CASE Len(s) = 0
  <2>1. s = <<>>
    BY <1>1, EmptySeq
  <2>2. FlattenSeq(s) = <<>>
    BY <1>1, <2>1 DEF FlattenSeq
  <2> QED BY <2>2
<1>2. CASE Len(s) # 0
  <2>1. IsFlatten(f)
    BY FlattenDefined
  <2>2. FlattenSeq(s) = f[Len(s)]
    BY <1>2 DEF FlattenSeq
  <2> DEFINE S == {n \in Nat : n + 1 <= Len(s) => f[n + 1] \in Seq(T)}
  <2> HIDE DEF f
  <2>3. 0 \in S
    <3>1. 1 \in 1..Len(s)
      BY <1>0, <1>2
    <3>2. f[1] = s[1]
      BY <2>1, <3>1
    <3> QED BY <1>0, <3>1, <3>2
  <2>4. ASSUME NEW n \in Nat, n \in S PROVE n + 1 \in S
    <3> SUFFICES ASSUME n + 2 <= Len(s) PROVE f[n + 2] \in Seq(T)
      BY (n + 1) + 1 = n + 2
    <3>1. n + 2 \in 1..Len(s) /\ n + 2 # 1 /\ (n + 2) - 1 = n + 1
      BY <1>0
    <3>2. f[n + 2] = f[n + 1] \o s[n + 2]
      BY <2>1, <3>1
    <3>3. f[n + 1] \in Seq(T)
      BY <2>4, <1>0
    <3>4. s[n + 2] \in Seq(T)
      BY <1>0, <3>1
    <3> QED BY <3>2, <3>3, <3>4, ConcatProperties
  <2>5. Len(s) - 1 \in S
    <3> HIDE DEF S
    <3>1. Len(s) - 1 \in Nat
      BY <1>0, <1>2
    <3> QED BY <2>3, <2>4, <3>1, Induction
  <2>6. f[Len(s)] \in Seq(T)
    BY <1>0, <2>5, (Len(s) - 1) + 1 = Len(s)
  <2> QED BY <2>2, <2>6
<1> QED BY <1>1, <1>2

\* Induction over sequences.
LEMMA SequenceInduction ==
  ASSUME NEW T, NEW P, <<>> \in P,
         \A s \in Seq(T), x \in T : s \in P => Append(s, x) \in P
  PROVE  \A s \in Seq(T) : s \in P
<1> DEFINE S == {n \in Nat : \A s \in Seq(T) : Len(s) = n => s \in P}
<1>1. 0 \in S
  <2>1. \A s \in Seq(T) : Len(s) = 0 => s = <<>>
    BY EmptySeq
  <2> QED BY <2>1
<1>2. ASSUME NEW n \in Nat, n \in S PROVE n + 1 \in S
  <2>1. ASSUME NEW s \in Seq(T), Len(s) = n + 1 PROVE s \in P
    <3>1. s # <<>>
      BY <2>1, EmptySeq
    <3>2. PICK t \in Seq(T), x \in T : s = Append(t, x)
      BY <3>1, SequenceEmptyOrAppend
    <3>3. Len(t) = n
      <4>1. Len(s) = Len(t) + 1 /\ Len(t) \in Nat
        BY <3>2, AppendProperties, LenProperties
      <4> QED BY <2>1, <4>1
    <3> QED BY <1>2, <3>2, <3>3
  <2> QED BY <2>1
<1>3. \A n \in Nat : n \in S
  <2> HIDE DEF S
  <2> QED BY <1>1, <1>2, Induction
<1> QED BY <1>3, LenProperties

LEMMA FlattenEmpty == FlattenSeq(<<>>) = <<>>
BY DEF FlattenSeq

LEMMA FlattenUnfolds ==
  ASSUME NEW T, NEW s \in Seq(Seq(T)), Len(s) # 0
  PROVE  \E f : /\ f = [i \in 1..Len(s) |-> IF i = 1 THEN s[i] ELSE f[i - 1] \o s[i]]
                /\ FlattenSeq(s) = f[Len(s)]
<1> DEFINE IsFlatten(f) == f = [i \in 1..Len(s) |-> IF i = 1 THEN s[i] ELSE f[i - 1] \o s[i]]
           f == CHOOSE f : IsFlatten(f)
<1>1. IsFlatten(f)
  BY FlattenDefined
<1>2. FlattenSeq(s) = f[Len(s)]
  BY DEF FlattenSeq
<1> QED BY <1>1, <1>2

LEMMA FlattenAppend ==
  ASSUME NEW T, NEW s \in Seq(Seq(T)), NEW x \in Seq(T)
  PROVE  FlattenSeq(Append(s, x)) = FlattenSeq(s) \o x
<1> DEFINE IsFlatten(f, u) == f = [i \in 1..Len(u) |-> IF i = 1 THEN u[i] ELSE f[i - 1] \o u[i]]
           t == Append(s, x)
           n == Len(s)
<1>0. /\ n \in Nat /\ t \in Seq(Seq(T)) /\ Len(t) = n + 1 /\ t[n + 1] = x
      /\ \A i \in 1..n : t[i] = s[i]
  BY LenProperties, AppendProperties
<1>1. PICK g : IsFlatten(g, t) /\ FlattenSeq(t) = g[n + 1]
  <2>1. Len(t) # 0
    BY <1>0
  <2> HIDE DEF t
  <2>2. PICK g : IsFlatten(g, t) /\ FlattenSeq(t) = g[Len(t)]
    BY <1>0, <2>1, FlattenUnfolds
  <2> QED BY <1>0, <2>2
<1>2. IsFlatten(g, t)
  BY <1>1
<1>3. CASE n = 0
  <2>1. s = <<>> /\ FlattenSeq(s) = <<>>
    BY <1>3, EmptySeq, FlattenEmpty
  <2>2. g[1] = x
    <3> HIDE DEF t
    <3> QED BY <1>0, <1>2, <1>3
  <2>3. <<>> \o x = x
    BY ConcatEmptySeq
  <2> HIDE DEF t
  <2> QED BY <1>1, <1>3, <2>1, <2>2, <2>3 DEF t
<1>4. CASE n # 0
  <2>1. PICK f : IsFlatten(f, s) /\ FlattenSeq(s) = f[n]
    BY <1>4, FlattenUnfolds
  <2>2. IsFlatten(f, s)
    BY <2>1
  <2> DEFINE S == {k \in Nat : k + 1 <= n => g[k + 1] = f[k + 1]}
  <2> HIDE DEF t
  <2>3. 0 \in S
    <3>1. 1 \in 1..n /\ 1 \in 1..Len(t)
      BY <1>0, <1>4
    <3>2. f[1] = s[1] /\ g[1] = t[1]
      BY <1>2, <2>2, <3>1
    <3> QED BY <1>0, <3>1, <3>2
  <2>4. ASSUME NEW k \in Nat, k \in S PROVE k + 1 \in S
    <3> SUFFICES ASSUME k + 2 <= n PROVE g[k + 2] = f[k + 2]
      BY (k + 1) + 1 = k + 2
    <3>1. /\ k + 2 \in 1..n /\ k + 2 \in 1..Len(t) /\ k + 2 # 1 /\ (k + 2) - 1 = k + 1
      BY <1>0
    <3>2. f[k + 2] = f[k + 1] \o s[k + 2] /\ g[k + 2] = g[k + 1] \o t[k + 2]
      BY <1>2, <2>2, <3>1
    <3>3. g[k + 1] = f[k + 1]
      BY <2>4, <1>0
    <3> QED BY <1>0, <3>1, <3>2, <3>3
  <2>5. n - 1 \in S
    <3>1. n - 1 \in Nat
      BY <1>0, <1>4
    <3> HIDE DEF S, n
    <3> QED BY <2>3, <2>4, <3>1, Induction
  <2>6. g[n] = f[n]
    BY <1>0, <2>5, (n - 1) + 1 = n
  <2>7. g[n + 1] = g[n] \o t[n + 1]
    <3>1. n + 1 \in 1..Len(t) /\ n + 1 # 1 /\ (n + 1) - 1 = n
      BY <1>0, <1>4
    <3> HIDE DEF n
    <3> QED BY <1>2, <3>1
  <2> QED BY <1>0, <1>1, <2>1, <2>6, <2>7 DEF t
<1> QED BY <1>3, <1>4

LEMMA FlattenConcat ==
  ASSUME NEW T, NEW s \in Seq(Seq(T))
  PROVE  \A u \in Seq(Seq(T)) : FlattenSeq(s \o u) = FlattenSeq(s) \o FlattenSeq(u)
<1> DEFINE P == {u \in Seq(Seq(T)) : FlattenSeq(s \o u) = FlattenSeq(s) \o FlattenSeq(u)}
<1>0. FlattenSeq(s) \in Seq(T)
  BY FlattenType
<1>1. <<>> \in P
  <2>1. s \o <<>> = s /\ <<>> \in Seq(Seq(T)) /\ FlattenSeq(s) \o <<>> = FlattenSeq(s)
    BY <1>0, ConcatEmptySeq, EmptySeq
  <2> QED BY <2>1, FlattenEmpty
<1>2. ASSUME NEW u \in Seq(Seq(T)), NEW x \in Seq(T), u \in P PROVE Append(u, x) \in P
  <2>0. FlattenSeq(u) \in Seq(T) /\ s \o u \in Seq(Seq(T)) /\ <<x>> \in Seq(Seq(T))
    BY FlattenType, ConcatProperties
  <2>1. Append(u, x) \in Seq(Seq(T)) /\ s \o Append(u, x) = Append(s \o u, x)
    <3>1. Append(u, x) = u \o <<x>> /\ Append(s \o u, x) = (s \o u) \o <<x>>
      BY <2>0, AppendIsConcat
    <3>2. s \o (u \o <<x>>) = (s \o u) \o <<x>>
      BY <2>0, ConcatAssociative
    <3>3. Append(u, x) \in Seq(Seq(T))
      BY AppendProperties
    <3> QED BY <3>1, <3>2, <3>3
  <2>2. FlattenSeq(Append(s \o u, x)) = FlattenSeq(s \o u) \o x
    BY <2>0, FlattenAppend
  <2>3. FlattenSeq(Append(u, x)) = FlattenSeq(u) \o x
    BY FlattenAppend
  <2>4. (FlattenSeq(s) \o FlattenSeq(u)) \o x = FlattenSeq(s) \o (FlattenSeq(u) \o x)
    BY <1>0, <2>0, ConcatAssociative
  <2> QED BY <1>2, <2>1, <2>2, <2>3, <2>4
<1>3. \A u \in Seq(Seq(T)) : u \in P
  <2> HIDE DEF P
  <2> QED BY <1>1, <1>2, SequenceInduction
<1> QED BY <1>3

\* A sequence cut into its elements.
LEMMA FlattenSingletons ==
  ASSUME NEW T
  PROVE  \A s \in Seq(T) : FlattenSeq([k \in DOMAIN s |-> <<s[k]>>]) = s
<1> DEFINE Cut(s) == [k \in DOMAIN s |-> <<s[k]>>]
           P == {s \in Seq(T) : FlattenSeq(Cut(s)) = s}
<1>0. ASSUME NEW s \in Seq(T)
      PROVE  Cut(s) \in Seq(Seq(T)) /\ Len(Cut(s)) = Len(s) /\ Len(s) \in Nat
  <2>1. Len(s) \in Nat /\ DOMAIN s = 1..Len(s) /\ \A k \in 1..Len(s) : s[k] \in T
    BY LenProperties, ElementOfSeq
  <2>2. Cut(s) \in [1..Len(s) -> Seq(T)]
    BY <2>1
  <2>3. Cut(s) \in Seq(Seq(T))
    BY <2>1, <2>2, SeqDef
  <2>4. DOMAIN Cut(s) = 1..Len(Cut(s)) /\ Len(Cut(s)) \in Nat
    BY <2>3, LenProperties
  <2> QED BY <2>1, <2>2, <2>3, <2>4
<1>1. <<>> \in P
  <2>1. DOMAIN <<>> = {} /\ <<>> \in Seq(T)
    BY EmptySeq
  <2>2. Cut(<<>>) = <<>>
    <3>1. Cut(<<>>) \in Seq(Seq(T)) /\ Len(Cut(<<>>)) = 0
      <4>1. Len(<<>>) = 0
        OBVIOUS
      <4> HIDE DEF Cut
      <4> QED BY <1>0, <2>1, <4>1
    <3> HIDE DEF Cut
    <3> QED BY <3>1, EmptySeq
  <2> HIDE DEF Cut
  <2> QED BY <2>1, <2>2, FlattenEmpty
<1>2. ASSUME NEW s \in Seq(T), NEW x \in T, s \in P PROVE Append(s, x) \in P
  <2> DEFINE t == Append(s, x)
             n == Len(s)
  <2>1. /\ t \in Seq(T) /\ Len(t) = n + 1 /\ t[n + 1] = x /\ n \in Nat
        /\ \A i \in 1..n : t[i] = s[i]
    BY AppendProperties, LenProperties
  <2>2. DOMAIN t = 1..(n + 1) /\ DOMAIN s = 1..n
    BY <2>1, LenProperties
  <2> HIDE DEF t
  <2>3. /\ Cut(t) \in Seq(Seq(T)) /\ Len(Cut(t)) = n + 1
        /\ Cut(s) \in Seq(Seq(T)) /\ Len(Cut(s)) = n
    BY <1>0, <2>1
  <2>4. /\ Append(Cut(s), <<x>>) \in Seq(Seq(T))
        /\ Len(Append(Cut(s), <<x>>)) = n + 1
        /\ \A i \in 1..n : Append(Cut(s), <<x>>)[i] = Cut(s)[i]
        /\ Append(Cut(s), <<x>>)[n + 1] = <<x>>
    <3>1. <<x>> \in Seq(T)
      OBVIOUS
    <3> HIDE DEF Cut
    <3> QED BY <2>3, <3>1, AppendProperties
  <2>5. \A i \in 1..(n + 1) : Cut(t)[i] = Append(Cut(s), <<x>>)[i]
    <3> SUFFICES ASSUME NEW i \in 1..(n + 1) PROVE Cut(t)[i] = Append(Cut(s), <<x>>)[i]
      OBVIOUS
    <3>1. Cut(t)[i] = <<t[i]>>
      BY <2>2
    <3>2. CASE i = n + 1
      BY <2>1, <2>4, <3>1, <3>2
    <3>3. CASE i # n + 1
      <4>1. i \in 1..n
        BY <2>1, <3>3
      <4>2. Cut(s)[i] = <<s[i]>>
        BY <2>2, <4>1
      <4> QED BY <2>1, <2>4, <3>1, <4>1, <4>2
    <3> QED BY <3>2, <3>3
  <2>6. Cut(t) = Append(Cut(s), <<x>>)
    <3> HIDE DEF Cut
    <3> QED BY <2>3, <2>4, <2>5, SeqEqual
  <2>7. FlattenSeq(Append(Cut(s), <<x>>)) = s \o <<x>>
    <3>1. <<x>> \in Seq(T) /\ FlattenSeq(Cut(s)) = s
      BY <1>2
    <3> HIDE DEF Cut
    <3> QED BY <2>3, <3>1, FlattenAppend
  <2>8. t = s \o <<x>>
    BY AppendIsConcat DEF t
  <2> HIDE DEF Cut
  <2> QED BY <2>1, <2>6, <2>7, <2>8 DEF t
<1>3. \A s \in Seq(T) : s \in P
  <2> HIDE DEF P
  <2> QED BY <1>1, <1>2, SequenceInduction
<1> QED BY <1>3

-----------------------------------------------------------------------------
(* A function applied to every element of a sequence. *)

Each(f, s) == [k \in DOMAIN s |-> f[s[k]]]

Maps(f, T, V) == \A x \in T : f[x] \in V

LEMMA EachType ==
  ASSUME NEW T, NEW V, NEW f, Maps(f, T, V), NEW s \in Seq(T)
  PROVE  /\ Each(f, s) \in Seq(V) /\ Len(Each(f, s)) = Len(s)
         /\ \A k \in 1..Len(s) : Each(f, s)[k] = f[s[k]]
<1>1. Len(s) \in Nat /\ DOMAIN s = 1..Len(s) /\ \A k \in 1..Len(s) : s[k] \in T
  BY LenProperties, ElementOfSeq
<1>2. Each(f, s) \in [1..Len(s) -> V] /\ \A k \in 1..Len(s) : Each(f, s)[k] = f[s[k]]
  BY <1>1 DEF Each, Maps
<1>3. Each(f, s) \in Seq(V)
  BY <1>1, <1>2, SeqDef
<1>4. DOMAIN Each(f, s) = 1..Len(Each(f, s)) /\ Len(Each(f, s)) \in Nat
  BY <1>3, LenProperties
<1>5. Len(Each(f, s)) = Len(s)
  BY <1>1, <1>2, <1>3, <1>4 DEF Each
<1> QED BY <1>2, <1>3, <1>5

LEMMA EachConcat ==
  ASSUME NEW T, NEW V, NEW f, Maps(f, T, V), NEW s \in Seq(T), NEW u \in Seq(T)
  PROVE  Each(f, s \o u) = Each(f, s) \o Each(f, u)
<1> DEFINE w == s \o u
           mw == Each(f, w)
           ms == Each(f, s)
           mu == Each(f, u)
<1>1. /\ w \in Seq(T) /\ Len(w) = Len(s) + Len(u) /\ Len(s) \in Nat /\ Len(u) \in Nat
      /\ \A i \in 1..(Len(s) + Len(u)) : w[i] = IF i <= Len(s) THEN s[i] ELSE u[i - Len(s)]
  BY ConcatProperties, LenProperties
<1> HIDE DEF w
<1>2. /\ ms \in Seq(V) /\ Len(ms) = Len(s) /\ \A k \in 1..Len(s) : ms[k] = f[s[k]]
      /\ mu \in Seq(V) /\ Len(mu) = Len(u) /\ \A k \in 1..Len(u) : mu[k] = f[u[k]]
      /\ mw \in Seq(V) /\ Len(mw) = Len(w) /\ \A k \in 1..Len(w) : mw[k] = f[w[k]]
  <2>1. ms \in Seq(V) /\ Len(ms) = Len(s) /\ \A k \in 1..Len(s) : ms[k] = f[s[k]]
    BY EachType
  <2>2. mu \in Seq(V) /\ Len(mu) = Len(u) /\ \A k \in 1..Len(u) : mu[k] = f[u[k]]
    BY EachType
  <2>3. mw \in Seq(V) /\ Len(mw) = Len(w) /\ \A k \in 1..Len(w) : mw[k] = f[w[k]]
    BY <1>1, EachType
  <2> QED BY <2>1, <2>2, <2>3
<1> HIDE DEF ms, mu, mw
<1>3. /\ ms \o mu \in Seq(V) /\ Len(ms \o mu) = Len(s) + Len(u)
      /\ \A i \in 1..(Len(s) + Len(u)) :
           (ms \o mu)[i] = IF i <= Len(s) THEN ms[i] ELSE mu[i - Len(s)]
  <2>1. ms \in Seq(V) /\ mu \in Seq(V)
    BY <1>2
  <2>2. /\ ms \o mu \in Seq(V) /\ Len(ms \o mu) = Len(ms) + Len(mu)
        /\ \A i \in 1..(Len(ms) + Len(mu)) :
             (ms \o mu)[i] = IF i <= Len(ms) THEN ms[i] ELSE mu[i - Len(ms)]
    BY <2>1, ConcatProperties
  <2>3. Len(ms) = Len(s) /\ Len(mu) = Len(u)
    BY <1>2
  <2> QED BY <2>2, <2>3
<1>4. ASSUME NEW i \in 1..Len(w) PROVE mw[i] = (ms \o mu)[i]
  <2>1. i \in 1..(Len(s) + Len(u)) /\ mw[i] = f[w[i]]
    BY <1>1, <1>2
  <2>2. CASE i <= Len(s)
    <3>1. i \in 1..Len(s)
      BY <1>1, <2>1, <2>2
    <3> QED BY <1>1, <1>2, <1>3, <2>1, <2>2, <3>1
  <2>3. CASE ~(i <= Len(s))
    <3>1. i - Len(s) \in 1..Len(u)
      BY <1>1, <2>1, <2>3
    <3> QED BY <1>1, <1>2, <1>3, <2>1, <2>3, <3>1
  <2> QED BY <2>2, <2>3
<1>5. mw = ms \o mu
  BY <1>1, <1>2, <1>3, <1>4, SeqEqual
<1> QED BY <1>5 DEF mw, ms, mu, w

-----------------------------------------------------------------------------
(* Sums over finite sets. *)

AnyOf(s) == CHOOSE x \in s : TRUE

IsSum(g, f, A) ==
  g = [s \in SUBSET A |-> IF s = {} THEN 0 ELSE f[AnyOf(s)] + g[s \ {AnyOf(s)}]]

\* The definition of the community modules.
LEMMA SumUnfolds ==
  ASSUME NEW f, NEW S
  PROVE  SumFunctionOnSet(f, S) = (CHOOSE g : IsSum(g, f, S))[S]
BY DEF SumFunctionOnSet, FoldFunctionOnSet, MapThenFoldSet, IsSum, AnyOf

LEMMA AnyOfElement ==
  ASSUME NEW S, S # {}
  PROVE  AnyOf(S) \in S
BY DEF AnyOf

LEMMA SumIsUnique ==
  ASSUME NEW A, IsFiniteSet(A), NEW B \in SUBSET A, NEW f, NEW g, NEW h,
         IsSum(g, f, A), IsSum(h, f, B)
  PROVE  \A s \in SUBSET B : g[s] = h[s]
<1> DEFINE P == {s \in SUBSET B : g[s] = h[s]}
<1>1. IsFiniteSet(B)
  BY FS_Subset
<1>2. ASSUME NEW S \in SUBSET B, \A s \in SUBSET S : s # S => s \in P
      PROVE  S \in P
  <2>1. CASE S = {}
    BY <2>1 DEF IsSum
  <2>2. CASE S # {}
    <3> DEFINE c == AnyOf(S)
    <3>1. c \in S
      BY <2>2, AnyOfElement
    <3> HIDE DEF c
    <3>2. S \ {c} \in SUBSET S /\ S \ {c} # S
      BY <3>1
    <3>3. g[S \ {c}] = h[S \ {c}]
      BY <1>2, <3>2
    <3>4. g[S] = f[c] + g[S \ {c}]
      BY <2>2 DEF IsSum, c
    <3>5. h[S] = f[c] + h[S \ {c}]
      BY <2>2 DEF IsSum, c
    <3> QED BY <3>3, <3>4, <3>5
  <2> QED BY <2>1, <2>2
<1>3. \A S \in SUBSET B : S \in P
  <2> HIDE DEF P
  <2> QED BY <1>1, <1>2, FiniteInduction
<1> QED BY <1>3

\* Where the recursion has a solution, it is the sum.
LEMMA SumIfDefined ==
  ASSUME NEW S, IsFiniteSet(S), NEW f, NEW h, IsSum(h, f, S)
  PROVE  \A s \in SUBSET S : SumFunctionOnSet(f, s) = h[s]
<1> SUFFICES ASSUME NEW s \in SUBSET S PROVE SumFunctionOnSet(f, s) = h[s]
  OBVIOUS
<1> DEFINE k == [r \in SUBSET s |-> h[r]]
           g == CHOOSE g : IsSum(g, f, s)
<1>1. IsSum(k, f, s)
  <2> SUFFICES ASSUME NEW r \in SUBSET s
               PROVE  h[r] = IF r = {} THEN 0 ELSE f[AnyOf(r)] + k[r \ {AnyOf(r)}]
    BY DEF IsSum
  <2>1. r \in SUBSET S /\ r \ {AnyOf(r)} \in SUBSET s
    OBVIOUS
  <2>2. k[r \ {AnyOf(r)}] = h[r \ {AnyOf(r)}]
    BY <2>1
  <2> QED BY <2>1, <2>2 DEF IsSum
<1> HIDE DEF k
<1>2. IsSum(g, f, s)
  BY <1>1
<1> HIDE DEF g
<1>3. g[s] = h[s]
  BY <1>2, SumIsUnique
<1> QED BY <1>3, SumUnfolds DEF g

LEMMA SumDefined ==
  ASSUME NEW A, IsFiniteSet(A), NEW f
  PROVE  \E g : IsSum(g, f, A)
<1> DEFINE P == {S \in SUBSET A : \E g : IsSum(g, f, S)}
<1>1. ASSUME NEW S \in SUBSET A, \A s \in SUBSET S : s # S => s \in P
      PROVE  \E g : IsSum(g, f, S)
  <2> DEFINE Sum(s) == SumFunctionOnSet(f, s)
             Next(s) == IF s = {} THEN 0 ELSE f[AnyOf(s)] + Sum(s \ {AnyOf(s)})
             g == [s \in SUBSET S |-> IF s = S THEN Next(S) ELSE Sum(s)]
  <2>1. ASSUME NEW s \in SUBSET S, s # S PROVE Sum(s) = Next(s)
    <3>1. PICK h : IsSum(h, f, s)
      BY <1>1, <2>1
    <3>2. IsFiniteSet(s) /\ s \ {AnyOf(s)} \in SUBSET s
      BY FS_Subset
    <3>3. Sum(s) = h[s] /\ Sum(s \ {AnyOf(s)}) = h[s \ {AnyOf(s)}]
      BY <3>1, <3>2, SumIfDefined
    <3>4. h[s] = IF s = {} THEN 0 ELSE f[AnyOf(s)] + h[s \ {AnyOf(s)}]
      BY <3>1 DEF IsSum
    <3> QED BY <3>3, <3>4
  <2>2. ASSUME NEW s \in SUBSET S, s # {}
        PROVE  g[s \ {AnyOf(s)}] = Sum(s \ {AnyOf(s)})
    <3>1. AnyOf(s) \in s
      BY <2>2, AnyOfElement
    <3>2. s \ {AnyOf(s)} \in SUBSET S /\ s \ {AnyOf(s)} # S
      BY <3>1
    <3> HIDE DEF Next, Sum
    <3> QED BY <3>2
  <2>3. ASSUME NEW s \in SUBSET S PROVE g[s] = Next(s)
    <3> HIDE DEF Next, Sum
    <3> QED BY <2>1
  <2>4. g = [s \in SUBSET S |-> IF s = {} THEN 0 ELSE f[AnyOf(s)] + g[s \ {AnyOf(s)}]]
    <3>1. \A s \in SUBSET S :
            g[s] = IF s = {} THEN 0 ELSE f[AnyOf(s)] + g[s \ {AnyOf(s)}]
      <4> HIDE DEF g, Sum
      <4> QED BY <2>2, <2>3
    <3>2. g = [s \in SUBSET S |-> g[s]]
      OBVIOUS
    <3> HIDE DEF g
    <3> QED BY <3>1, <3>2
  <2> HIDE DEF g
  <2> QED BY <2>4 DEF IsSum
<1>2. \A S \in SUBSET A : S \in P
  <2>1. \A S \in SUBSET A : (\A s \in SUBSET S : s # S => s \in P) => S \in P
    BY <1>1
  <2> HIDE DEF P
  <2> QED BY <2>1, FiniteInduction
<1> QED BY <1>2

LEMMA SumOfNone ==
  ASSUME NEW f
  PROVE  SumFunctionOnSet(f, {}) = 0
<1>1. PICK g : IsSum(g, f, {})
  BY SumDefined, FS_EmptySet
<1>2. SumFunctionOnSet(f, {}) = g[{}]
  BY <1>1, SumIfDefined, FS_EmptySet
<1> QED BY <1>1, <1>2 DEF IsSum

LEMMA SumOfChosen ==
  ASSUME NEW f, NEW S, IsFiniteSet(S), S # {}
  PROVE  SumFunctionOnSet(f, S)
           = f[AnyOf(S)] + SumFunctionOnSet(f, S \ {AnyOf(S)})
<1>1. PICK g : IsSum(g, f, S)
  BY SumDefined
<1>2. S \ {AnyOf(S)} \in SUBSET S
  OBVIOUS
<1>3. /\ SumFunctionOnSet(f, S) = g[S]
      /\ SumFunctionOnSet(f, S \ {AnyOf(S)}) = g[S \ {AnyOf(S)}]
  BY <1>1, <1>2, SumIfDefined
<1> QED BY <1>1, <1>3 DEF IsSum

LEMMA SumType ==
  ASSUME NEW A, IsFiniteSet(A), NEW f, \A x \in A : f[x] \in Nat
  PROVE  \A S \in SUBSET A : SumFunctionOnSet(f, S) \in Nat
<1> DEFINE P == {S \in SUBSET A : SumFunctionOnSet(f, S) \in Nat}
<1>1. ASSUME NEW S \in SUBSET A, \A s \in SUBSET S : s # S => s \in P
      PROVE  S \in P
  <2>1. CASE S = {}
    BY <2>1, SumOfNone
  <2>2. CASE S # {}
    <3>1. AnyOf(S) \in S
      BY <2>2, AnyOfElement
    <3>2. S \ {AnyOf(S)} \in P
      <4>1. S \ {AnyOf(S)} \in SUBSET S /\ S \ {AnyOf(S)} # S
        BY <3>1
      <4> HIDE DEF P
      <4> QED BY <1>1, <4>1
    <3>3. f[AnyOf(S)] \in Nat
      BY <3>1
    <3>4. IsFiniteSet(S)
      BY FS_Subset
    <3>5. SumFunctionOnSet(f, S) = f[AnyOf(S)] + SumFunctionOnSet(f, S \ {AnyOf(S)})
      BY <2>2, <3>4, SumOfChosen
    <3> QED BY <3>2, <3>3, <3>5
  <2> QED BY <2>1, <2>2
<1>2. \A S \in SUBSET A : S \in P
  <2> HIDE DEF P
  <2> QED BY <1>1, FiniteInduction
<1> QED BY <1>2

\* Any element may be taken out of a sum.
LEMMA SumOfElement ==
  ASSUME NEW A, IsFiniteSet(A), NEW f, \A x \in A : f[x] \in Nat
  PROVE  \A S \in SUBSET A : \A x \in S :
           SumFunctionOnSet(f, S) = f[x] + SumFunctionOnSet(f, S \ {x})
<1> DEFINE Sum(s) == SumFunctionOnSet(f, s)
           P == {S \in SUBSET A : \A x \in S : Sum(S) = f[x] + Sum(S \ {x})}
<1>0. \A S \in SUBSET A : Sum(S) \in Nat
  BY SumType
<1>1. ASSUME NEW S \in SUBSET A, \A s \in SUBSET S : s # S => s \in P, NEW x \in S
      PROVE  Sum(S) = f[x] + Sum(S \ {x})
  <2> DEFINE c == AnyOf(S)
  <2>1. c \in S
    BY AnyOfElement
  <2>2. Sum(S) = f[c] + Sum(S \ {c})
    BY SumOfChosen, FS_Subset
  <2> HIDE DEF c, Sum
  <2>3. CASE x = c
    BY <2>2, <2>3
  <2>4. CASE x # c
    <3>1. S \ {c} \in SUBSET S /\ S \ {c} # S /\ x \in S \ {c}
      BY <2>1, <2>4
    <3>2. S \ {x} \in SUBSET S /\ S \ {x} # S /\ c \in S \ {x}
      BY <2>1, <2>4
    <3>3. Sum(S \ {c}) = f[x] + Sum((S \ {c}) \ {x})
      BY <1>1, <3>1
    <3>4. Sum(S \ {x}) = f[c] + Sum((S \ {x}) \ {c})
      BY <1>1, <3>2
    <3>5. (S \ {x}) \ {c} = (S \ {c}) \ {x}
      OBVIOUS
    <3>6. f[x] \in Nat /\ f[c] \in Nat /\ Sum((S \ {c}) \ {x}) \in Nat
      <4>1. (S \ {c}) \ {x} \in SUBSET A
        OBVIOUS
      <4> QED BY <1>0, <2>1, <4>1
    <3> QED BY <2>2, <3>3, <3>4, <3>5, <3>6
  <2> QED BY <2>3, <2>4
<1>2. \A S \in SUBSET A : S \in P
  <2>1. \A S \in SUBSET A : (\A s \in SUBSET S : s # S => s \in P) => S \in P
    <3> HIDE DEF Sum
    <3> QED BY <1>1
  <2> HIDE DEF P
  <2> QED BY <2>1, FiniteInduction
<1> QED BY <1>2

\* The sum over two sets without a common element.
LEMMA SumOfUnion ==
  ASSUME NEW A, IsFiniteSet(A), NEW f, \A x \in A : f[x] \in Nat, NEW T \in SUBSET A
  PROVE  \A S \in SUBSET A : S \cap T = {} =>
           SumFunctionOnSet(f, S \cup T) = SumFunctionOnSet(f, S) + SumFunctionOnSet(f, T)
<1> DEFINE Sum(s) == SumFunctionOnSet(f, s)
           P == {S \in SUBSET A : S \cap T = {} => Sum(S \cup T) = Sum(S) + Sum(T)}
<1>0. \A S \in SUBSET A : Sum(S) \in Nat
  BY SumType
<1>1. ASSUME NEW S \in SUBSET A, \A s \in SUBSET S : s # S => s \in P, S \cap T = {}
      PROVE  Sum(S \cup T) = Sum(S) + Sum(T)
  <2>1. CASE S = {}
    <3>1. S \cup T = T /\ Sum(S) = 0
      BY <2>1, SumOfNone
    <3> HIDE DEF Sum
    <3> QED BY <1>0, <3>1
  <2>2. CASE S # {}
    <3>1. PICK x \in S : TRUE
      BY <2>2
    <3>2. Sum(S) = f[x] + Sum(S \ {x})
      BY SumOfElement
    <3>3. Sum(S \cup T) = f[x] + Sum((S \cup T) \ {x})
      BY SumOfElement
    <3>4. (S \cup T) \ {x} = (S \ {x}) \cup T
      BY <1>1
    <3>5. S \ {x} \in SUBSET S /\ S \ {x} # S /\ (S \ {x}) \cap T = {}
      BY <1>1
    <3> HIDE DEF Sum
    <3>6. Sum((S \ {x}) \cup T) = Sum(S \ {x}) + Sum(T)
      BY <1>1, <3>5
    <3>7. f[x] \in Nat /\ Sum(S \ {x}) \in Nat /\ Sum(T) \in Nat
      BY <1>0
    <3> QED BY <3>2, <3>3, <3>4, <3>6, <3>7
  <2> QED BY <2>1, <2>2
<1>2. \A S \in SUBSET A : S \in P
  <2>1. \A S \in SUBSET A : (\A s \in SUBSET S : s # S => s \in P) => S \in P
    <3> HIDE DEF Sum
    <3> QED BY <1>1
  <2> HIDE DEF P
  <2> QED BY <2>1, FiniteInduction
<1> QED BY <1>2

\* A sum depends on the summands only.
LEMMA SumOfEqual ==
  ASSUME NEW A, IsFiniteSet(A), NEW f, NEW g, \A x \in A : f[x] \in Nat,
         \A x \in A : f[x] = g[x]
  PROVE  SumFunctionOnSet(f, A) = SumFunctionOnSet(g, A)
<1> DEFINE P == {S \in SUBSET A : SumFunctionOnSet(f, S) = SumFunctionOnSet(g, S)}
<1>1. ASSUME NEW S \in SUBSET A, \A s \in SUBSET S : s # S => s \in P
      PROVE  S \in P
  <2>1. CASE S = {}
    BY <2>1, SumOfNone
  <2>2. CASE S # {}
    <3>1. AnyOf(S) \in S
      BY <2>2, AnyOfElement
    <3>2. S \ {AnyOf(S)} \in P
      <4>1. S \ {AnyOf(S)} \in SUBSET S /\ S \ {AnyOf(S)} # S
        BY <3>1
      <4> HIDE DEF P
      <4> QED BY <1>1, <4>1
    <3>3. IsFiniteSet(S)
      BY FS_Subset
    <3>4. SumFunctionOnSet(f, S) = f[AnyOf(S)] + SumFunctionOnSet(f, S \ {AnyOf(S)})
      BY <2>2, <3>3, SumOfChosen
    <3>5. SumFunctionOnSet(g, S) = g[AnyOf(S)] + SumFunctionOnSet(g, S \ {AnyOf(S)})
      BY <2>2, <3>3, SumOfChosen
    <3> QED BY <3>1, <3>2, <3>4, <3>5
  <2> QED BY <2>1, <2>2
<1>2. \A S \in SUBSET A : S \in P
  <2> HIDE DEF P
  <2> QED BY <1>1, FiniteInduction
<1> QED BY <1>2

\* Summands of at most b make a sum of at most b for each.
LEMMA SumIsBounded ==
  ASSUME NEW A, IsFiniteSet(A), NEW f, NEW b \in Nat,
         \A x \in A : f[x] \in Nat /\ f[x] <= b
  PROVE  SumFunctionOnSet(f, A) <= Cardinality(A) * b
<1> DEFINE P == {S \in SUBSET A : SumFunctionOnSet(f, S) <= Cardinality(S) * b}
<1>1. ASSUME NEW S \in SUBSET A, \A s \in SUBSET S : s # S => s \in P
      PROVE  S \in P
  <2>1. CASE S = {}
    BY <2>1, SumOfNone, FS_EmptySet
  <2>2. CASE S # {}
    <3> DEFINE c == AnyOf(S)
    <3>1. c \in S
      BY <2>2, AnyOfElement
    <3>2. IsFiniteSet(S) /\ Cardinality(S) \in Nat
      BY FS_Subset, FS_CardinalityType
    <3>3. SumFunctionOnSet(f, S) = f[c] + SumFunctionOnSet(f, S \ {c})
      BY <2>2, <3>2, SumOfChosen
    <3> HIDE DEF c
    <3>4. Cardinality(S \ {c}) = Cardinality(S) - 1
      BY <3>1, <3>2, FS_RemoveElement
    <3>5. S \ {c} \in P
      <4>1. S \ {c} \in SUBSET S /\ S \ {c} # S
        BY <3>1
      <4> HIDE DEF P
      <4> QED BY <1>1, <4>1
    <3>6. SumFunctionOnSet(f, S \ {c}) <= (Cardinality(S) - 1) * b
      BY <3>4, <3>5
    <3>7. f[c] \in Nat /\ f[c] <= b /\ SumFunctionOnSet(f, S \ {c}) \in Nat
      <4>1. S \ {c} \in SUBSET A
        OBVIOUS
      <4> QED BY <3>1, <4>1, SumType
    <3>8. (Cardinality(S) - 1) * b = Cardinality(S) * b - b /\ Cardinality(S) * b \in Nat
      BY <3>2
    <3> QED BY <3>3, <3>6, <3>7, <3>8
  <2> QED BY <2>1, <2>2
<1>2. \A S \in SUBSET A : S \in P
  <2> HIDE DEF P
  <2> QED BY <1>1, FiniteInduction
<1> QED BY <1>2


-----------------------------------------------------------------------------
(* Products of sequences of numbers, from left to right. *)

IsProduct(g, f, A) ==
  g = [s \in SUBSET A |-> IF s = {} THEN 1 ELSE g[s \ {Max(s)}] * f[Max(s)]]

ProductOn(f, A) == (CHOOSE g : IsProduct(g, f, A))[A]

LEMMA ProductOfPositives == \A m, n \in Nat \ {0} : m * n \in Nat \ {0}
<1> SUFFICES ASSUME NEW m \in Nat \ {0}, NEW n \in Nat \ {0} PROVE m * n \in Nat \ {0}
  OBVIOUS
<1>1. m * n \in Nat /\ m * n = (m - 1) * n + n /\ (m - 1) * n \in Nat
  OBVIOUS
<1> QED BY <1>1

LEMMA MaxElement ==
  ASSUME NEW A \in SUBSET Nat, IsFiniteSet(A)
  PROVE  \A s \in SUBSET A : s # {} => Max(s) \in s
<1> SUFFICES ASSUME NEW s \in SUBSET A, s # {} PROVE Max(s) \in s
  OBVIOUS
<1> DEFINE f == [x \in A |-> x]
<1>1. \A x \in A : f[x] \in Int /\ f[x] = x
  OBVIOUS
<1> HIDE DEF f
<1>2. \E n \in s : \A m \in s : f[m] <= f[n]
  BY <1>1, GreatestValue
<1>3. \E n \in s : \A m \in s : n >= m
  BY <1>1, <1>2
<1> QED BY <1>3 DEF Max

LEMMA ProductIsUnique ==
  ASSUME NEW A \in SUBSET Nat, IsFiniteSet(A), NEW B \in SUBSET A,
         NEW f, NEW g, NEW h, IsProduct(g, f, A), IsProduct(h, f, B)
  PROVE  \A s \in SUBSET B : g[s] = h[s]
<1> DEFINE P == {s \in SUBSET B : g[s] = h[s]}
<1>1. IsFiniteSet(B)
  BY FS_Subset
<1>2. ASSUME NEW S \in SUBSET B, \A s \in SUBSET S : s # S => s \in P
      PROVE  S \in P
  <2>1. CASE S = {}
    BY <2>1 DEF IsProduct
  <2>2. CASE S # {}
    <3> DEFINE c == Max(S)
    <3>1. c \in S
      BY <2>2, MaxElement
    <3> HIDE DEF c
    <3>2. S \ {c} \in SUBSET S /\ S \ {c} # S
      BY <3>1
    <3>3. g[S \ {c}] = h[S \ {c}]
      BY <1>2, <3>2
    <3>4. g[S] = g[S \ {c}] * f[c]
      BY <2>2 DEF IsProduct, c
    <3>5. h[S] = h[S \ {c}] * f[c]
      BY <2>2 DEF IsProduct, c
    <3> QED BY <3>3, <3>4, <3>5
  <2> QED BY <2>1, <2>2
<1>3. \A S \in SUBSET B : S \in P
  <2> HIDE DEF P
  <2> QED BY <1>1, <1>2, FiniteInduction
<1> QED BY <1>3

LEMMA ProductIfDefined ==
  ASSUME NEW S \in SUBSET Nat, IsFiniteSet(S), NEW f, NEW h, IsProduct(h, f, S)
  PROVE  \A s \in SUBSET S : ProductOn(f, s) = h[s]
<1> SUFFICES ASSUME NEW s \in SUBSET S PROVE ProductOn(f, s) = h[s]
  OBVIOUS
<1> DEFINE k == [r \in SUBSET s |-> h[r]]
           g == CHOOSE g : IsProduct(g, f, s)
<1>1. IsProduct(k, f, s)
  <2> SUFFICES ASSUME NEW r \in SUBSET s
               PROVE  h[r] = IF r = {} THEN 1 ELSE k[r \ {Max(r)}] * f[Max(r)]
    BY DEF IsProduct
  <2>1. r \in SUBSET S /\ r \ {Max(r)} \in SUBSET s
    OBVIOUS
  <2>2. k[r \ {Max(r)}] = h[r \ {Max(r)}]
    BY <2>1
  <2> QED BY <2>1, <2>2 DEF IsProduct
<1> HIDE DEF k
<1>2. IsProduct(g, f, s)
  BY <1>1
<1> HIDE DEF g
<1>3. \A r \in SUBSET s : h[r] = g[r]
  BY <1>2, ProductIsUnique
<1> QED BY <1>3 DEF g, ProductOn

LEMMA ProductDefined ==
  ASSUME NEW A \in SUBSET Nat, IsFiniteSet(A), NEW f
  PROVE  \E g : IsProduct(g, f, A)
<1> DEFINE P == {S \in SUBSET A : \E g : IsProduct(g, f, S)}
<1>1. ASSUME NEW S \in SUBSET A, \A s \in SUBSET S : s # S => s \in P
      PROVE  \E g : IsProduct(g, f, S)
  <2> DEFINE Product(s) == ProductOn(f, s)
             Next(s) == IF s = {} THEN 1 ELSE Product(s \ {Max(s)}) * f[Max(s)]
             g == [s \in SUBSET S |-> IF s = S THEN Next(S) ELSE Product(s)]
  <2>1. ASSUME NEW s \in SUBSET S, s # S PROVE Product(s) = Next(s)
    <3>1. PICK h : IsProduct(h, f, s)
      BY <1>1, <2>1
    <3>2. IsFiniteSet(s) /\ s \in SUBSET Nat /\ s \in SUBSET s /\ s \ {Max(s)} \in SUBSET s
      BY FS_Subset
    <3>3. \A r \in SUBSET s : Product(r) = h[r]
      BY <3>1, <3>2, ProductIfDefined
    <3>4. h[s] = IF s = {} THEN 1 ELSE h[s \ {Max(s)}] * f[Max(s)]
      BY <3>1 DEF IsProduct
    <3> QED BY <3>2, <3>3, <3>4
  <2>2. ASSUME NEW s \in SUBSET S, s # {}
        PROVE  g[s \ {Max(s)}] = Product(s \ {Max(s)})
    <3>1. Max(s) \in s
      BY <2>2, MaxElement
    <3>2. s \ {Max(s)} \in SUBSET S /\ s \ {Max(s)} # S
      BY <3>1
    <3> HIDE DEF Product
    <3> QED BY <3>2
  <2>3. ASSUME NEW s \in SUBSET S PROVE g[s] = Next(s)
    <3> HIDE DEF Next, Product
    <3> QED BY <2>1
  <2>4. g = [s \in SUBSET S |-> IF s = {} THEN 1 ELSE g[s \ {Max(s)}] * f[Max(s)]]
    <3>1. \A s \in SUBSET S :
            g[s] = IF s = {} THEN 1 ELSE g[s \ {Max(s)}] * f[Max(s)]
      <4> HIDE DEF g, Product
      <4> QED BY <2>2, <2>3
    <3>2. g = [s \in SUBSET S |-> g[s]]
      OBVIOUS
    <3> HIDE DEF g
    <3> QED BY <3>1, <3>2
  <2> HIDE DEF g
  <2> QED BY <2>4 DEF IsProduct
<1>2. \A S \in SUBSET A : S \in P
  <2>1. \A S \in SUBSET A : (\A s \in SUBSET S : s # S => s \in P) => S \in P
    <3>1. \A S \in SUBSET A : IsFiniteSet(S) /\ S \in SUBSET Nat
      BY FS_Subset
    <3> QED BY <1>1, <3>1
  <2> HIDE DEF P
  <2> QED BY <2>1, FiniteInduction
<1> QED BY <1>2

\* Factors that are positive have a positive product.
LEMMA ProductPositive ==
  ASSUME NEW A \in SUBSET Nat, IsFiniteSet(A), NEW f, \A x \in A : f[x] \in Nat \ {0}
  PROVE  ProductOn(f, A) \in Nat \ {0}
<1> DEFINE g == CHOOSE g : IsProduct(g, f, A)
           P == {S \in SUBSET A : g[S] \in Nat \ {0}}
<1>1. IsProduct(g, f, A)
  BY ProductDefined
<1> HIDE DEF g
<1>2. ASSUME NEW S \in SUBSET A, \A s \in SUBSET S : s # S => s \in P
      PROVE  S \in P
  <2>1. CASE S = {}
    BY <1>1, <2>1 DEF IsProduct
  <2>2. CASE S # {}
    <3>1. Max(S) \in S
      BY <2>2, MaxElement
    <3>2. S \ {Max(S)} \in SUBSET S /\ S \ {Max(S)} # S
      BY <3>1
    <3>3. g[S \ {Max(S)}] \in Nat \ {0} /\ f[Max(S)] \in Nat \ {0}
      BY <1>2, <3>1, <3>2
    <3>4. g[S] = g[S \ {Max(S)}] * f[Max(S)]
      BY <1>1, <2>2 DEF IsProduct
    <3>5. \A m, n \in Nat \ {0} : m * n \in Nat \ {0}
      BY ProductOfPositives
    <3> QED BY <3>3, <3>4, <3>5
  <2> QED BY <2>1, <2>2
<1>3. \A S \in SUBSET A : S \in P
  <2> HIDE DEF P
  <2> QED BY <1>2, FiniteInduction
<1> QED BY <1>3 DEF g, ProductOn

\* A product with a positive factor keeps the order of the other.
LEMMA FactorsAreOrdered ==
  ASSUME NEW a \in Int, NEW b \in Int, NEW s \in Nat \ {0}
  PROVE  /\ a * s <= b * s => a <= b
         /\ a * s < b * s => a < b
         /\ a <= b => a * s <= b * s
<1>1. ASSUME NEW k \in Nat PROVE k * s >= 0 /\ (k + 1) * s >= s /\ (k + 1) * s > 0
  <2>1. k * s \in Nat /\ (k + 1) * s = k * s + s
    OBVIOUS
  <2> QED BY <2>1
<1>2. a <= b => a * s <= b * s
  <2> SUFFICES ASSUME a <= b PROVE a * s <= b * s
    OBVIOUS
  <2>1. b - a \in Nat /\ (b - a) * s = b * s - a * s
    OBVIOUS
  <2>2. (b - a) * s >= 0
    BY <1>1, <2>1
  <2> QED BY <2>1, <2>2
<1>3. a < b => a * s < b * s
  <2> SUFFICES ASSUME a < b PROVE a * s < b * s
    OBVIOUS
  <2>1. (b - a) - 1 \in Nat /\ ((b - a) - 1) + 1 = b - a /\ (b - a) * s = b * s - a * s
    OBVIOUS
  <2>2. (b - a) * s > 0
    BY <1>1, <2>1
  <2> QED BY <2>1, <2>2
<1>4. b <= a => b * s <= a * s
  <2> SUFFICES ASSUME b <= a PROVE b * s <= a * s
    OBVIOUS
  <2>1. a - b \in Nat /\ (a - b) * s = a * s - b * s
    OBVIOUS
  <2>2. (a - b) * s >= 0
    BY <1>1, <2>1
  <2> QED BY <2>1, <2>2
<1>5. b < a => b * s < a * s
  <2> SUFFICES ASSUME b < a PROVE b * s < a * s
    OBVIOUS
  <2>1. (a - b) - 1 \in Nat /\ ((a - b) - 1) + 1 = a - b /\ (a - b) * s = a * s - b * s
    OBVIOUS
  <2>2. (a - b) * s > 0
    BY <1>1, <2>1
  <2> QED BY <2>1, <2>2
<1>6. a * s \in Int /\ b * s \in Int
  OBVIOUS
<1> DEFINE x == a * s
           y == b * s
<1>7. /\ x \in Int /\ y \in Int
      /\ (a <= b => x <= y) /\ (a < b => x < y) /\ (b <= a => y <= x) /\ (b < a => y < x)
  BY <1>2, <1>3, <1>4, <1>5, <1>6
<1> HIDE DEF x, y
<1>8. (x <= y => a <= b) /\ (x < y => a < b) /\ (a <= b => x <= y)
  BY <1>7
<1> QED BY <1>8 DEF x, y

-----------------------------------------------------------------------------
(* Texts and their prefixes. *)

\* A prefix of a sequence is a sequence of the same elements.
LEMMA PrefixType ==
  ASSUME NEW T, NEW s \in Seq(T), NEW n \in 0..Len(s)
  PROVE  /\ Prefix(s, n) \in Seq(T)
         /\ Prefix(s, n) \in [1..n -> T]
         /\ Len(Prefix(s, n)) = n
         /\ \A i \in 1..n : Prefix(s, n)[i] = s[i]
<1>1. s \in [1..Len(s) -> T] /\ Len(s) \in Nat
  BY LenProperties
<1>2. Prefix(s, n) \in [1..n -> T]
  BY <1>1 DEF Prefix
<1>3. Prefix(s, n) \in Seq(T)
  BY <1>2, SeqDef
<1>4. Len(Prefix(s, n)) = n
  <2>1. DOMAIN Prefix(s, n) = 1..n
    BY DEF Prefix
  <2>2. DOMAIN Prefix(s, n) = 1..Len(Prefix(s, n)) /\ Len(Prefix(s, n)) \in Nat
    BY <1>3, LenProperties
  <2> QED BY <2>1, <2>2
<1> QED BY <1>2, <1>3, <1>4 DEF Prefix

\* A prefix of a prefix is a prefix.
LEMMA PrefixOfPrefix ==
  ASSUME NEW s, NEW n \in Nat, NEW i \in 0..n
  PROVE  Prefix(Prefix(s, n), i) = Prefix(s, i)
BY DEF Prefix

\* A prefix of a text that is not too long is a text.
LEMMA PrefixIsText ==
  ASSUME NEW T, NEW s \in Seq(T), NEW n \in 1..Len(s), NEW max \in Nat, n <= max
  PROVE  Prefix(s, n) \in UNION {[1..k -> T] : k \in 1..max}
<1>1. n \in 1..max /\ n \in 0..Len(s)
  BY LenProperties
<1>2. Prefix(s, n) \in [1..n -> T]
  BY <1>1, PrefixType
<1> QED BY <1>1, <1>2

\* The longest prefix of a text is the text.
LEMMA FullPrefix ==
  ASSUME NEW T, NEW s \in Seq(T)
  PROVE  Prefix(s, Len(s)) = s
<1>1. Len(s) \in 0..Len(s)
  BY LenProperties
<1>2. /\ Prefix(s, Len(s)) \in Seq(T)
      /\ Len(Prefix(s, Len(s))) = Len(s)
      /\ \A i \in 1..Len(s) : Prefix(s, Len(s))[i] = s[i]
  BY <1>1, PrefixType
<1> QED BY <1>2, SeqEqual

\* Appending a token to the second half of a text appends it to the text, and
\* leaves every prefix alone.
LEMMA AppendedText ==
  ASSUME NEW T, NEW s \in Seq(T), NEW u \in Seq(T), NEW t \in T
  PROVE  /\ s \o u \in Seq(T)
         /\ Len(s \o u) = Len(s) + Len(u)
         /\ s \o Append(u, t) = Append(s \o u, t)
         /\ Append(s \o u, t) = (s \o u) \o <<t>>
         /\ \A n \in 0..Len(s \o u) :
              Prefix(Append(s \o u, t), n) = Prefix(s \o u, n)
<1>1. s \o u \in Seq(T) /\ Len(s \o u) = Len(s) + Len(u)
  BY ConcatProperties
<1>2. <<t>> \in Seq(T)
  OBVIOUS
<1>3. Append(u, t) = u \o <<t>> /\ Append(s \o u, t) = (s \o u) \o <<t>>
  BY <1>1, AppendIsConcat
<1>4. s \o (u \o <<t>>) = (s \o u) \o <<t>>
  BY <1>2, ConcatAssociative
<1> DEFINE v == s \o u
<1>5. v \in Seq(T)
  BY <1>1
<1> HIDE DEF v
<1>6. \A i \in 1..Len(v) : Append(v, t)[i] = v[i]
  BY <1>5, AppendProperties
<1>7. Len(v) \in Nat
  BY <1>5, LenProperties
<1>8. \A n \in 0..Len(v) : Prefix(Append(v, t), n) = Prefix(v, n)
  BY <1>6, <1>7 DEF Prefix
<1> QED BY <1>1, <1>3, <1>4, <1>8 DEF v
=============================================================================
