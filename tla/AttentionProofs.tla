-------------------------- MODULE AttentionProofs --------------------------
(***************************************************************************)
(* Every component that attention returns is that of causal attention over *)
(* the rows up to its own (OutputIsReference), for every number and size   *)
(* of heads, every capacity, every set of rows of integers, infinities and *)
(* NaN, and whatever the weights of softmax.                               *)
(*                                                                         *)
(* The proof has three layers.  Flat indices: an element [i, j] of a       *)
(* matrix is where the code looks for it.  One row of scores: the maximum  *)
(* of the usable ones is an integer, so that a masked score weighs zero,   *)
(* and an unusable one makes the total of the weights NaN.  The calls: the *)
(* cache holds the keys and the values of the rows it has been fed, also   *)
(* those of a call under way, and of a call that fails it keeps the rows   *)
(* past its length.                                                        *)
(***************************************************************************)
EXTENDS Attention, DataLemmas

-----------------------------------------------------------------------------
(* Row-major indices *)

\* An index determines its parts.
LEMMA FlatIndex ==
  ASSUME NEW r \in Nat, NEW w \in Nat, NEW t \in Below(r), NEW c \in Below(w)
  PROVE  /\ t * w + c \in Below(r * w)
         /\ (t * w + c) \div w = t /\ (t * w + c) % w = c
<1> DEFINE x == t * w + c
<1>0. /\ w \in Nat \ {0} /\ t \in Int /\ c \in Int /\ 0 <= t /\ t + 1 <= r
      /\ 0 <= c /\ c < w
  BY DEF Below
<1>1. /\ t * w \in Int /\ r * w \in Int /\ (t + 1) * w = t * w + w /\ 0 * w = 0
  BY <1>0
<1>2. 0 * w <= t * w /\ (t + 1) * w <= r * w
  <2>1. t + 1 \in Int
    BY <1>0
  <2> QED BY <1>0, <2>1, FactorsAreOrdered
<1>3. x \in Below(r * w)
  <2> DEFINE p == t * w
             z == r * w
  <2>1. p \in Int /\ z \in Int /\ 0 <= p /\ p + w <= z
    BY <1>1, <1>2
  <2> HIDE DEF p, z
  <2>2. p + c \in Below(z)
    BY <1>0, <2>1 DEF Below
  <2> QED BY <2>2 DEF p, z
<1> HIDE DEF x
<1> DEFINE q == x \div w
           m == x % w
<1>4. q \in Int /\ m \in 0..(w - 1) /\ x = w * q + m
  <2>1. x \in Int
    BY <1>0, <1>1 DEF x
  <2> QED BY <1>0, <2>1
<1> HIDE DEF q, m
<1>5. /\ w * q = q * w /\ q * w \in Int /\ (q + 1) * w = q * w + w
      /\ x = q * w + m
  BY <1>0, <1>4
<1>6. t * w < (q + 1) * w /\ q * w < (t + 1) * w
  BY <1>0, <1>1, <1>4, <1>5 DEF x
<1>7. t < q + 1 /\ q < t + 1
  BY <1>0, <1>4, <1>6, FactorsAreOrdered
<1>8. q = t
  BY <1>0, <1>4, <1>7
<1>9. m = c
  BY <1>0, <1>1, <1>4, <1>5, <1>8 DEF x
<1> QED BY <1>3, <1>8, <1>9 DEF x, q, m

\* Element [i, j] of a matrix is where the code looks for it.
LEMMA TensorElement ==
  ASSUME NEW r \in Nat, NEW w \in Nat, NEW e, NEW i \in Below(r), NEW j \in Below(w)
  PROVE  Tensor(r, w, e).data[i * w + j] = e[i][j]
<1>1. /\ i * w + j \in Below(r * w)
      /\ (i * w + j) \div w = i /\ (i * w + j) % w = j
  BY FlatIndex
<1> QED BY <1>1, Zenon DEF Tensor

\* The width of the rows, the place of a head in a row, and the place of a
\* component in the head.
LEMMA HeadPlace ==
  ASSUME NEW head \in Below(HeadCount), NEW d \in Below(HeadSize)
  PROVE  /\ EmbeddingSize \in Nat \ {0}
         /\ head * HeadSize + d \in Below(EmbeddingSize)
         /\ (head * HeadSize + d) \div HeadSize = head
         /\ (head * HeadSize + d) % HeadSize = d
<1>1. HeadCount \in Nat /\ HeadSize \in Nat
  BY AttentionAssumption
<1>2. /\ head * HeadSize + d \in Below(HeadCount * HeadSize)
      /\ (head * HeadSize + d) \div HeadSize = head
      /\ (head * HeadSize + d) % HeadSize = d
  BY <1>1, FlatIndex
<1>3. HeadCount * HeadSize \in Nat
  BY <1>1
<1>4. HeadCount * HeadSize \in Nat \ {0}
  BY <1>2, <1>3 DEF Below
<1> QED BY <1>2, <1>4 DEF EmbeddingSize

-----------------------------------------------------------------------------
(* Numbers *)

LEMMA Specials ==
  /\ NaN \notin Int /\ PosInf \notin Int /\ NegInf \notin Int
  /\ NaN # PosInf /\ NaN # NegInf /\ PosInf # NegInf
BY AttentionAssumption

LEMMA IntegersAreClosed ==
  \A a, b \in Int : a + b \in Int /\ a * b \in Int /\ -a \in Int
OBVIOUS

LEMMA PlusFacts ==
  /\ \A x, y \in Number : Plus(x, y) \in Number
  /\ \A x, y \in Int : Plus(x, y) = x + y
  /\ \A x : Plus(x, NaN) = NaN /\ Plus(NaN, x) = NaN
  /\ \A x : Plus(x, 0) = x
<1>1. ASSUME NEW x \in Number, NEW y \in Number PROVE Plus(x, y) \in Number
  <2>1. CASE {x, y} \subseteq Int
    <3>1. x + y \in Int
      BY <2>1, IntegersAreClosed
    <3> QED BY <2>1, <3>1, Zenon DEF Plus, Number
  <2>2. CASE ~({x, y} \subseteq Int) /\ (NaN \in {x, y} \/ {x, y} = {PosInf, NegInf})
    <3>1. Plus(x, y) = NaN
      BY <2>2, Zenon DEF Plus
    <3> QED BY <3>1 DEF Number
  <2>3. CASE ~({x, y} \subseteq Int) /\ ~(NaN \in {x, y} \/ {x, y} = {PosInf, NegInf})
    <3>1. Plus(x, y) = IF x \in Int THEN y ELSE x
      BY <2>3 DEF Plus
    <3> QED BY <3>1
  <2> QED BY <2>1, <2>2, <2>3
<1>2. ASSUME NEW x \in Int, NEW y \in Int PROVE Plus(x, y) = x + y
  <2>1. {x, y} \subseteq Int
    OBVIOUS
  <2> QED BY <2>1, Specials DEF Plus
<1>3. ASSUME NEW x PROVE Plus(x, NaN) = NaN /\ Plus(NaN, x) = NaN
  BY Specials DEF Plus
<1>4. ASSUME NEW x PROVE Plus(x, 0) = x
  <2>1. CASE x \in Int
    BY <2>1, <1>2, x + 0 = x
  <2>2. CASE x = NaN
    BY <2>2, <1>3
  <2>3. CASE x \notin Int /\ x # NaN
    <3>1. ~({x, 0} \subseteq Int) /\ NaN \notin {x, 0} /\ {x, 0} # {PosInf, NegInf}
      BY <2>3, Specials, 0 \in Int
    <3>2. Plus(x, 0) = IF x \in Int THEN 0 ELSE x
      BY <3>1 DEF Plus
    <3> QED BY <2>3, <3>2
  <2> QED BY <2>1, <2>2, <2>3
<1> QED BY <1>1, <1>2, <1>3, <1>4

LEMMA MinusFacts ==
  /\ \A x \in Int, y \in Int : Minus(x, y) \in Int /\ Minus(x, y) = x - y
  /\ \A y \in Int : Minus(NegInf, y) = NegInf
  /\ \A y : Minus(NaN, y) = NaN
  /\ Minus(PosInf, PosInf) = NaN /\ Minus(NegInf, NegInf) = NaN
<1>1. ASSUME NEW y \in Int PROVE \A x : Minus(x, y) = Plus(x, -y)
  BY Specials DEF Minus
<1>2. ASSUME NEW x \in Int, NEW y \in Int PROVE Minus(x, y) \in Int /\ Minus(x, y) = x - y
  <2>1. -y \in Int /\ x + (-y) = x - y /\ x - y \in Int
    OBVIOUS
  <2>2. Plus(x, -y) = x + (-y)
    BY <2>1, PlusFacts
  <2> QED BY <1>1, <2>1, <2>2
<1>3. ASSUME NEW y \in Int PROVE Minus(NegInf, y) = NegInf
  <2>1. -y \in Int
    OBVIOUS
  <2>2. Plus(NegInf, -y) = NegInf
    BY <2>1, Specials DEF Plus
  <2> QED BY <1>1, <2>2
<1>4. ASSUME NEW y PROVE Minus(NaN, y) = NaN
  BY PlusFacts DEF Minus
<1>5. Minus(PosInf, PosInf) = Plus(PosInf, NegInf) /\ Minus(NegInf, NegInf) = Plus(NegInf, PosInf)
  BY Specials DEF Minus
<1>6. Plus(PosInf, NegInf) = NaN /\ Plus(NegInf, PosInf) = NaN
  BY Specials DEF Plus
<1> QED BY <1>2, <1>3, <1>4, <1>5, <1>6

LEMMA TimesFacts ==
  /\ \A x, y \in Number : Times(x, y) \in Number
  /\ \A x : Times(NaN, x) = NaN /\ Times(x, NaN) = NaN
  /\ \A y \in Int : Times(0, y) = 0
  /\ \A y \in Number \ Int : Times(0, y) = NaN
<1>0. \A x \in Number \ {NaN} : Sign(x) \in {-1, 0, 1}
  BY Zenon DEF Sign
<1>1. ASSUME NEW x \in Number, NEW y \in Number PROVE Times(x, y) \in Number
  <2>1. CASE {x, y} \subseteq Int
    <3>1. x * y \in Int
      BY <2>1, IntegersAreClosed
    <3> QED BY <2>1, <3>1, Zenon DEF Times, Number
  <2>2. CASE ~({x, y} \subseteq Int) /\ NaN \in {x, y}
    <3>1. Times(x, y) = NaN
      BY <2>2, Zenon DEF Times
    <3> QED BY <3>1 DEF Number
  <2>3. CASE ~({x, y} \subseteq Int) /\ NaN \notin {x, y}
    <3>1. Times(x, y) = <<NegInf, NaN, PosInf>>[Sign(x) * Sign(y) + 2]
      BY <2>3, Zenon DEF Times
    <3>2. Sign(x) \in {-1, 0, 1} /\ Sign(y) \in {-1, 0, 1}
      BY <1>0, <2>3
    <3>3. Sign(x) * Sign(y) + 2 \in {1, 2, 3}
      BY <3>2
    <3>4. \A k \in {1, 2, 3} : <<NegInf, NaN, PosInf>>[k] \in {NegInf, NaN, PosInf}
      OBVIOUS
    <3> QED BY <3>1, <3>3, <3>4 DEF Number
  <2> QED BY <2>1, <2>2, <2>3
<1>2. ASSUME NEW x PROVE Times(NaN, x) = NaN /\ Times(x, NaN) = NaN
  BY Specials DEF Times
<1>3. ASSUME NEW y \in Int PROVE Times(0, y) = 0
  <2>1. Times(0, y) = 0 * y
    <3>1. {0, y} \subseteq Int
      OBVIOUS
    <3> QED BY <3>1, Specials DEF Times
  <2> QED BY <2>1
<1>4. ASSUME NEW y \in Number \ Int PROVE Times(0, y) = NaN
  <2>1. CASE y = NaN
    BY <1>2, <2>1
  <2>2. CASE y # NaN
    <3>1. ~({0, y} \subseteq Int) /\ NaN \notin {0, y}
      BY <2>2, Specials, 0 \in Int
    <3>2. Times(0, y) = <<NegInf, NaN, PosInf>>[Sign(0) * Sign(y) + 2]
      BY <3>1, Zenon DEF Times
    <3>3. Sign(0) = 0
      BY Specials DEF Sign
    <3>4. Sign(y) \in {-1, 0, 1}
      BY <1>0, <2>2
    <3>5. Sign(0) * Sign(y) + 2 = 2
      BY <3>3, <3>4
    <3> QED BY <3>2, <3>5
  <2> QED BY <2>1, <2>2
<1> QED BY <1>1, <1>2, <1>3, <1>4

LEMMA ExpOfFacts ==
  /\ \A x \in Int : ExpOf(x) = Exp(-x)
  /\ ExpOf(NegInf) = 0 /\ ExpOf(NaN) = NaN
BY Specials DEF ExpOf

LEMMA GreaterFacts ==
  /\ \A x, y \in Int : Greater(x, y) <=> x > y
  /\ \A x \in Number : x # NaN /\ x # PosInf => Greater(PosInf, x)
  /\ \A x \in Number : x # NaN /\ x # NegInf => Greater(x, NegInf)
  /\ \A x \in Number : ~Greater(x, x)
<1>1. ASSUME NEW x \in Int, NEW y \in Int PROVE Greater(x, y) <=> x > y
  <2>1. {x, y} \subseteq Int
    OBVIOUS
  <2>2. Greater(x, y) = (x > y)
    BY <2>1, Specials DEF Greater
  <2> QED BY <2>2
<1>2. ASSUME NEW x \in Number, x # NaN, x # PosInf PROVE Greater(PosInf, x)
  BY <1>2, Specials DEF Greater
<1>3. ASSUME NEW x \in Number, x # NaN, x # NegInf PROVE Greater(x, NegInf)
  BY <1>3, Specials DEF Greater
<1>4. ASSUME NEW x \in Number PROVE ~Greater(x, x)
  <2>1. CASE x \in Int
    <3>1. ~(x > x)
      BY <2>1
    <3> QED BY <1>1, <2>1, <3>1
  <2>2. CASE x \notin Int
    BY <2>2 DEF Greater
  <2> QED BY <2>1, <2>2
<1> QED BY <1>1, <1>2, <1>3, <1>4

\* > is transitive on numbers.
LEMMA GreaterTransitive ==
  ASSUME NEW x \in Number \ {NaN}, NEW y \in Number \ {NaN}, NEW z \in Number \ {NaN},
         ~Greater(x, y), Greater(z, y)
  PROVE  ~Greater(x, z)
<1>1. CASE y = PosInf
  <2>1. ~Greater(z, PosInf)
    BY Specials DEF Greater, Number
  <2> QED BY <1>1, <2>1
<1>2. CASE y = NegInf
  <2>1. x = NegInf
    BY <1>2, GreaterFacts
  <2>2. ~Greater(NegInf, z)
    BY Specials DEF Greater, Number
  <2> QED BY <2>1, <2>2
<1>3. CASE y \in Int
  <2>1. z # NegInf /\ x # PosInf
    <3>1. ~Greater(NegInf, y)
      BY <1>3, Specials DEF Greater, Number
    <3> QED BY <1>3, <3>1, GreaterFacts, Specials
  <2>2. CASE z = PosInf
    <3>1. ~Greater(x, PosInf)
      BY Specials DEF Greater, Number
    <3> QED BY <2>2, <3>1
  <2>3. CASE x = NegInf
    <3>1. ~Greater(NegInf, z)
      BY Specials DEF Greater, Number
    <3> QED BY <2>3, <3>1
  <2>4. CASE x \in Int /\ z \in Int
    <3>1. ~(x > y) /\ z > y
      BY <1>3, <2>4, GreaterFacts
    <3>2. ~(x > z)
      BY <1>3, <2>4, <3>1
    <3> QED BY <2>4, <3>2, GreaterFacts
  <2> QED BY <2>1, <2>2, <2>3, <2>4 DEF Number
<1> QED BY <1>1, <1>2, <1>3 DEF Number

-----------------------------------------------------------------------------
(* Running sums *)

IsRunningSum(n, f, g) ==
  g = [i \in 0..n |-> IF i = 0 THEN 0 ELSE Plus(g[i - 1], f[i - 1])]

LEMMA SumExists == \A f : \A n \in Nat : \E g : IsRunningSum(n, f, g)
<1> SUFFICES ASSUME NEW f PROVE \A n \in Nat : \E g : IsRunningSum(n, f, g)
  OBVIOUS
<1> DEFINE S == {n \in Nat : \E g : IsRunningSum(n, f, g)}
<1>1. 0 \in S
  <2>1. IsRunningSum(0, f, [i \in 0..0 |-> 0])
    BY DEF IsRunningSum
  <2> QED BY <2>1
<1>2. ASSUME NEW n \in Nat, n \in S PROVE n + 1 \in S
  <2>1. PICK g : IsRunningSum(n, f, g)
    BY <1>2
  <2> DEFINE h == [i \in 0..(n + 1) |-> IF i = n + 1 THEN Plus(g[n], f[n]) ELSE g[i]]
  <2>2. ASSUME NEW i \in 0..(n + 1)
        PROVE  h[i] = IF i = 0 THEN 0 ELSE Plus(h[i - 1], f[i - 1])
    <3>1. CASE i = n + 1
      <4>1. i # 0 /\ i - 1 = n /\ n \in 0..(n + 1) /\ n # n + 1
        BY <3>1
      <4>2. h[i] = Plus(g[n], f[n]) /\ h[n] = g[n]
        BY <3>1, <4>1
      <4> HIDE DEF h
      <4> QED BY <4>1, <4>2
    <3>2. CASE i # n + 1
      <4>1. i \in 0..n /\ (i # 0 => i - 1 \in 0..n /\ i - 1 \in 0..(n + 1) /\ i - 1 # n + 1)
        BY <3>2
      <4>2. h[i] = g[i] /\ (i # 0 => h[i - 1] = g[i - 1])
        BY <3>2, <4>1
      <4>3. g[i] = IF i = 0 THEN 0 ELSE Plus(g[i - 1], f[i - 1])
        BY <2>1, <4>1 DEF IsRunningSum
      <4> HIDE DEF h
      <4> QED BY <4>2, <4>3
    <3> QED BY <3>1, <3>2
  <2>3. h = [i \in 0..(n + 1) |-> h[i]]
    OBVIOUS
  <2> HIDE DEF h
  <2>4. IsRunningSum(n + 1, f, h)
    BY <2>2, <2>3 DEF IsRunningSum
  <2> QED BY <2>4
<1>3. \A n \in Nat : n \in S
  <2> HIDE DEF S
  <2> QED BY <1>1, <1>2, Induction
<1> QED BY <1>3

LEMMA SumUnique ==
  ASSUME NEW f, NEW n \in Nat, NEW m \in Nat, NEW g, NEW h,
         IsRunningSum(n, f, g), IsRunningSum(m, f, h)
  PROVE  \A i \in Nat : i <= n /\ i <= m => g[i] = h[i]
<1> DEFINE S == {i \in Nat : i <= n /\ i <= m => g[i] = h[i]}
<1>1. 0 \in S
  <2>1. 0 \in 0..n /\ 0 \in 0..m
    OBVIOUS
  <2> QED BY <2>1 DEF IsRunningSum
<1>2. ASSUME NEW i \in Nat, i \in S PROVE i + 1 \in S
  <2> SUFFICES ASSUME i + 1 <= n, i + 1 <= m PROVE g[i + 1] = h[i + 1]
    OBVIOUS
  <2>1. i + 1 \in 0..n /\ i + 1 \in 0..m /\ i + 1 # 0 /\ (i + 1) - 1 = i
    OBVIOUS
  <2>2. g[i] = h[i]
    BY <1>2
  <2>3. g[i + 1] = Plus(g[i], f[i])
    BY <2>1 DEF IsRunningSum
  <2>4. h[i + 1] = Plus(h[i], f[i])
    BY <2>1 DEF IsRunningSum
  <2> QED BY <2>2, <2>3, <2>4
<1>3. \A i \in Nat : i \in S
  <2> HIDE DEF S
  <2> QED BY <1>1, <1>2, Induction
<1> QED BY <1>3

LEMMA SumIs ==
  ASSUME NEW f, NEW n \in Nat
  PROVE  \E g : IsRunningSum(n, f, g) /\ RunningSum(n, f) = g[n]
<1> DEFINE g == CHOOSE g : IsRunningSum(n, f, g)
<1>1. IsRunningSum(n, f, g)
  BY SumExists
<1>2. RunningSum(n, f) = g[n]
  BY DEF RunningSum, IsRunningSum
<1> QED BY <1>1, <1>2

LEMMA RunningSumUnfolds ==
  ASSUME NEW f
  PROVE  /\ RunningSum(0, f) = 0
         /\ \A n \in Nat : RunningSum(n + 1, f) = Plus(RunningSum(n, f), f[n])
<1>1. RunningSum(0, f) = 0
  <2>1. PICK g : IsRunningSum(0, f, g) /\ RunningSum(0, f) = g[0]
    BY SumIs
  <2>2. 0 \in 0..0
    OBVIOUS
  <2>3. IsRunningSum(0, f, g)
    BY <2>1
  <2>4. g[0] = 0
    BY <2>2, <2>3 DEF IsRunningSum
  <2> QED BY <2>1, <2>4
<1>2. ASSUME NEW n \in Nat PROVE RunningSum(n + 1, f) = Plus(RunningSum(n, f), f[n])
  <2>1. PICK g : IsRunningSum(n + 1, f, g) /\ RunningSum(n + 1, f) = g[n + 1]
    BY SumIs
  <2>2. PICK h : IsRunningSum(n, f, h) /\ RunningSum(n, f) = h[n]
    BY SumIs
  <2>3. IsRunningSum(n + 1, f, g) /\ IsRunningSum(n, f, h)
    BY <2>1, <2>2
  <2>4. g[n] = h[n]
    <3>1. n <= n + 1 /\ n <= n /\ n + 1 \in Nat
      OBVIOUS
    <3> QED BY <2>3, <3>1, SumUnique
  <2>5. n + 1 \in 0..(n + 1) /\ n + 1 # 0 /\ (n + 1) - 1 = n
    OBVIOUS
  <2>6. g[n + 1] = Plus(g[n], f[n])
    BY <2>3, <2>5 DEF IsRunningSum
  <2> QED BY <2>1, <2>2, <2>4, <2>6
<1> QED BY <1>1, <1>2

\* A sum depends on its terms only.
LEMMA SumCongruence ==
  ASSUME NEW n \in Nat, NEW f, NEW g, \A i \in Below(n) : f[i] = g[i]
  PROVE  RunningSum(n, f) = RunningSum(n, g)
<1> DEFINE S == {k \in Nat : k <= n => RunningSum(k, f) = RunningSum(k, g)}
<1>1. 0 \in S
  BY RunningSumUnfolds
<1>2. ASSUME NEW k \in Nat, k \in S PROVE k + 1 \in S
  <2> SUFFICES ASSUME k + 1 <= n PROVE RunningSum(k + 1, f) = RunningSum(k + 1, g)
    OBVIOUS
  <2>1. k \in Below(n) /\ k <= n
    BY DEF Below
  <2>2. RunningSum(k, f) = RunningSum(k, g)
    BY <1>2, <2>1
  <2>3. f[k] = g[k]
    BY <2>1
  <2>4. RunningSum(k + 1, f) = Plus(RunningSum(k, f), f[k])
    BY RunningSumUnfolds
  <2>5. RunningSum(k + 1, g) = Plus(RunningSum(k, g), g[k])
    BY RunningSumUnfolds
  <2> QED BY <2>2, <2>3, <2>4, <2>5
<1>3. n \in S
  <2> HIDE DEF S
  <2> QED BY <1>1, <1>2, Induction
<1> QED BY <1>3

LEMMA SumIsNumber ==
  ASSUME NEW n \in Nat, NEW f, \A i \in Below(n) : f[i] \in Number
  PROVE  RunningSum(n, f) \in Number
<1> DEFINE S == {k \in Nat : k <= n => RunningSum(k, f) \in Number}
<1>1. 0 \in S
  BY RunningSumUnfolds DEF Number
<1>2. ASSUME NEW k \in Nat, k \in S PROVE k + 1 \in S
  <2> SUFFICES ASSUME k + 1 <= n PROVE RunningSum(k + 1, f) \in Number
    OBVIOUS
  <2>1. k \in Below(n) /\ k <= n
    BY DEF Below
  <2>2. RunningSum(k, f) \in Number /\ f[k] \in Number
    BY <1>2, <2>1
  <2>3. RunningSum(k + 1, f) = Plus(RunningSum(k, f), f[k])
    BY RunningSumUnfolds
  <2> QED BY <2>2, <2>3, PlusFacts
<1>3. n \in S
  <2> HIDE DEF S
  <2> QED BY <1>1, <1>2, Induction
<1> QED BY <1>3

\* One term that is not a number is enough.
LEMMA SumWithNaN ==
  ASSUME NEW n \in Nat, NEW f, NEW j \in Below(n), f[j] = NaN
  PROVE  RunningSum(n, f) = NaN
<1> DEFINE S == {k \in Nat : j < k => RunningSum(k, f) = NaN}
<1>0. j \in Nat /\ j < n
  BY DEF Below
<1>1. 0 \in S
  BY <1>0
<1>2. ASSUME NEW k \in Nat, k \in S PROVE k + 1 \in S
  <2> SUFFICES ASSUME j < k + 1 PROVE RunningSum(k + 1, f) = NaN
    OBVIOUS
  <2>1. RunningSum(k + 1, f) = Plus(RunningSum(k, f), f[k])
    BY RunningSumUnfolds
  <2>2. CASE j = k
    BY <2>1, <2>2, PlusFacts
  <2>3. CASE j < k
    <3>1. RunningSum(k, f) = NaN
      BY <1>2, <2>3
    <3> QED BY <2>1, <3>1, PlusFacts
  <2> QED BY <1>0, <2>2, <2>3
<1>3. n \in S
  <2> HIDE DEF S
  <2> QED BY <1>1, <1>2, Induction
<1> QED BY <1>0, <1>3

\* Zeros at the end change nothing.
LEMMA SumOfZeros ==
  ASSUME NEW m \in Nat, NEW f
  PROVE  \A n \in Nat : m <= n /\ (\A i \in m..(n - 1) : f[i] = 0)
                          => RunningSum(n, f) = RunningSum(m, f)
<1> DEFINE S == {n \in Nat : m <= n /\ (\A i \in m..(n - 1) : f[i] = 0)
                               => RunningSum(n, f) = RunningSum(m, f)}
<1>1. 0 \in S
  <2>1. m <= 0 => m = 0
    OBVIOUS
  <2> QED BY <2>1
<1>2. ASSUME NEW n \in Nat, n \in S PROVE n + 1 \in S
  <2> SUFFICES ASSUME m <= n + 1, \A i \in m..((n + 1) - 1) : f[i] = 0
               PROVE  RunningSum(n + 1, f) = RunningSum(m, f)
    OBVIOUS
  <2>1. CASE m = n + 1
    BY <2>1
  <2>2. CASE m <= n
    <3>1. n \in m..((n + 1) - 1) /\ \A i \in m..(n - 1) : i \in m..((n + 1) - 1)
      BY <2>2
    <3>2. RunningSum(n, f) = RunningSum(m, f)
      BY <1>2, <2>2, <3>1
    <3>3. RunningSum(n + 1, f) = Plus(RunningSum(n, f), f[n])
      BY RunningSumUnfolds
    <3>4. f[n] = 0
      BY <3>1
    <3> QED BY <3>2, <3>3, <3>4, PlusFacts
  <2> QED BY <2>1, <2>2
<1>3. \A n \in Nat : n \in S
  <2> HIDE DEF S
  <2> QED BY <1>1, <1>2, Induction
<1> QED BY <1>3

-----------------------------------------------------------------------------
(* The highest score *)

IsMaximum(n, x, g) ==
  g = [j \in Below(n) |->
         IF j = 0 THEN x[0] ELSE IF Greater(x[j], g[j - 1]) THEN x[j] ELSE g[j - 1]]

LEMMA MaximumExists == \A x : \A n \in Nat : \E g : IsMaximum(n, x, g)
<1> SUFFICES ASSUME NEW x PROVE \A n \in Nat : \E g : IsMaximum(n, x, g)
  OBVIOUS
<1> DEFINE S == {n \in Nat : \E g : IsMaximum(n, x, g)}
<1>1. 0 \in S
  <2>1. Below(0) = {}
    BY DEF Below
  <2>2. IsMaximum(0, x, [j \in {} |-> 0])
    BY <2>1 DEF IsMaximum
  <2> QED BY <2>2
<1>2. ASSUME NEW n \in Nat, n \in S PROVE n + 1 \in S
  <2>1. PICK g : IsMaximum(n, x, g)
    BY <1>2
  <2> DEFINE new == IF n = 0 THEN x[0] ELSE IF Greater(x[n], g[n - 1]) THEN x[n] ELSE g[n - 1]
             h == [j \in Below(n + 1) |-> IF j = n THEN new ELSE g[j]]
  <2>2. ASSUME NEW j \in Below(n + 1)
        PROVE  h[j] = IF j = 0 THEN x[0]
                      ELSE IF Greater(x[j], h[j - 1]) THEN x[j] ELSE h[j - 1]
    <3>0. j \in Nat /\ j <= n
      BY DEF Below
    <3>1. CASE j = n
      <4>1. h[n] = new
        BY <3>1
      <4>2. CASE n = 0
        BY <3>1, <4>1, <4>2
      <4>3. CASE n # 0
        <5>1. n - 1 \in Below(n + 1) /\ n - 1 # n
          BY <4>3 DEF Below
        <5>2. h[n - 1] = g[n - 1]
          BY <5>1
        <5> HIDE DEF h
        <5> QED BY <3>1, <4>1, <4>3, <5>2
      <4> QED BY <4>2, <4>3
    <3>2. CASE j # n
      <4>1. j \in Below(n) /\ (j # 0 => j - 1 \in Below(n + 1) /\ j - 1 # n)
        BY <3>0, <3>2 DEF Below
      <4>2. h[j] = g[j] /\ (j # 0 => h[j - 1] = g[j - 1])
        BY <3>2, <4>1
      <4>3. g[j] = IF j = 0 THEN x[0]
                   ELSE IF Greater(x[j], g[j - 1]) THEN x[j] ELSE g[j - 1]
        BY <2>1, <4>1 DEF IsMaximum
      <4> HIDE DEF h
      <4> QED BY <4>2, <4>3
    <3> QED BY <3>1, <3>2
  <2>3. h = [j \in Below(n + 1) |-> h[j]]
    OBVIOUS
  <2> HIDE DEF h
  <2>4. IsMaximum(n + 1, x, h)
    BY <2>2, <2>3 DEF IsMaximum
  <2> QED BY <2>4
<1>3. \A n \in Nat : n \in S
  <2> HIDE DEF S
  <2> QED BY <1>1, <1>2, Induction
<1> QED BY <1>3

LEMMA MaximumIs ==
  ASSUME NEW x, NEW n \in Nat
  PROVE  \E g : IsMaximum(n, x, g) /\ RowMaximum(n, x) = g[n - 1]
<1> DEFINE g == CHOOSE g : IsMaximum(n, x, g)
<1>1. IsMaximum(n, x, g)
  BY MaximumExists
<1>2. RowMaximum(n, x) = g[n - 1]
  BY DEF RowMaximum, IsMaximum
<1> QED BY <1>1, <1>2

\* Among numbers, it is one of the scores and none is greater.
LEMMA MaximumIsHighest ==
  ASSUME NEW n \in Nat \ {0}, NEW x, \A j \in Below(n) : x[j] \in Number \ {NaN}
  PROVE  /\ \E j \in Below(n) : RowMaximum(n, x) = x[j]
         /\ \A j \in Below(n) : ~Greater(x[j], RowMaximum(n, x))
<1>1. PICK g : IsMaximum(n, x, g) /\ RowMaximum(n, x) = g[n - 1]
  BY MaximumIs
<1>2. IsMaximum(n, x, g)
  BY <1>1
<1> DEFINE Highest(k) == /\ \E j \in Below(k + 1) : g[k] = x[j]
                         /\ \A j \in Below(k + 1) : ~Greater(x[j], g[k])
           S == {k \in Nat : k < n => Highest(k)}
<1>3. 0 \in S
  <2>1. 0 \in Below(n) /\ \A j \in Below(0 + 1) : j = 0
    BY DEF Below
  <2>2. g[0] = x[0]
    BY <1>2, <2>1 DEF IsMaximum
  <2>3. ~Greater(x[0], x[0])
    BY <2>1, GreaterFacts
  <2>4. 0 \in Below(0 + 1)
    BY DEF Below
  <2> QED BY <2>1, <2>2, <2>3, <2>4
<1>4. ASSUME NEW k \in Nat, k \in S PROVE k + 1 \in S
  <2> SUFFICES ASSUME k + 1 < n PROVE Highest(k + 1)
    OBVIOUS
  <2>1. /\ k + 1 \in Below(n) /\ k + 1 # 0 /\ (k + 1) - 1 = k /\ k < n
        /\ \A j \in Below((k + 1) + 1) : j \in Below(k + 1) \/ j = k + 1
        /\ \A j \in Below(k + 1) : j \in Below((k + 1) + 1) /\ j \in Below(n)
        /\ k + 1 \in Below((k + 1) + 1)
    BY DEF Below
  <2>2. Highest(k)
    BY <1>4, <2>1
  <2>3. g[k + 1] = IF Greater(x[k + 1], g[k]) THEN x[k + 1] ELSE g[k]
    BY <1>2, <2>1 DEF IsMaximum
  <2>4. CASE ~Greater(x[k + 1], g[k])
    BY <2>1, <2>2, <2>3, <2>4
  <2>5. CASE Greater(x[k + 1], g[k])
    <3>1. g[k] \in Number \ {NaN} /\ x[k + 1] \in Number \ {NaN}
      BY <2>1, <2>2
    <3>2. \A j \in Below(k + 1) : ~Greater(x[j], x[k + 1])
      BY <2>1, <2>2, <2>5, <3>1, GreaterTransitive
    <3>3. ~Greater(x[k + 1], x[k + 1])
      BY <3>1, GreaterFacts
    <3> QED BY <2>1, <2>3, <2>5, <3>2, <3>3
  <2> QED BY <2>4, <2>5
<1>5. n - 1 \in S
  <2> HIDE DEF S
  <2> QED BY <1>3, <1>4, Induction, n - 1 \in Nat
<1>6. Highest(n - 1) /\ (n - 1) + 1 = n
  <2> HIDE DEF Highest
  <2> QED BY <1>5
<1> HIDE DEF S
<1> QED BY <1>1, <1>6

-----------------------------------------------------------------------------
(* One component of one head: what the softmax of n scores makes of n values *)

Weights(n, score) ==
  [j \in Below(n) |-> ExpOf(Minus(score[j], RowMaximum(n, score)))]

WeightedSum(n, weight, value) ==
  RunningSum(n, [j \in Below(n) |-> Times(weight[j], value[j])])

Attended(n, score, value) ==
  Quotient(WeightedSum(n, Weights(n, score), value), RunningSum(n, Weights(n, score)))

\* What the reference makes of them.
ScoresOf(m, score) == {score[j] : j \in Below(m)}

Unusable(m, score) ==
  ScoresOf(m, score) \cap {NaN, PosInf} # {} \/ ScoresOf(m, score) = {NegInf}

ReferenceWeights(m, score) ==
  [j \in Below(m) |-> IF score[j] = NegInf THEN 0
                      ELSE Exp(Max(ScoresOf(m, score) \cap Int) - score[j])]

ReferenceOf(m, score, value) ==
  IF Unusable(m, score) THEN NaN
  ELSE Quotient(WeightedSum(m, ReferenceWeights(m, score), value),
                RunningSum(m, ReferenceWeights(m, score)))

LEMMA QuotientOfNaN == \A x : Quotient(x, NaN) = NaN /\ Quotient(NaN, x) = NaN
BY DEF Quotient

\* A score that is not a number makes a weight that is none.
LEMMA NaNScore ==
  ASSUME NEW n \in Nat, NEW score, NEW j \in Below(n), score[j] = NaN
  PROVE  RunningSum(n, Weights(n, score)) = NaN
<1>1. Weights(n, score)[j] = ExpOf(Minus(NaN, RowMaximum(n, score)))
  BY DEF Weights
<1>2. Weights(n, score)[j] = NaN
  BY <1>1, MinusFacts, ExpOfFacts
<1> QED BY <1>2, SumWithNaN

\* So does the highest score, when it is infinite.
LEMMA InfiniteMaximum ==
  ASSUME NEW n \in Nat \ {0}, NEW score,
         \A j \in Below(n) : score[j] \in Number \ {NaN},
         RowMaximum(n, score) \in {PosInf, NegInf}
  PROVE  RunningSum(n, Weights(n, score)) = NaN
<1>1. PICK j \in Below(n) : RowMaximum(n, score) = score[j]
  BY MaximumIsHighest
<1>2. Weights(n, score)[j] = ExpOf(Minus(score[j], RowMaximum(n, score)))
  BY DEF Weights
<1>3. Minus(score[j], RowMaximum(n, score)) = NaN
  BY <1>1, MinusFacts
<1>4. Weights(n, score)[j] = NaN
  BY <1>2, <1>3, ExpOfFacts
<1> QED BY <1>4, SumWithNaN

\* The scores after the first m are masked.
LEMMA SoftmaxIsReference ==
  ASSUME NEW n \in Nat, NEW m \in 1..n, NEW score, NEW value,
         \A j \in Below(n) : score[j] \in Number /\ value[j] \in Number,
         \A j \in m..(n - 1) : score[j] = NegInf
  PROVE  Attended(n, score, value) =
           IF \A j \in m..(n - 1) : value[j] \in Int
           THEN ReferenceOf(m, score, value) ELSE NaN
<1> DEFINE highest == RowMaximum(n, score)
           W == Weights(n, score)
           R == ReferenceWeights(m, score)
           A == ScoresOf(m, score)
<1>0. /\ n \in Nat \ {0} /\ m \in Nat /\ m <= n
      /\ \A j \in Below(n) : j \in Below(m) \/ j \in m..(n - 1)
      /\ \A j \in Below(m) : j \in Below(n)
      /\ \A j \in m..(n - 1) : j \in Below(n)
      /\ 0 \in Below(m)
  BY DEF Below
<1>1. CASE Unusable(m, score)
  <2>1. RunningSum(n, W) = NaN
    <3>1. CASE \E j \in Below(n) : score[j] = NaN
      BY <3>1, NaNScore
    <3>2. CASE ~(\E j \in Below(n) : score[j] = NaN)
      <4>1. \A j \in Below(n) : score[j] \in Number \ {NaN}
        BY <3>2
      <4>2. highest \in {PosInf, NegInf}
        <5>1. PICK k \in Below(n) : highest = score[k]
          BY <1>0, <4>1, MaximumIsHighest
        <5>2. \A j \in Below(n) : ~Greater(score[j], highest)
          BY <1>0, <4>1, MaximumIsHighest
        <5>3. highest \in Number /\ highest # NaN
          BY <4>1, <5>1
        <5>4. CASE \E j \in Below(m) : score[j] = PosInf
          <6>1. PICK j \in Below(m) : score[j] = PosInf
            BY <5>4
          <6>2. ~Greater(PosInf, highest)
            BY <1>0, <5>2, <6>1
          <6> HIDE DEF highest
          <6> QED BY <5>3, <6>2, GreaterFacts
        <5>5. CASE A = {NegInf}
          <6>1. \A j \in Below(m) : score[j] = NegInf
            BY <5>5 DEF ScoresOf
          <6>2. score[k] = NegInf
            BY <1>0, <6>1
          <6> QED BY <5>1, <6>2
        <5>6. A \cap {NaN, PosInf} # {} => \E j \in Below(m) : score[j] = PosInf
          BY <1>0, <4>1 DEF ScoresOf
        <5> QED BY <1>1, <5>4, <5>5, <5>6 DEF Unusable
      <4> QED BY <1>0, <4>1, <4>2, InfiniteMaximum
    <3> QED BY <3>1, <3>2
  <2>2. Attended(n, score, value) = NaN
    BY <2>1, QuotientOfNaN DEF Attended
  <2> QED BY <1>1, <2>2 DEF ReferenceOf
<1>2. CASE ~Unusable(m, score)
  <2>1. /\ \A j \in Below(m) : score[j] \in Int \cup {NegInf}
        /\ \E j \in Below(m) : score[j] \in Int
    <3>1. \A j \in Below(m) : score[j] \in A
      BY DEF ScoresOf
    <3>2. \A j \in Below(m) : score[j] # NaN /\ score[j] # PosInf
      BY <1>2, <3>1 DEF Unusable
    <3>3. \A j \in Below(m) : score[j] \in Int \cup {NegInf}
      BY <1>0, <3>2 DEF Number
    <3>4. ASSUME \A j \in Below(m) : score[j] = NegInf PROVE FALSE
      <4>1. A = {NegInf}
        BY <1>0, <3>4 DEF ScoresOf
      <4> QED BY <1>2, <4>1 DEF Unusable
    <3> QED BY <3>3, <3>4
  <2>2. \A j \in Below(n) : score[j] \in Int \cup {NegInf} /\ score[j] \in Number \ {NaN}
    BY <1>0, <2>1, Specials DEF Number
  <2>3. /\ \E j \in Below(n) : highest = score[j]
        /\ \A j \in Below(n) : ~Greater(score[j], highest)
    BY <1>0, <2>2, MaximumIsHighest
  <2>4. highest \in Int
    <3>1. PICK j \in Below(m) : score[j] \in Int
      BY <2>1
    <3>2. ~Greater(score[j], highest) /\ highest \in Int \cup {NegInf}
      BY <1>0, <2>2, <2>3
    <3>3. Greater(score[j], NegInf)
      BY <3>1, GreaterFacts, Specials DEF Number
    <3> QED BY <3>2, <3>3
  <2>5. highest = Max(A \cap Int)
    <3>1. highest \in A \cap Int
      <4>1. PICK k \in Below(n) : highest = score[k]
        BY <2>3
      <4>2. k \in Below(m)
        BY <1>0, <2>4, <4>1, Specials
      <4> QED BY <2>4, <4>1, <4>2 DEF ScoresOf
    <3>2. \A y \in A \cap Int : highest >= y
      <4> SUFFICES ASSUME NEW y \in A \cap Int PROVE highest >= y
        OBVIOUS
      <4>1. PICK j \in Below(m) : y = score[j]
        BY DEF ScoresOf
      <4>2. ~Greater(y, highest)
        BY <1>0, <2>3, <4>1
      <4>3. ~(y > highest)
        BY <2>4, <4>2, GreaterFacts
      <4> QED BY <2>4, <4>3
    <3> HIDE DEF highest, A
    <3>3. \A x \in A \cap Int : (\A y \in A \cap Int : x >= y) => x = highest
      BY <3>1, <3>2
    <3> QED BY <3>1, <3>2, <3>3 DEF Max
  <2>6. ASSUME NEW j \in Below(m) PROVE W[j] = R[j]
    <3>1. W[j] = ExpOf(Minus(score[j], highest))
      BY <1>0 DEF Weights
    <3>2. R[j] = IF score[j] = NegInf THEN 0 ELSE Exp(highest - score[j])
      BY <2>5 DEF ReferenceWeights
    <3>3. CASE score[j] = NegInf
      BY <2>4, <3>1, <3>2, <3>3, MinusFacts, ExpOfFacts
    <3>4. CASE score[j] \in Int
      <4>1. /\ Minus(score[j], highest) = score[j] - highest
            /\ Minus(score[j], highest) \in Int
        BY <2>4, <3>4, MinusFacts
      <4>2. -(score[j] - highest) = highest - score[j] /\ score[j] # NegInf
        BY <2>4, <3>4, Specials
      <4> HIDE DEF highest, W, R
      <4>3. ExpOf(Minus(score[j], highest)) = Exp(-(score[j] - highest))
        BY <4>1, ExpOfFacts
      <4> QED BY <3>1, <3>2, <4>2, <4>3
    <3> QED BY <2>1, <3>3, <3>4
  <2>7. ASSUME NEW j \in m..(n - 1) PROVE W[j] = 0
    <3>1. W[j] = ExpOf(Minus(score[j], highest))
      BY <1>0 DEF Weights
    <3> QED BY <2>4, <3>1, MinusFacts, ExpOfFacts
  <2> HIDE DEF W, R, highest
  <2>8. RunningSum(n, W) = RunningSum(m, R)
    <3>1. RunningSum(n, W) = RunningSum(m, W)
      BY <1>0, <2>7, SumOfZeros
    <3>2. RunningSum(m, W) = RunningSum(m, R)
      BY <1>0, <2>6, SumCongruence
    <3> QED BY <3>1, <3>2
  <2> DEFINE f == [j \in Below(n) |-> Times(W[j], value[j])]
             g == [j \in Below(m) |-> Times(R[j], value[j])]
  <2>9. \A j \in Below(n) : f[j] = Times(W[j], value[j])
    OBVIOUS
  <2>a. \A j \in Below(m) : g[j] = Times(R[j], value[j])
    OBVIOUS
  <2>b. /\ WeightedSum(n, W, value) = RunningSum(n, f)
        /\ WeightedSum(m, R, value) = RunningSum(m, g)
    BY DEF WeightedSum
  <2>c. /\ Attended(n, score, value) = Quotient(RunningSum(n, f), RunningSum(n, W))
        /\ ReferenceOf(m, score, value) = Quotient(RunningSum(m, g), RunningSum(m, R))
    BY <1>2, <2>b DEF Attended, ReferenceOf, W, R
  <2> HIDE DEF f, g
  <2>d. CASE \A j \in m..(n - 1) : value[j] \in Int
    <3>1. \A j \in m..(n - 1) : f[j] = 0
      BY <1>0, <2>7, <2>9, <2>d, TimesFacts
    <3>2. RunningSum(n, f) = RunningSum(m, f)
      BY <1>0, <3>1, SumOfZeros
    <3>3. \A j \in Below(m) : f[j] = g[j]
      BY <1>0, <2>6, <2>9, <2>a
    <3>4. RunningSum(m, f) = RunningSum(m, g)
      BY <1>0, <3>3, SumCongruence
    <3> QED BY <2>8, <2>c, <2>d, <3>2, <3>4
  <2>e. CASE ~(\A j \in m..(n - 1) : value[j] \in Int)
    <3>1. PICK j \in m..(n - 1) : value[j] \notin Int
      BY <2>e
    <3>2. j \in Below(n) /\ value[j] \in Number \ Int
      BY <1>0, <3>1
    <3>3. f[j] = NaN
      BY <2>7, <2>9, <3>1, <3>2, TimesFacts
    <3>4. RunningSum(n, f) = NaN
      BY <1>0, <3>2, <3>3, SumWithNaN
    <3>5. Attended(n, score, value) = NaN
      BY <2>c, <3>4, QuotientOfNaN
    <3> QED BY <2>e, <3>5
  <2> QED BY <2>d, <2>e
<1> QED BY <1>1, <1>2

\* The reference, in these terms.
LEMMA ReferenceIs ==
  ASSUME NEW text, NEW h, NEW d, NEW m \in Nat \ {0}, NEW score, NEW value,
         \A j \in Below(m) : /\ score[j] = ReferenceScore(text, h, m, j + 1)
                             /\ value[j] = ValueOf(text[j + 1], h, d)
  PROVE  ReferenceOf(m, score, value) = Reference(text, h, m, d)
<1> DEFINE other == [j \in 1..m |-> ReferenceScore(text, h, m, j)]
           scores == {other[j] : j \in 1..m}
           weight == [j \in 1..m |-> IF other[j] = NegInf THEN 0
                                     ELSE Exp(Max(scores \cap Int) - other[j])]
           A == ScoresOf(m, score)
           R == ReferenceWeights(m, score)
<1>1. /\ \A j \in Below(m) : j + 1 \in 1..m
      /\ \A j \in 1..m : j - 1 \in Below(m) /\ (j - 1) + 1 = j
  BY DEF Below
<1>2. \A j \in Below(m) : score[j] = other[j + 1]
  BY <1>1
<1>3. A = scores
  <2>1. ASSUME NEW x \in A PROVE x \in scores
    <3>1. PICK j \in Below(m) : x = score[j]
      BY DEF ScoresOf
    <3> HIDE DEF other
    <3> QED BY <1>1, <1>2, <3>1
  <2>2. ASSUME NEW x \in scores PROVE x \in A
    <3>1. PICK j \in 1..m : x = other[j]
      OBVIOUS
    <3>2. x = score[j - 1] /\ j - 1 \in Below(m)
      <4> HIDE DEF other
      <4> QED BY <1>1, <1>2, <3>1
    <3> QED BY <3>2 DEF ScoresOf
  <2> HIDE DEF A, scores
  <2> QED BY <2>1, <2>2
<1>4. \A j \in Below(m) : R[j] = weight[j + 1]
  <2> SUFFICES ASSUME NEW j \in Below(m) PROVE R[j] = weight[j + 1]
    OBVIOUS
  <2>1. R[j] = IF score[j] = NegInf THEN 0 ELSE Exp(Max(A \cap Int) - score[j])
    BY DEF ReferenceWeights
  <2> HIDE DEF other, scores, A, R
  <2>2. weight[j + 1] = IF other[j + 1] = NegInf THEN 0
                        ELSE Exp(Max(scores \cap Int) - other[j + 1])
    BY <1>1
  <2> QED BY <1>2, <1>3, <2>1, <2>2
<1> DEFINE f == [j \in Below(m) |-> Times(R[j], value[j])]
           g == [j \in Below(m) |-> Times(weight[j + 1], ValueOf(text[j + 1], h, d))]
           k == [j \in Below(m) |-> weight[j + 1]]
<1>5. Reference(text, h, m, d) =
        IF scores \cap {NaN, PosInf} # {} \/ scores = {NegInf} THEN NaN
        ELSE Quotient(RunningSum(m, g), RunningSum(m, k))
  BY DEF Reference
<1>6. ReferenceOf(m, score, value) =
        IF A \cap {NaN, PosInf} # {} \/ A = {NegInf} THEN NaN
        ELSE Quotient(RunningSum(m, f), RunningSum(m, R))
  BY DEF ReferenceOf, Unusable, WeightedSum
<1> HIDE DEF other, scores, weight, A, R
<1>7. \A j \in Below(m) : f[j] = g[j] /\ R[j] = k[j]
  BY <1>4
<1> HIDE DEF f, g, k
<1>8. RunningSum(m, f) = RunningSum(m, g) /\ RunningSum(m, R) = RunningSum(m, k)
  BY <1>7, SumCongruence
<1> QED BY <1>3, <1>5, <1>6, <1>8

-----------------------------------------------------------------------------
(* One head *)

Matrix(r, w, e) == \A i \in Below(r), j \in Below(w) : e[i][j] \in Number

Column(n, e, d) == [j \in Below(n) |-> e[j][d]]

\* The scores of r queries and n keys of one head.
DotProduct(a, b) == RunningSum(HeadSize, [d \in Below(HeadSize) |-> Times(a[d], b[d])])

LEMMA TensorShape ==
  ASSUME NEW r, NEW w, NEW e
  PROVE  Tensor(r, w, e).rows = r /\ Tensor(r, w, e).columns = w
BY DEF Tensor

LEMMA ScoresAre ==
  ASSUME NEW r \in Nat, NEW n \in Nat, NEW qe, NEW ke, NEW off
  PROVE  LET s == Masked(Matmul(Tensor(r, HeadSize, qe),
                                Transpose(Tensor(n, HeadSize, ke))), off)
         IN /\ s.rows = r /\ s.columns = n
            /\ \A i \in Below(r), j \in Below(n) :
                 s.data[i * n + j] = IF j > off + i THEN NegInf ELSE DotProduct(qe[i], ke[j])
<1> DEFINE q == Tensor(r, HeadSize, qe)
           k == Tensor(n, HeadSize, ke)
           t == Transpose(k)
           p == Matmul(q, t)
           s == Masked(p, off)
           te == [row \in Below(HeadSize) |-> [column \in Below(n) |->
                    k.data[column * HeadSize + row]]]
           pe == [row \in Below(r) |-> [column \in Below(n) |->
                    RunningSum(HeadSize, [inner \in Below(HeadSize) |->
                      Times(q.data[row * HeadSize + inner], t.data[inner * n + column])])]]
           se == [i \in Below(r) |-> [j \in Below(n) |->
                    IF j > off + i THEN NegInf ELSE p.data[i * n + j]]]
<1>0. HeadSize \in Nat
  BY AttentionAssumption
<1>1. /\ q.rows = r /\ q.columns = HeadSize /\ k.rows = n /\ k.columns = HeadSize
      /\ \A i \in Below(r), d \in Below(HeadSize) : q.data[i * HeadSize + d] = qe[i][d]
      /\ \A j \in Below(n), d \in Below(HeadSize) : k.data[j * HeadSize + d] = ke[j][d]
  BY <1>0, TensorShape, TensorElement
<1> HIDE DEF q, k
<1>2. t = Tensor(HeadSize, n, te)
  BY <1>1 DEF Transpose
<1>3. /\ t.rows = HeadSize /\ t.columns = n
      /\ \A d \in Below(HeadSize), j \in Below(n) : t.data[d * n + j] = te[d][j]
  <2> HIDE DEF te, t
  <2> QED BY <1>0, <1>2, TensorShape, TensorElement
<1>4. \A d \in Below(HeadSize), j \in Below(n) : t.data[d * n + j] = ke[j][d]
  <2>1. \A d \in Below(HeadSize), j \in Below(n) : te[d][j] = ke[j][d]
    BY <1>1
  <2> HIDE DEF te, t
  <2> QED BY <1>3, <2>1
<1> HIDE DEF t
<1>5. p = Tensor(r, n, pe)
  BY <1>1, <1>3 DEF Matmul
<1>6. /\ p.rows = r /\ p.columns = n
      /\ \A i \in Below(r), j \in Below(n) : p.data[i * n + j] = pe[i][j]
  <2> HIDE DEF pe, p
  <2> QED BY <1>5, TensorShape, TensorElement
<1>7. ASSUME NEW i \in Below(r), NEW j \in Below(n)
      PROVE  p.data[i * n + j] = DotProduct(qe[i], ke[j])
  <2> DEFINE f == [inner \in Below(HeadSize) |->
                     Times(q.data[i * HeadSize + inner], t.data[inner * n + j])]
             g == [d \in Below(HeadSize) |-> Times(qe[i][d], ke[j][d])]
  <2>1. pe[i][j] = RunningSum(HeadSize, f)
    OBVIOUS
  <2>2. DotProduct(qe[i], ke[j]) = RunningSum(HeadSize, g)
    BY DEF DotProduct
  <2>3. \A d \in Below(HeadSize) : f[d] = g[d]
    BY <1>1, <1>4
  <2> HIDE DEF f, g, pe, p
  <2>4. RunningSum(HeadSize, f) = RunningSum(HeadSize, g)
    BY <1>0, <2>3, SumCongruence
  <2> QED BY <1>6, <2>1, <2>2, <2>4
<1> HIDE DEF p
<1>8. s = Tensor(r, n, se)
  BY <1>6 DEF Masked
<1>9. /\ s.rows = r /\ s.columns = n
      /\ \A i \in Below(r), j \in Below(n) : s.data[i * n + j] = se[i][j]
  <2> HIDE DEF se, s
  <2> QED BY <1>8, TensorShape, TensorElement
<1>a. \A i \in Below(r), j \in Below(n) :
        se[i][j] = IF j > off + i THEN NegInf ELSE DotProduct(qe[i], ke[j])
  BY <1>7
<1>b. \A i \in Below(r), j \in Below(n) :
        s.data[i * n + j] = IF j > off + i THEN NegInf ELSE DotProduct(qe[i], ke[j])
  <2> HIDE DEF se, s
  <2> QED BY <1>9, <1>a
<1>c. s = Masked(Matmul(Tensor(r, HeadSize, qe), Transpose(Tensor(n, HeadSize, ke))), off)
  BY DEF s, p, t, q, k
<1> HIDE DEF s
<1> QED BY <1>9, <1>b, <1>c

\* What the head makes of its scores and values.
LEMMA HeadIs ==
  ASSUME NEW r \in Nat, NEW n \in Nat, NEW s, s.rows = r, s.columns = n, NEW ve
  PROVE  LET o == Weighed(Exponentials(s), Tensor(n, HeadSize, ve))
         IN \A i \in Below(r), d \in Below(HeadSize) :
              o.data[i * HeadSize + d] = Attended(n, Row(s, i), Column(n, ve, d))
<1> DEFINE w == Exponentials(s)
           v == Tensor(n, HeadSize, ve)
           m == Matmul(w, v)
           o == Weighed(w, v)
           we == [i \in Below(r) |-> [j \in Below(n) |->
                    ExpOf(Minus(Row(s, i)[j], RowMaximum(n, Row(s, i))))]]
           me == [row \in Below(r) |-> [column \in Below(HeadSize) |->
                    RunningSum(n, [inner \in Below(n) |->
                      Times(w.data[row * n + inner], v.data[inner * HeadSize + column])])]]
           oe == [i \in Below(r) |-> [d \in Below(HeadSize) |->
                    Quotient(m.data[i * HeadSize + d], RowTotal(w, i))]]
<1>0. HeadSize \in Nat
  BY AttentionAssumption
<1>1. w = Tensor(r, n, we)
  BY DEF Exponentials
<1>2. /\ w.rows = r /\ w.columns = n
      /\ \A i \in Below(r), j \in Below(n) : w.data[i * n + j] = we[i][j]
  <2> HIDE DEF we, w
  <2> QED BY <1>1, TensorShape, TensorElement
<1>3. \A i \in Below(r), j \in Below(n) : w.data[i * n + j] = Weights(n, Row(s, i))[j]
  <2>1. \A i \in Below(r), j \in Below(n) : we[i][j] = Weights(n, Row(s, i))[j]
    BY DEF Weights
  <2> HIDE DEF we, w
  <2> QED BY <1>2, <2>1
<1>4. /\ v.rows = n /\ v.columns = HeadSize
      /\ \A j \in Below(n), d \in Below(HeadSize) : v.data[j * HeadSize + d] = ve[j][d]
  BY <1>0, TensorShape, TensorElement
<1>5. o = Tensor(m.rows, m.columns, [i \in Below(m.rows) |-> [d \in Below(m.columns) |->
                    Quotient(m.data[i * m.columns + d], RowTotal(w, i))]])
  BY DEF Weighed
<1> HIDE DEF w, v
<1>6. m = Tensor(r, HeadSize, me)
  BY <1>2, <1>4 DEF Matmul
<1>7. /\ m.rows = r /\ m.columns = HeadSize
      /\ \A i \in Below(r), d \in Below(HeadSize) : m.data[i * HeadSize + d] = me[i][d]
  <2> HIDE DEF me, m
  <2> QED BY <1>0, <1>6, TensorShape, TensorElement
<1> HIDE DEF m
<1>8. o = Tensor(r, HeadSize, oe)
  <2> HIDE DEF o
  <2> QED BY <1>5, <1>7
<1>9. \A i \in Below(r), d \in Below(HeadSize) : o.data[i * HeadSize + d] = oe[i][d]
  <2> HIDE DEF oe, o
  <2> QED BY <1>0, <1>8, TensorElement
<1>a. ASSUME NEW i \in Below(r), NEW d \in Below(HeadSize)
      PROVE  o.data[i * HeadSize + d] = Attended(n, Row(s, i), Column(n, ve, d))
  <2> DEFINE x == Weights(n, Row(s, i))
             c == Column(n, ve, d)
             f == [inner \in Below(n) |->
                     Times(w.data[i * n + inner], v.data[inner * HeadSize + d])]
             g == [j \in Below(n) |-> Times(x[j], c[j])]
  <2>1. me[i][d] = RunningSum(n, f)
    OBVIOUS
  <2>2. \A j \in Below(n) : c[j] = ve[j][d]
    BY DEF Column
  <2>3. WeightedSum(n, x, c) = RunningSum(n, g)
    BY DEF WeightedSum
  <2> HIDE DEF x, c
  <2>4. \A j \in Below(n) : w.data[i * n + j] = x[j]
    BY <1>3 DEF x
  <2>5. \A j \in Below(n) : f[j] = g[j]
    BY <1>4, <2>2, <2>4
  <2>6. RowTotal(w, i) = RunningSum(n, x)
    <3>1. \A j \in Below(n) : Row(w, i)[j] = x[j]
      BY <1>2, <2>4 DEF Row
    <3> QED BY <1>2, <3>1, SumCongruence DEF RowTotal
  <2>7. oe[i][d] = Quotient(m.data[i * HeadSize + d], RowTotal(w, i))
    OBVIOUS
  <2> HIDE DEF f, g, o, oe, me
  <2>8. RunningSum(n, f) = RunningSum(n, g)
    BY <2>5, SumCongruence
  <2>9. m.data[i * HeadSize + d] = WeightedSum(n, x, c)
    BY <1>7, <2>1, <2>3, <2>8
  <2>a. o.data[i * HeadSize + d] = Quotient(WeightedSum(n, x, c), RunningSum(n, x))
    BY <1>9, <2>6, <2>7, <2>9
  <2> QED BY <2>a DEF Attended, x, c
<1>b. o = Weighed(Exponentials(s), Tensor(n, HeadSize, ve))
  BY DEF w, v
<1> HIDE DEF o
<1> QED BY <1>a, <1>b

-----------------------------------------------------------------------------
(* The invariant *)

NoCall == pass.stage = "none"

\* The rows that the cache knows during a call, and between calls.
Whole == fed \o pass.text
Known == IF NoCall THEN fed ELSE Whole

\* What the call owes for component d of head h of row i.
Expected(text, h, i, d) ==
  IF \A j \in (i + 1)..Len(text) : ValueOf(text[j], h, d) \in Int
  THEN Reference(text, h, i, d) ELSE NaN

Cached(cached, text, component) ==
  /\ cached.rows = Capacity /\ cached.columns = EmbeddingSize
  /\ DOMAIN cached.data = Below(Capacity * EmbeddingSize)
  /\ cached = [rows |-> cached.rows, columns |-> cached.columns, data |-> cached.data]
  /\ \A t \in Below(Len(text)), c \in Below(EmbeddingSize) :
       cached.data[t * EmbeddingSize + c] = text[t + 1][component + c + 1]

\* The first `heads` heads of the rows after the first `offset` ones.
Merged(merged, text, offset, heads) ==
  /\ merged.rows = Len(text) - offset /\ merged.columns = EmbeddingSize
  /\ DOMAIN merged.data = Below((Len(text) - offset) * EmbeddingSize)
  /\ merged = [rows |-> merged.rows, columns |-> merged.columns, data |-> merged.data]
  /\ \A t \in Below(Len(text) - offset), h \in Below(heads), d \in Below(HeadSize) :
       merged.data[t * EmbeddingSize + h * HeadSize + d] =
         Expected(text, h, offset + t + 1, d)

CacheInvariant ==
  /\ with_cache \in BOOLEAN
  /\ fed \in Seq(Rows) /\ length = Len(fed)
  /\ ~with_cache => fed = <<>>
  /\ with_cache => /\ Len(Known) <= Capacity
                   /\ Cached(keys, Known, EmbeddingSize)
                   /\ Cached(values, Known, 2 * EmbeddingSize)

ScoresNow ==
  Masked(Matmul(ExtractHead(Projected(pass.text), 0, pass.head), Transpose(HeadKeys)),
         pass.query_offset)

CallInvariant ==
  /\ pass = [stage |-> pass.stage, text |-> pass.text, query_offset |-> pass.query_offset,
             head |-> pass.head, scores |-> pass.scores, merged |-> pass.merged]
  /\ pass.text \in Seq(Rows) /\ pass.text # <<>>
  /\ pass.query_offset = Len(fed)
  /\ pass.head \in 0..HeadCount
  /\ \/ pass.stage = "scores" /\ pass.head # HeadCount
     \/ pass.stage = "softmax" /\ pass.head # HeadCount /\ pass.scores = ScoresNow
     \/ pass.stage = "values" /\ pass.head # HeadCount /\ pass.scores = Exponentials(ScoresNow)
     \/ pass.stage = "output" /\ pass.head = HeadCount
  /\ Merged(pass.merged, Whole, Len(fed), pass.head)

PassInvariant == pass = NoPass \/ CallInvariant

OutputInvariant ==
  /\ output.text \in Seq(Rows) /\ output.offset \in 0..Len(output.text)
  /\ Merged(output.merged, output.text, output.offset, HeadCount)

AttentionInvariant == CacheInvariant /\ PassInvariant /\ OutputInvariant

-----------------------------------------------------------------------------
(* Rows, heads and the cache *)

Slice(text, component, head) ==
  [t \in Below(Len(text)) |-> [d \in Below(HeadSize) |->
    text[t + 1][component + head * HeadSize + d + 1]]]

Start == {0, EmbeddingSize, 2 * EmbeddingSize}

LEMMA Sizes ==
  /\ HeadCount \in Nat \ {0} /\ HeadSize \in Nat \ {0} /\ Capacity \in Nat \ {0}
  /\ EmbeddingSize \in Nat \ {0} /\ 3 * EmbeddingSize \in Nat
<1>1. HeadCount \in Nat \ {0} /\ HeadSize \in Nat \ {0} /\ Capacity \in Nat \ {0}
  BY AttentionAssumption
<1>2. 0 \in Below(HeadCount) /\ 0 \in Below(HeadSize)
  BY <1>1 DEF Below
<1>3. EmbeddingSize \in Nat \ {0}
  BY <1>2, HeadPlace
<1> QED BY <1>1, <1>3

LEMMA RowElement ==
  ASSUME NEW row \in Rows, NEW c \in Below(3 * EmbeddingSize)
  PROVE  row[c + 1] \in Number
<1>1. c + 1 \in 1..(3 * EmbeddingSize)
  BY Sizes DEF Below
<1> QED BY <1>1, AttentionAssumption

\* The place of a component of a head in a row of the projection.
LEMMA ComponentPlace ==
  ASSUME NEW head \in Below(HeadCount), NEW d \in Below(HeadSize), NEW component \in Start
  PROVE  /\ head * HeadSize + d \in Below(EmbeddingSize)
         /\ component + (head * HeadSize + d) \in Below(3 * EmbeddingSize)
         /\ component + head * HeadSize + d = component + (head * HeadSize + d)
         /\ \A x \in Int : x + component + head * HeadSize + d
                             = x + (component + (head * HeadSize + d))
<1> DEFINE p == head * HeadSize
<1>1. p + d \in Below(EmbeddingSize) /\ EmbeddingSize \in Nat
  BY HeadPlace
<1>2. p \in Int /\ d \in Int
  BY Sizes DEF Below
<1> HIDE DEF p
<1>3. component \in Int /\ 0 <= component /\ component <= 2 * EmbeddingSize
  BY <1>1 DEF Start
<1>4. component + (p + d) \in Below(3 * EmbeddingSize)
  BY <1>1, <1>2, <1>3 DEF Below
<1>5. /\ component + p + d = component + (p + d)
      /\ \A x \in Int : x + component + p + d = x + (component + (p + d))
  BY <1>2, <1>3
<1> QED BY <1>1, <1>4, <1>5 DEF p

LEMMA TextRows ==
  ASSUME NEW text \in Seq(Rows)
  PROVE  /\ Len(text) \in Nat
         /\ \A t \in Below(Len(text)) : t + 1 \in 1..Len(text) /\ text[t + 1] \in Rows
<1>1. Len(text) \in Nat /\ text \in [1..Len(text) -> Rows]
  BY LenProperties
<1>2. \A t \in Below(Len(text)) : t + 1 \in 1..Len(text)
  BY <1>1 DEF Below
<1> QED BY <1>1, <1>2

LEMMA ProjectedElement ==
  ASSUME NEW text \in Seq(Rows)
  PROVE  /\ Projected(text).rows = Len(text)
         /\ Projected(text).columns = 3 * EmbeddingSize
         /\ \A t \in Below(Len(text)), c \in Below(3 * EmbeddingSize) :
              Projected(text).data[t * (3 * EmbeddingSize) + c] = text[t + 1][c + 1]
<1> DEFINE w == 3 * EmbeddingSize
           e == [t \in Below(Len(text)) |-> [c \in Below(w) |-> text[t + 1][c + 1]]]
<1>1. Projected(text) = Tensor(Len(text), w, e)
  BY DEF Projected
<1>2. \A t \in Below(Len(text)), c \in Below(w) : e[t][c] = text[t + 1][c + 1]
  OBVIOUS
<1>3. w \in Nat /\ Len(text) \in Nat
  BY Sizes, TextRows
<1> HIDE DEF w, e
<1>4. \A t \in Below(Len(text)), c \in Below(w) :
        Projected(text).data[t * w + c] = text[t + 1][c + 1]
  BY <1>1, <1>2, <1>3, TensorElement
<1>5. Projected(text).rows = Len(text) /\ Projected(text).columns = w
  BY <1>1, TensorShape
<1> QED BY <1>4, <1>5 DEF w

LEMMA HeadOfProjection ==
  ASSUME NEW text \in Seq(Rows), NEW component \in Start, NEW head \in Below(HeadCount)
  PROVE  ExtractHead(Projected(text), component, head) =
           Tensor(Len(text), HeadSize, Slice(text, component, head))
<1> DEFINE p == Projected(text)
           w == 3 * EmbeddingSize
           e == [t \in Below(Len(text)) |-> [d \in Below(HeadSize) |->
                   p.data[t * w + component + head * HeadSize + d]]]
<1>1. /\ p.rows = Len(text) /\ p.columns = w /\ w \in Nat
      /\ \A t \in Below(Len(text)), c \in Below(w) : p.data[t * w + c] = text[t + 1][c + 1]
  BY ProjectedElement, Sizes
<1> HIDE DEF p
<1>2. ExtractHead(p, component, head) = Tensor(Len(text), HeadSize, e)
  BY <1>1 DEF ExtractHead
<1>3. ASSUME NEW t \in Below(Len(text)), NEW d \in Below(HeadSize)
      PROVE  p.data[t * w + component + head * HeadSize + d]
               = text[t + 1][component + head * HeadSize + d + 1]
  <2> DEFINE c == component + (head * HeadSize + d)
             x == t * w
  <2>1. x \in Int
    BY <1>1, TextRows DEF Below
  <2>2. c \in Below(w) /\ component + head * HeadSize + d = c
    BY ComponentPlace
  <2>3. x + component + head * HeadSize + d = x + c
    <3> HIDE DEF x
    <3> QED BY <2>1, ComponentPlace
  <2>4. p.data[x + c] = text[t + 1][c + 1]
    <3> HIDE DEF c
    <3> QED BY <1>1, <2>2
  <2> QED BY <2>2, <2>3, <2>4, Zenon
<1>4. e = Slice(text, component, head)
  BY <1>3, Zenon DEF Slice
<1> HIDE DEF e
<1> QED BY <1>2, <1>4 DEF p

LEMMA HeadOfCache ==
  ASSUME NEW text \in Seq(Rows), NEW component \in Start, NEW head \in Below(HeadCount),
         NEW cached, Cached(cached, text, component)
  PROVE  ExtractCachedHead(cached, head, Len(text)) =
           Tensor(Len(text), HeadSize, Slice(text, component, head))
<1> DEFINE e == [t \in Below(Len(text)) |-> [d \in Below(HeadSize) |->
                   cached.data[t * EmbeddingSize + head * HeadSize + d]]]
<1>1. /\ cached.columns = EmbeddingSize
      /\ \A t \in Below(Len(text)), c \in Below(EmbeddingSize) :
           cached.data[t * EmbeddingSize + c] = text[t + 1][component + c + 1]
  BY DEF Cached
<1>2. ExtractCachedHead(cached, head, Len(text)) = Tensor(Len(text), HeadSize, e)
  BY <1>1 DEF ExtractCachedHead
<1>3. ASSUME NEW t \in Below(Len(text)), NEW d \in Below(HeadSize)
      PROVE  cached.data[t * EmbeddingSize + head * HeadSize + d]
               = text[t + 1][component + head * HeadSize + d + 1]
  <2> DEFINE y == head * HeadSize
             c == y + d
             x == t * EmbeddingSize
  <2>1. x \in Int /\ y \in Int /\ d \in Int /\ component \in Int
    BY Sizes, TextRows DEF Below, Start
  <2>2. c \in Below(EmbeddingSize) /\ component + head * HeadSize + d = component + c
    BY ComponentPlace
  <2>3. x + y + d = x + c
    <3> HIDE DEF x, y
    <3> QED BY <2>1
  <2>4. cached.data[x + c] = text[t + 1][component + c + 1]
    <3> HIDE DEF c
    <3> QED BY <1>1, <2>2
  <2> QED BY <2>2, <2>3, <2>4, Zenon
<1>4. e = Slice(text, component, head)
  BY <1>3, Zenon DEF Slice
<1> HIDE DEF e
<1> QED BY <1>2, <1>4

\* What a shorter text needs, the cache of a longer one has.
LEMMA CachedPrefix ==
  ASSUME NEW cached, NEW component, NEW text \in Seq(Rows), NEW more \in Seq(Rows),
         Cached(cached, text \o more, component)
  PROVE  Cached(cached, text, component)
<1>1. ASSUME NEW t \in Below(Len(text))
      PROVE  t \in Below(Len(text \o more)) /\ (text \o more)[t + 1] = text[t + 1]
  <2>1. t + 1 \in 1..Len(text) /\ Len(text) \in Nat /\ Len(more) \in Nat
    BY TextRows
  <2>2. Len(text \o more) = Len(text) + Len(more) /\ (text \o more)[t + 1] = text[t + 1]
    BY <2>1, ConcatProperties
  <2> QED BY <2>1, <2>2 DEF Below
<1> DEFINE both == text \o more
<1>2. Cached(cached, both, component)
  OBVIOUS
<1>3. \A t \in Below(Len(text)) : t \in Below(Len(both)) /\ both[t + 1] = text[t + 1]
  BY <1>1
<1> HIDE DEF both
<1> QED BY <1>2, <1>3 DEF Cached

\* Appending the rows of a call.
LEMMA CachedAppend ==
  ASSUME NEW cached, NEW component \in Start, NEW text \in Seq(Rows), NEW more \in Seq(Rows),
         Len(text) + Len(more) <= Capacity, Cached(cached, text, component)
  PROVE  Cached(AppendToCache(cached, Projected(more), component, Len(text)),
                text \o more, component)
<1> DEFINE p == Projected(more)
           E == EmbeddingSize
           n == Len(text)
           both == text \o more
           data == [x \in DOMAIN cached.data |->
                      LET t == (x \div E) - n
                      IN IF t \in Below(Len(more))
                         THEN p.data[t * (3 * E) + component + (x % E)]
                         ELSE cached.data[x]]
           after == AppendToCache(cached, p, component, n)
<1>0. /\ E \in Nat \ {0} /\ n \in Nat /\ Len(more) \in Nat /\ Capacity \in Nat
      /\ component \in Int
  BY Sizes, TextRows DEF Start
<1>1. /\ p.rows = Len(more) /\ p.columns = 3 * E
      /\ \A t \in Below(Len(more)), c \in Below(3 * E) :
           p.data[t * (3 * E) + c] = more[t + 1][c + 1]
  BY ProjectedElement
<1>2. /\ both \in Seq(Rows) /\ Len(both) = n + Len(more)
      /\ \A k \in 1..Len(both) : both[k] = IF k <= n THEN text[k] ELSE more[k - n]
  BY ConcatProperties
<1>3. /\ cached.rows = Capacity /\ cached.columns = E
      /\ DOMAIN cached.data = Below(Capacity * E)
      /\ cached = [rows |-> cached.rows, columns |-> cached.columns, data |-> cached.data]
      /\ \A t \in Below(n), c \in Below(E) :
           cached.data[t * E + c] = text[t + 1][component + c + 1]
  BY DEF Cached
<1> HIDE DEF p, both
<1>4. after = [cached EXCEPT !.data = data]
  BY <1>1, <1>3 DEF AppendToCache
<1>5. after = [rows |-> Capacity, columns |-> E, data |-> data]
  <2> HIDE DEF after, data
  <2>1. after = [[rows |-> Capacity, columns |-> E, data |-> cached.data] EXCEPT !.data = data]
    BY <1>3, <1>4
  <2> QED BY <2>1
<1>6. ASSUME NEW t \in Below(Len(both)), NEW c \in Below(E)
      PROVE  data[t * E + c] = both[t + 1][component + c + 1]
  <2> DEFINE x == t * E + c
  <2>0. t \in Nat /\ t < n + Len(more) /\ t + 1 \in 1..Len(both) /\ c \in Nat /\ c < E
    BY <1>0, <1>2 DEF Below
  <2>1. t \in Below(Capacity)
    BY <1>0, <2>0 DEF Below
  <2>2. x \in Below(Capacity * E) /\ x \div E = t /\ x % E = c
    BY <1>0, <2>1, FlatIndex
  <2> HIDE DEF x
  <2>3. data[x] = IF t - n \in Below(Len(more))
                  THEN p.data[(t - n) * (3 * E) + component + c] ELSE cached.data[x]
    BY <1>3, <2>2
  <2> HIDE DEF data
  <2>4. CASE t < n
    <3>1. t \in Below(n) /\ t - n \notin Below(Len(more)) /\ t + 1 <= n
      BY <1>0, <2>0, <2>4 DEF Below
    <3>2. both[t + 1] = text[t + 1]
      BY <1>2, <2>0, <3>1
    <3>3. cached.data[x] = text[t + 1][component + c + 1]
      BY <1>3, <3>1 DEF x
    <3> QED BY <2>3, <3>1, <3>2, <3>3 DEF x
  <2>5. CASE n <= t
    <3> DEFINE u == t - n
               y == u * (3 * E)
    <3>1. u \in Below(Len(more)) /\ ~(t + 1 <= n) /\ (t + 1) - n = u + 1 /\ u \in Int
      BY <1>0, <2>0, <2>5 DEF Below
    <3>2. both[t + 1] = more[u + 1]
      <4> HIDE DEF u
      <4> QED BY <1>2, <2>0, <3>1
    <3>3. component + c \in Below(3 * E)
      BY <1>0, <2>0 DEF Below, Start
    <3>4. y + component + c = y + (component + c)
      <4>1. y \in Int
        BY <1>0, <3>1
      <4> HIDE DEF y
      <4> QED BY <1>0, <2>0, <4>1
    <3>5. p.data[y + (component + c)] = more[u + 1][component + c + 1]
      <4> HIDE DEF u
      <4> QED BY <1>1, <3>1, <3>3
    <3>6. data[x] = p.data[y + component + c]
      BY <2>3, <3>1
    <3> QED BY <3>2, <3>4, <3>5, <3>6, Zenon DEF x
  <2> QED BY <1>0, <2>0, <2>4, <2>5
<1>7. DOMAIN data = Below(Capacity * E)
  BY <1>3
<1> HIDE DEF data, after
<1>8. /\ after.rows = Capacity /\ after.columns = E /\ after.data = data
      /\ after = [rows |-> after.rows, columns |-> after.columns, data |-> after.data]
  BY <1>5
<1>9. Cached(after, both, component)
  BY <1>6, <1>7, <1>8 DEF Cached
<1> QED BY <1>9 DEF after, p, both

\* Storing a head's output keeps the earlier heads.
LEMMA MergedStore ==
  ASSUME NEW merged, NEW text, NEW offset, Len(text) - offset \in Nat,
         NEW head \in Below(HeadCount), NEW o, Merged(merged, text, offset, head),
         \A t \in Below(Len(text) - offset), d \in Below(HeadSize) :
           o.data[t * HeadSize + d] = Expected(text, head, offset + t + 1, d)
  PROVE  Merged(StoreHead(merged, o, head), text, offset, head + 1)
<1> DEFINE r == Len(text) - offset
           E == EmbeddingSize
           place(h, d) == h * HeadSize + d
           want(t, h, d) == Expected(text, h, offset + t + 1, d)
           data == [x \in DOMAIN merged.data |->
                      LET d == (x % E) - head * HeadSize
                      IN IF d \in Below(HeadSize) THEN o.data[(x \div E) * HeadSize + d]
                         ELSE merged.data[x]]
           after == StoreHead(merged, o, head)
<1>0. E \in Nat /\ HeadSize \in Nat \ {0} /\ HeadCount \in Nat /\ head \in Nat /\ head < HeadCount
  BY Sizes DEF Below
<1>1. /\ merged.rows = r /\ merged.columns = E /\ DOMAIN merged.data = Below(r * E)
      /\ merged = [rows |-> merged.rows, columns |-> merged.columns, data |-> merged.data]
  BY DEF Merged
<1>2. \A t \in Below(r), h \in Below(head), d \in Below(HeadSize) :
        merged.data[t * E + h * HeadSize + d] = want(t, h, d)
  BY DEF Merged
<1>3. \A t \in Below(r), d \in Below(HeadSize) : o.data[t * HeadSize + d] = want(t, head, d)
  OBVIOUS
<1>r. r \in Nat
  OBVIOUS
<1> HIDE DEF want, r
<1>4. after = [merged EXCEPT !.data = data]
  BY <1>1 DEF StoreHead
<1>5. after = [rows |-> r, columns |-> E, data |-> data]
  <2> HIDE DEF after, data
  <2>1. after = [[rows |-> r, columns |-> E, data |-> merged.data] EXCEPT !.data = data]
    BY <1>1, <1>4
  <2> QED BY <2>1
<1>6. ASSUME NEW t \in Below(r), NEW h \in Below(head + 1), NEW d \in Below(HeadSize)
      PROVE  data[t * E + h * HeadSize + d] = want(t, h, d)
  <2> DEFINE x == t * E + place(h, d)
             m == h * HeadSize
             k == head * HeadSize
  <2>0. h \in Nat /\ h <= head /\ h \in Below(HeadCount) /\ d \in Nat /\ d < HeadSize /\ t \in Nat
    BY <1>0 DEF Below
  <2>1. place(h, d) \in Below(E)
    BY <2>0, HeadPlace
  <2>2. x \in Below(r * E) /\ x \div E = t /\ x % E = place(h, d)
    <3> DEFINE c == place(h, d)
    <3>1. c \in Below(E)
      BY <2>1
    <3> HIDE DEF c, place, E
    <3>2. /\ t * E + c \in Below(r * E)
          /\ (t * E + c) \div E = t /\ (t * E + c) % E = c
      BY <1>0, <1>r, <3>1, FlatIndex
    <3> QED BY <3>2 DEF c
  <2>3. m \in Int /\ k \in Int /\ t * E \in Int
    BY <1>0, <2>0
  <2>4. t * E + h * HeadSize + d = x
    <3> DEFINE y == t * E
    <3>1. y + m + d = y + (m + d)
      <4> HIDE DEF y, m
      <4> QED BY <2>0, <2>3 DEF y, m
    <3> QED BY <3>1
  <2>5. data[x] = IF place(h, d) - k \in Below(HeadSize)
                  THEN o.data[t * HeadSize + (place(h, d) - k)] ELSE merged.data[x]
    <3> HIDE DEF place, x
    <3> QED BY <1>1, <2>2
  <2>6. CASE h = head
    <3>1. place(h, d) - k = d
      <4>1. m = k
        BY <2>6
      <4>2. place(h, d) = m + d
        OBVIOUS
      <4> HIDE DEF m, k, place
      <4> QED BY <2>0, <2>3, <4>1, <4>2
    <3> HIDE DEF data, x, place
    <3>2. data[x] = o.data[t * HeadSize + d]
      BY <2>5, <3>1
    <3> QED BY <1>3, <2>4, <2>6, <3>2
  <2>7. CASE h < head
    <3>1. place(h, d) - k \notin Below(HeadSize)
      <4>1. (h + 1) * HeadSize <= head * HeadSize /\ (h + 1) * HeadSize = m + HeadSize
        BY <1>0, <2>0, <2>7, FactorsAreOrdered
      <4>2. m + HeadSize <= k
        BY <4>1
      <4>3. place(h, d) = m + d
        OBVIOUS
      <4> HIDE DEF m, k, place
      <4> QED BY <1>0, <2>0, <2>3, <4>2, <4>3 DEF Below
    <3>2. h \in Below(head)
      BY <1>0, <2>0, <2>7 DEF Below
    <3>3. merged.data[t * E + h * HeadSize + d] = want(t, h, d)
      BY <1>2, <3>2
    <3> HIDE DEF data, x, place
    <3> QED BY <2>4, <2>5, <3>1, <3>3
  <2> QED BY <1>0, <2>0, <2>6, <2>7
<1>7. DOMAIN data = Below(r * E)
  BY <1>1
<1> HIDE DEF data, after
<1>8. /\ after.rows = r /\ after.columns = E /\ after.data = data
      /\ after = [rows |-> after.rows, columns |-> after.columns, data |-> after.data]
  BY <1>5
<1>9. \A t \in Below(r), h \in Below(head + 1), d \in Below(HeadSize) :
        after.data[t * E + h * HeadSize + d] = want(t, h, d)
  BY <1>6, <1>8
<1>a. Merged(after, text, offset, head + 1)
  BY <1>7, <1>8, <1>9 DEF Merged, want, r
<1> QED BY <1>a DEF after

LEMMA ScoresAreNumbers ==
  ASSUME NEW a, NEW b, \A d \in Below(HeadSize) : a[d] \in Number /\ b[d] \in Number
  PROVE  DotProduct(a, b) \in Number
<1> DEFINE f == [d \in Below(HeadSize) |-> Times(a[d], b[d])]
<1>1. \A d \in Below(HeadSize) : f[d] \in Number
  BY TimesFacts
<1>2. DotProduct(a, b) = RunningSum(HeadSize, f)
  BY DEF DotProduct
<1> HIDE DEF f
<1> QED BY <1>1, <1>2, Sizes, SumIsNumber

LEMMA SliceElement ==
  ASSUME NEW text \in Seq(Rows), NEW component \in Start, NEW head \in Below(HeadCount),
         NEW t \in Below(Len(text)), NEW d \in Below(HeadSize)
  PROVE  /\ Slice(text, component, head)[t][d] \in Number
         /\ Slice(text, component, head)[t][d] = text[t + 1][component + head * HeadSize + d + 1]
<1>1. Slice(text, component, head)[t][d] = text[t + 1][component + head * HeadSize + d + 1]
  BY DEF Slice
<1> DEFINE c == component + (head * HeadSize + d)
<1>2. c \in Below(3 * EmbeddingSize) /\ component + head * HeadSize + d = c
  BY ComponentPlace
<1>3. text[t + 1] \in Rows
  BY TextRows
<1>4. text[t + 1][c + 1] \in Number
  <2> HIDE DEF c
  <2> QED BY <1>2, <1>3, RowElement
<1> QED BY <1>1, <1>2, <1>4

\* The output of one head, for the last rows of a text.
IsEnd(part, whole, offset) ==
  /\ Len(whole) = offset + Len(part)
  /\ \A t \in Below(Len(part)) : whole[offset + t + 1] = part[t + 1]

HeadScores(part, whole, offset, head) ==
  Masked(Matmul(Tensor(Len(part), HeadSize, Slice(part, 0, head)),
                Transpose(Tensor(Len(whole), HeadSize, Slice(whole, EmbeddingSize, head)))),
         offset)

HeadOutput(part, whole, offset, head) ==
  Weighed(Exponentials(HeadScores(part, whole, offset, head)),
          Tensor(Len(whole), HeadSize, Slice(whole, 2 * EmbeddingSize, head)))

LEMMA HeadIsReference ==
  ASSUME NEW whole \in Seq(Rows), NEW part \in Seq(Rows), NEW offset \in Nat,
         IsEnd(part, whole, offset), NEW head \in Below(HeadCount)
  PROVE  \A t \in Below(Len(part)), d \in Below(HeadSize) :
           HeadOutput(part, whole, offset, head).data[t * HeadSize + d]
             = Expected(whole, head, offset + t + 1, d)
<1> DEFINE s == HeadScores(part, whole, offset, head)
<1>e. /\ Len(whole) = offset + Len(part)
      /\ \A t \in Below(Len(part)) : whole[offset + t + 1] = part[t + 1]
  BY DEF IsEnd
<1>s. s = Masked(Matmul(Tensor(Len(part), HeadSize, Slice(part, 0, head)),
                Transpose(Tensor(Len(whole), HeadSize, Slice(whole, EmbeddingSize, head)))),
         offset)
  BY DEF HeadScores
<1> HIDE DEF s
<1> DEFINE r == Len(part)
           n == Len(whole)
           qe == Slice(part, 0, head)
           ke == Slice(whole, EmbeddingSize, head)
           ve == Slice(whole, 2 * EmbeddingSize, head)
           o == Weighed(Exponentials(s), Tensor(n, HeadSize, ve))
<1>0. r \in Nat /\ n \in Nat /\ {0, EmbeddingSize, 2 * EmbeddingSize} \subseteq Start
  BY TextRows DEF Start
<1>1. /\ s.rows = r /\ s.columns = n
      /\ \A i \in Below(r), j \in Below(n) :
           s.data[i * n + j] = IF j > offset + i THEN NegInf ELSE DotProduct(qe[i], ke[j])
  <2> HIDE DEF r, n, qe, ke
  <2> QED BY <1>0, <1>s, ScoresAre DEF r, n, qe, ke
<1>2. \A i \in Below(r), d \in Below(HeadSize) :
        o.data[i * HeadSize + d] = Attended(n, Row(s, i), Column(n, ve, d))
  <2> HIDE DEF r, n, ve
  <2> QED BY <1>0, <1>1, HeadIs
<1>3. ASSUME NEW t \in Below(r), NEW d \in Below(HeadSize)
      PROVE  Attended(n, Row(s, t), Column(n, ve, d)) = Expected(whole, head, offset + t + 1, d)
  <2> DEFINE m == offset + t + 1
             score == Row(s, t)
             value == Column(n, ve, d)
  <2>0. m \in Nat \ {0} /\ m \in 1..n /\ t \in Nat /\ offset + t \in Nat
    BY <1>0, <1>e DEF Below
  <2>1. /\ \A j \in Below(m) : j \in Below(n) /\ ~(j > offset + t) /\ j \in Nat
        /\ \A j \in m..(n - 1) : j \in Below(n) /\ j > offset + t
        /\ \A j \in Below(n) : j + 1 \in 1..n
    BY <1>0, <2>0 DEF Below
  <2>2. \A j \in Below(n) : score[j] = IF j > offset + t THEN NegInf ELSE DotProduct(qe[t], ke[j])
    BY <1>1 DEF Row
  <2>3. \A j \in Below(n) : value[j] = ve[j][d]
    BY DEF Column
  <2>4. \A j \in Below(n) : value[j] \in Number /\ value[j] = ValueOf(whole[j + 1], head, d)
    <3> SUFFICES ASSUME NEW j \in Below(n)
                 PROVE  value[j] \in Number /\ value[j] = ValueOf(whole[j + 1], head, d)
      OBVIOUS
    <3>1. ve[j][d] \in Number
      BY <1>0, SliceElement
    <3>2. ve[j][d] = whole[j + 1][2 * EmbeddingSize + head * HeadSize + d + 1]
      BY <1>0, SliceElement
    <3>3. value[j] = ve[j][d]
      BY <2>3
    <3> HIDE DEF value, ve
    <3> QED BY <3>1, <3>2, <3>3 DEF ValueOf
  <2>5. \A j \in Below(n) : DotProduct(qe[t], ke[j]) \in Number
    <3> SUFFICES ASSUME NEW j \in Below(n) PROVE DotProduct(qe[t], ke[j]) \in Number
      OBVIOUS
    <3>1. \A x \in Below(HeadSize) : qe[t][x] \in Number
      BY <1>0, SliceElement
    <3>2. \A x \in Below(HeadSize) : ke[j][x] \in Number
      BY <1>0, SliceElement
    <3> HIDE DEF qe, ke
    <3> QED BY <3>1, <3>2, ScoresAreNumbers
  <2>6. \A j \in Below(m) : DotProduct(qe[t], ke[j]) = ReferenceScore(whole, head, m, j + 1)
    <3> SUFFICES ASSUME NEW j \in Below(m)
                 PROVE  DotProduct(qe[t], ke[j]) = ReferenceScore(whole, head, m, j + 1)
      OBVIOUS
    <3> DEFINE f == [x \in Below(HeadSize) |-> Times(qe[t][x], ke[j][x])]
               g == [x \in Below(HeadSize) |-> Times(QueryOf(whole[m], head, x),
                                                     KeyOf(whole[j + 1], head, x))]
    <3>1. j \in Below(n) /\ whole[m] = part[t + 1]
      BY <1>e, <2>1
    <3>2. ASSUME NEW x \in Below(HeadSize)
          PROVE  qe[t][x] = QueryOf(whole[m], head, x) /\ ke[j][x] = KeyOf(whole[j + 1], head, x)
      <4>1. qe[t][x] = part[t + 1][0 + head * HeadSize + x + 1]
        BY <1>0, SliceElement
      <4>2. 0 + head * HeadSize + x + 1 = head * HeadSize + x + 1
        <5> DEFINE y == head * HeadSize
        <5>1. y \in Int /\ x \in Int
          BY Sizes DEF Below
        <5> HIDE DEF y
        <5>2. 0 + y + x + 1 = y + x + 1
          BY <5>1
        <5> QED BY <5>2 DEF y
      <4>3. ke[j][x] = whole[j + 1][EmbeddingSize + head * HeadSize + x + 1]
        BY <1>0, <3>1, SliceElement
      <4> HIDE DEF m, qe, ke
      <4> QED BY <3>1, <4>1, <4>2, <4>3 DEF QueryOf, KeyOf
    <3>3. \A x \in Below(HeadSize) : f[x] = g[x]
      <4> HIDE DEF m, qe, ke
      <4> QED BY <3>2
    <3>4. /\ DotProduct(qe[t], ke[j]) = RunningSum(HeadSize, f)
          /\ ReferenceScore(whole, head, m, j + 1) = RunningSum(HeadSize, g)
      BY DEF DotProduct, ReferenceScore
    <3> HIDE DEF f, g
    <3>5. RunningSum(HeadSize, f) = RunningSum(HeadSize, g)
      BY <3>3, Sizes, SumCongruence
    <3> QED BY <3>4, <3>5
  <2> HIDE DEF score, value, qe, ke, ve, r, n, m
  <2>7. \A j \in Below(n) : score[j] \in Number /\ value[j] \in Number
    BY <2>2, <2>4, <2>5 DEF Number
  <2>8. \A j \in m..(n - 1) : score[j] = NegInf
    BY <2>1, <2>2
  <2>9. \A j \in Below(m) : /\ score[j] = ReferenceScore(whole, head, m, j + 1)
                            /\ value[j] = ValueOf(whole[j + 1], head, d)
    BY <2>1, <2>2, <2>4, <2>6
  <2>a. Attended(n, score, value) = IF \A j \in m..(n - 1) : value[j] \in Int
                                    THEN ReferenceOf(m, score, value) ELSE NaN
    BY <1>0, <2>0, <2>7, <2>8, SoftmaxIsReference
  <2>b. ReferenceOf(m, score, value) = Reference(whole, head, m, d)
    BY <2>0, <2>9, ReferenceIs
  <2>c. (\A j \in m..(n - 1) : value[j] \in Int)
          <=> \A j \in (m + 1)..n : ValueOf(whole[j], head, d) \in Int
    <3>1. ASSUME \A j \in m..(n - 1) : value[j] \in Int, NEW j \in (m + 1)..n
          PROVE  ValueOf(whole[j], head, d) \in Int
      <4>1. j - 1 \in m..(n - 1) /\ (j - 1) + 1 = j
        BY <1>0, <2>0
      <4>2. value[j - 1] = ValueOf(whole[j], head, d)
        BY <2>1, <2>4, <4>1
      <4> QED BY <3>1, <4>1, <4>2
    <3>2. ASSUME \A j \in (m + 1)..n : ValueOf(whole[j], head, d) \in Int, NEW j \in m..(n - 1)
          PROVE  value[j] \in Int
      <4>1. j + 1 \in (m + 1)..n
        BY <1>0, <2>0
      <4> QED BY <2>1, <2>4, <3>2, <4>1
    <3> QED BY <3>1, <3>2
  <2>d. Attended(n, score, value) = Expected(whole, head, m, d)
    BY <2>a, <2>b, <2>c DEF Expected, n
  <2> QED BY <2>d DEF score, value, m
<1>4. o = HeadOutput(part, whole, offset, head)
  BY DEF HeadOutput, s
<1> HIDE DEF o, n, ve
<1> QED BY <1>2, <1>3, <1>4

-----------------------------------------------------------------------------
(* The steps *)

LEMMA TextsAreTexts ==
  ASSUME NEW text \in Texts
  PROVE  text \in Seq(Rows) /\ text # <<>> /\ Len(text) \in 1..Capacity
<1>1. PICK n \in 1..Capacity : text \in [1..n -> Rows]
  BY DEF Texts
<1>2. n \in Nat
  BY Sizes
<1>3. text \in Seq(Rows)
  BY <1>1, <1>2, SeqDef
<1>4. Len(text) = n
  <2>1. DOMAIN text = 1..n /\ DOMAIN text = 1..Len(text) /\ Len(text) \in Nat
    BY <1>1, <1>3, LenProperties
  <2> QED BY <1>2, <2>1
<1>5. text # <<>>
  <2>1. Len(<<>>) = 0
    OBVIOUS
  <2> QED BY <1>4, <2>1, Sizes
<1> QED BY <1>3, <1>4, <1>5, Sizes

LEMMA ZerosShape ==
  ASSUME NEW r \in Nat, NEW w \in Nat
  PROVE  /\ Zeros(r, w).rows = r /\ Zeros(r, w).columns = w
         /\ DOMAIN Zeros(r, w).data = Below(r * w)
         /\ Zeros(r, w) = [rows |-> Zeros(r, w).rows, columns |-> Zeros(r, w).columns,
                           data |-> Zeros(r, w).data]
<1> DEFINE e == [i \in Below(r) |-> [c \in Below(w) |-> 0]]
<1> HIDE DEF e
<1>1. Zeros(r, w) = Tensor(r, w, e)
  BY DEF Zeros, e
<1> QED BY <1>1 DEF Tensor

LEMMA NoRows == Len(<<>>) = 0 /\ Below(0) = {} /\ <<>> \in Seq(Rows)
<1>1. <<>> \in Seq(Rows) /\ Len(<<>>) = 0
  OBVIOUS
<1> QED BY <1>1 DEF Below

\* Of no text, a cache needs its shape only.
LEMMA CachedNothing ==
  ASSUME NEW cached, NEW component,
         cached.rows = Capacity, cached.columns = EmbeddingSize,
         DOMAIN cached.data = Below(Capacity * EmbeddingSize),
         cached = [rows |-> cached.rows, columns |-> cached.columns, data |-> cached.data]
  PROVE  Cached(cached, <<>>, component)
BY NoRows DEF Cached

LEMMA MergedNothing ==
  ASSUME NEW text \in Seq(Rows), NEW offset \in 0..Len(text)
  PROVE  Merged(Zeros(Len(text) - offset, EmbeddingSize), text, offset, 0)
<1> DEFINE r == Len(text) - offset
<1>1. r \in Nat /\ EmbeddingSize \in Nat
  BY Sizes, TextRows
<1> HIDE DEF r
<1>2. \A h \in Below(0) : FALSE
  BY NoRows
<1>3. Merged(Zeros(r, EmbeddingSize), text, offset, 0)
  BY <1>1, <1>2, ZerosShape DEF Merged, r
<1> QED BY <1>3 DEF r

\* Of no call, no component is owed.
LEMMA NoOutputIsMerged ==
  /\ NoOutput.text \in Seq(Rows) /\ NoOutput.offset \in 0..Len(NoOutput.text)
  /\ Merged(NoOutput.merged, NoOutput.text, NoOutput.offset, HeadCount)
<1>1. /\ NoOutput.offset = 0 /\ NoOutput.text = <<>>
      /\ NoOutput.merged = Zeros(0, EmbeddingSize)
  BY DEF NoOutput
<1>2. Len(<<>>) = 0 /\ Len(<<>>) - 0 = 0
  BY NoRows
<1>3. Merged(Zeros(0, EmbeddingSize), <<>>, 0, HeadCount)
  <2> DEFINE z == Zeros(0, EmbeddingSize)
  <2>1. /\ z.rows = 0 /\ z.columns = EmbeddingSize /\ DOMAIN z.data = Below(0 * EmbeddingSize)
        /\ z = [rows |-> z.rows, columns |-> z.columns, data |-> z.data]
    BY ZerosShape, Sizes, 0 \in Nat
  <2>2. \A t \in Below(0) : FALSE
    BY NoRows
  <2> HIDE DEF z
  <2>3. Merged(z, <<>>, 0, HeadCount)
    BY <1>2, <2>1, <2>2 DEF Merged
  <2> QED BY <2>3 DEF z
<1> QED BY <1>1, <1>2, <1>3, NoRows

LEMMA InitIsInvariant == Init => AttentionInvariant
<1> SUFFICES ASSUME Init PROVE AttentionInvariant
  OBVIOUS
<1> USE DEF Init
<1>1. NoCall
  BY DEF NoCall, NoPass
<1>2. Known = <<>>
  BY <1>1 DEF Known
<1> DEFINE z == Zeros(Capacity, EmbeddingSize)
<1>3. Cached(keys, <<>>, EmbeddingSize) /\ Cached(values, <<>>, 2 * EmbeddingSize)
  <2>1. /\ z.rows = Capacity /\ z.columns = EmbeddingSize
        /\ DOMAIN z.data = Below(Capacity * EmbeddingSize)
        /\ z = [rows |-> z.rows, columns |-> z.columns, data |-> z.data]
    BY ZerosShape, Sizes
  <2>2. keys = z /\ values = z
    OBVIOUS
  <2> HIDE DEF z, Init
  <2>3. \A component : Cached(z, <<>>, component)
    BY <2>1, CachedNothing
  <2> QED BY <2>2, <2>3
<1> HIDE DEF z
<1>4. CacheInvariant
  BY <1>2, <1>3, NoRows, Sizes DEF CacheInvariant
<1>5. OutputInvariant
  BY NoOutputIsMerged DEF OutputInvariant
<1>6. PassInvariant
  BY DEF PassInvariant
<1> QED BY <1>4, <1>5, <1>6 DEF AttentionInvariant

\* The whole text of a call.
LEMMA CallFacts ==
  ASSUME CacheInvariant, CallInvariant
  PROVE  /\ ~NoCall /\ Known = Whole /\ Whole \in Seq(Rows) /\ fed \in Seq(Rows)
         /\ pass.text \in Seq(Rows) /\ Len(fed) \in Nat /\ Len(pass.text) \in Nat
         /\ Len(Whole) = Len(fed) + Len(pass.text) /\ Total = Len(Whole)
         /\ \A t \in Below(Len(pass.text)) : Whole[Len(fed) + t + 1] = pass.text[t + 1]
         /\ SubSeq(fed, 1, Len(fed)) = fed
         /\ ~with_cache => Whole = pass.text
<1>1. ~NoCall
  BY DEF CallInvariant, NoCall
<1>2. fed \in Seq(Rows) /\ pass.text \in Seq(Rows) /\ pass.query_offset = Len(fed)
  BY DEF CacheInvariant, CallInvariant
<1>3. Len(fed) \in Nat /\ Len(pass.text) \in Nat
  BY <1>2, TextRows
<1>4. /\ Whole \in Seq(Rows) /\ Len(Whole) = Len(fed) + Len(pass.text)
      /\ \A k \in 1..(Len(fed) + Len(pass.text)) :
           Whole[k] = IF k <= Len(fed) THEN fed[k] ELSE pass.text[k - Len(fed)]
  BY <1>2, ConcatProperties DEF Whole
<1>5. ASSUME NEW t \in Below(Len(pass.text)) PROVE Whole[Len(fed) + t + 1] = pass.text[t + 1]
  <2>1. /\ Len(fed) + t + 1 \in 1..(Len(fed) + Len(pass.text)) /\ ~(Len(fed) + t + 1 <= Len(fed))
        /\ (Len(fed) + t + 1) - Len(fed) = t + 1
    BY <1>3 DEF Below
  <2> QED BY <1>4, <2>1
<1>6. SubSeq(fed, 1, Len(fed)) = fed
  <2> DEFINE u == SubSeq(fed, 1, Len(fed))
             n == Len(fed)
  <2>1. n \in Nat /\ 1 \in Int /\ n \in Int /\ 1 \in 1..(n + 1) /\ n \in 0..n
    BY <1>3
  <2>2. /\ u \in Seq(Rows) /\ Len(u) = n - 1 + 1
        /\ \A i \in 1..(n - 1 + 1) : u[i] = fed[1 + i - 1]
    BY <1>2, <2>1, SubSeqProperties
  <2>3. n - 1 + 1 = n /\ \A i \in 1..n : 1 + i - 1 = i
    BY <2>1
  <2>4. Len(u) = Len(fed) /\ \A i \in 1..Len(fed) : u[i] = fed[i]
    <3> HIDE DEF u
    <3> QED BY <2>2, <2>3
  <2> HIDE DEF u
  <2>5. u = fed
    BY <1>2, <2>2, <2>4, SeqEqual
  <2> QED BY <2>5 DEF u
<1>7. ~with_cache => Whole = pass.text
  <2>1. <<>> \o pass.text = pass.text
    BY <1>2, ConcatEmptySeq
  <2> QED BY <2>1 DEF CacheInvariant, Whole
<1> QED BY <1>1, <1>2, <1>3, <1>4, <1>5, <1>6, <1>7 DEF Known, Total

\* The keys and the values of a head are those of the whole text, cached or not.
LEMMA HeadTensors ==
  ASSUME CacheInvariant, CallInvariant, pass.head # HeadCount
  PROVE  /\ pass.head \in Below(HeadCount)
         /\ HeadKeys = Tensor(Len(Whole), HeadSize, Slice(Whole, EmbeddingSize, pass.head))
         /\ HeadValues = Tensor(Len(Whole), HeadSize, Slice(Whole, 2 * EmbeddingSize, pass.head))
         /\ ExtractHead(Projected(pass.text), 0, pass.head)
              = Tensor(Len(pass.text), HeadSize, Slice(pass.text, 0, pass.head))
<1>1. pass.head \in Below(HeadCount)
  BY Sizes DEF CallInvariant, Below
<1>2. {0, EmbeddingSize, 2 * EmbeddingSize} \subseteq Start
  BY DEF Start
<1>3. ExtractHead(Projected(pass.text), 0, pass.head)
        = Tensor(Len(pass.text), HeadSize, Slice(pass.text, 0, pass.head))
  BY <1>1, <1>2, CallFacts, HeadOfProjection
<1>4. CASE with_cache
  <2>1. Cached(keys, Whole, EmbeddingSize) /\ Cached(values, Whole, 2 * EmbeddingSize)
    BY <1>4, CallFacts DEF CacheInvariant
  <2>2. /\ HeadKeys = ExtractCachedHead(keys, pass.head, Len(Whole))
        /\ HeadValues = ExtractCachedHead(values, pass.head, Len(Whole))
    BY <1>4, CallFacts DEF HeadKeys, HeadValues
  <2>3. /\ ExtractCachedHead(keys, pass.head, Len(Whole))
             = Tensor(Len(Whole), HeadSize, Slice(Whole, EmbeddingSize, pass.head))
        /\ ExtractCachedHead(values, pass.head, Len(Whole))
             = Tensor(Len(Whole), HeadSize, Slice(Whole, 2 * EmbeddingSize, pass.head))
    BY <1>1, <1>2, <2>1, CallFacts, HeadOfCache
  <2> QED BY <1>1, <1>3, <2>2, <2>3
<1>5. CASE ~with_cache
  <2>1. /\ HeadKeys = ExtractHead(Projected(Whole), EmbeddingSize, pass.head)
        /\ HeadValues = ExtractHead(Projected(Whole), 2 * EmbeddingSize, pass.head)
    BY <1>5, CallFacts DEF HeadKeys, HeadValues
  <2>2. /\ ExtractHead(Projected(Whole), EmbeddingSize, pass.head)
             = Tensor(Len(Whole), HeadSize, Slice(Whole, EmbeddingSize, pass.head))
        /\ ExtractHead(Projected(Whole), 2 * EmbeddingSize, pass.head)
             = Tensor(Len(Whole), HeadSize, Slice(Whole, 2 * EmbeddingSize, pass.head))
    BY <1>1, <1>2, CallFacts, HeadOfProjection
  <2> QED BY <1>1, <1>3, <2>1, <2>2
<1> QED BY <1>4, <1>5

LEMMA NoCallUnlessCalled ==
  /\ pass = NoPass => NoCall
  /\ AttentionInvariant => (pass # NoPass => CallInvariant)
BY DEF NoCall, NoPass, AttentionInvariant, PassInvariant

\* The parts of the invariant that an action leaves alone.
LEMMA OutputKept ==
  ASSUME OutputInvariant, output' = output PROVE OutputInvariant'
BY DEF OutputInvariant

LEMMA OutputReset ==
  ASSUME output' = NoOutput PROVE OutputInvariant'
BY NoOutputIsMerged DEF OutputInvariant

\* The start of a call.
LEMMA StartedCall ==
  ASSUME NEW text \in Seq(Rows), text # <<>>, fed \in Seq(Rows), fed' = fed,
         pass' = Started(text, Len(fed))
  PROVE  CallInvariant' /\ Known' = fed \o text
<1>1. /\ pass'.stage = "scores" /\ pass'.text = text /\ pass'.query_offset = Len(fed)
      /\ pass'.head = 0 /\ pass'.merged = Zeros(Len(text), EmbeddingSize)
      /\ pass' = [stage |-> pass'.stage, text |-> pass'.text,
                  query_offset |-> pass'.query_offset, head |-> pass'.head,
                  scores |-> pass'.scores, merged |-> pass'.merged]
  BY DEF Started
<1>2. Whole' = fed \o text
  BY <1>1 DEF Whole
<1>3. Known' = fed \o text
  BY <1>1, <1>2 DEF Known, NoCall
<1> DEFINE both == fed \o text
<1>4. both \in Seq(Rows) /\ Len(both) = Len(fed) + Len(text)
  BY ConcatProperties
<1>5. Len(fed) \in 0..Len(both) /\ Len(both) - Len(fed) = Len(text)
  BY <1>4, TextRows
<1> HIDE DEF both
<1>6. Merged(Zeros(Len(text), EmbeddingSize), both, Len(fed), 0)
  BY <1>4, <1>5, MergedNothing
<1>7. Merged(pass'.merged, Whole', Len(fed'), pass'.head)
  BY <1>1, <1>2, <1>6 DEF both
<1>8. 0 \in 0..HeadCount /\ 0 # HeadCount
  BY Sizes
<1> QED BY <1>1, <1>3, <1>7, <1>8 DEF CallInvariant

LEMMA BeginUncachedKeeps ==
  ASSUME AttentionInvariant, NEW text \in Texts, BeginUncached(text)
  PROVE  AttentionInvariant'
<1>1. text \in Seq(Rows) /\ text # <<>>
  BY TextsAreTexts
<1>2. fed \in Seq(Rows) /\ fed' = fed /\ fed = <<>> /\ Len(fed) = 0
  BY NoRows DEF AttentionInvariant, CacheInvariant, BeginUncached
<1>3. pass' = Started(text, Len(fed))
  BY <1>2 DEF BeginUncached
<1>4. CallInvariant'
  BY <1>1, <1>2, <1>3, StartedCall
<1>5. CacheInvariant'
  BY DEF AttentionInvariant, CacheInvariant, BeginUncached
<1>6. OutputInvariant'
  BY OutputReset DEF BeginUncached
<1> QED BY <1>4, <1>5, <1>6 DEF AttentionInvariant, PassInvariant

LEMMA BeginCachedKeeps ==
  ASSUME AttentionInvariant, NEW text \in Texts, BeginCached(text)
  PROVE  AttentionInvariant'
<1>1. text \in Seq(Rows) /\ text # <<>> /\ Len(text) \in Nat
  BY TextsAreTexts, TextRows
<1>2. /\ fed \in Seq(Rows) /\ fed' = fed /\ length = Len(fed) /\ Len(fed) \in Nat
      /\ length' = length /\ with_cache /\ with_cache' = with_cache
  BY TextRows DEF AttentionInvariant, CacheInvariant, BeginCached
<1>3. pass' = Started(text, Len(fed))
  BY <1>2 DEF BeginCached
<1>4. CallInvariant' /\ Known' = fed \o text
  BY <1>1, <1>2, <1>3, StartedCall
<1>5. Cached(keys, fed, EmbeddingSize) /\ Cached(values, fed, 2 * EmbeddingSize)
  BY <1>2, NoCallUnlessCalled DEF AttentionInvariant, CacheInvariant, BeginCached, Known
<1>6. Len(fed) + Len(text) <= Capacity
  BY <1>1, <1>2, Sizes DEF BeginCached
<1>7. /\ keys' = AppendToCache(keys, Projected(text), EmbeddingSize, Len(fed))
      /\ values' = AppendToCache(values, Projected(text), 2 * EmbeddingSize, Len(fed))
  BY <1>2 DEF BeginCached
<1>8. EmbeddingSize \in Start /\ 2 * EmbeddingSize \in Start
  BY DEF Start
<1>9. /\ Cached(keys', fed \o text, EmbeddingSize)
      /\ Cached(values', fed \o text, 2 * EmbeddingSize)
  BY <1>1, <1>2, <1>5, <1>6, <1>7, <1>8, CachedAppend
<1>a. Len(fed \o text) <= Capacity
  BY <1>1, <1>2, <1>6, ConcatProperties
<1>b. CacheInvariant'
  BY <1>2, <1>4, <1>9, <1>a DEF CacheInvariant
<1>c. OutputInvariant'
  BY OutputReset DEF BeginCached
<1> QED BY <1>4, <1>b, <1>c DEF AttentionInvariant, PassInvariant

LEMMA RefuseKeeps ==
  ASSUME AttentionInvariant, NEW text \in Texts, Refuse(text)
  PROVE  AttentionInvariant'
<1>1. OutputInvariant'
  BY OutputReset DEF Refuse
<1>2. PassInvariant'
  BY DEF Refuse, PassInvariant
<1>3. CacheInvariant'
  BY DEF AttentionInvariant, CacheInvariant, Refuse, Known, NoCall, Whole
<1> QED BY <1>1, <1>2, <1>3 DEF AttentionInvariant

\* What the steps of a head leave alone.
LEMMA CacheKept ==
  ASSUME CacheInvariant, UNCHANGED <<with_cache, keys, values, length, fed>>,
         pass.stage # "none", pass'.stage # "none", pass'.text = pass.text
  PROVE  CacheInvariant' /\ Whole' = Whole
<1>1. Whole' = Whole
  BY DEF Whole
<1>2. Known' = Known
  BY <1>1 DEF Known, NoCall
<1> QED BY <1>1, <1>2 DEF CacheInvariant

LEMMA ScoreKeeps ==
  ASSUME AttentionInvariant, Score
  PROVE  AttentionInvariant'
<1>1. CacheInvariant /\ CallInvariant /\ OutputInvariant /\ pass.stage = "scores"
  BY DEF AttentionInvariant, PassInvariant, Score, NoPass
<1>2. pass' = [pass EXCEPT !.stage = "softmax", !.scores = ScoresNow]
  BY DEF Score, ScoresNow
<1>3. pass = [stage |-> pass.stage, text |-> pass.text, query_offset |-> pass.query_offset,
              head |-> pass.head, scores |-> pass.scores, merged |-> pass.merged]
  BY <1>1 DEF CallInvariant
<1>4. pass' = [stage |-> "softmax", text |-> pass.text, query_offset |-> pass.query_offset,
               head |-> pass.head, scores |-> ScoresNow, merged |-> pass.merged]
  BY <1>2, <1>3
<1>5. /\ pass'.stage = "softmax" /\ pass'.text = pass.text
      /\ pass'.query_offset = pass.query_offset /\ pass'.head = pass.head
      /\ pass'.scores = ScoresNow /\ pass'.merged = pass.merged
  BY <1>4
<1>6. UNCHANGED <<with_cache, keys, values, length, output, fed>>
  BY DEF Score
<1>7. CacheInvariant' /\ Whole' = Whole
  BY <1>1, <1>5, <1>6, CacheKept
<1>8. ScoresNow' = ScoresNow
  BY <1>5, <1>6 DEF ScoresNow, HeadKeys, Total
<1>9. CallInvariant'
  BY <1>1, <1>4, <1>5, <1>6, <1>7, <1>8 DEF CallInvariant
<1>a. OutputInvariant'
  BY <1>1, <1>6, OutputKept
<1> QED BY <1>7, <1>9, <1>a DEF AttentionInvariant, PassInvariant

LEMMA SoftmaxKeeps ==
  ASSUME AttentionInvariant, Softmax
  PROVE  AttentionInvariant'
<1>1. CacheInvariant /\ CallInvariant /\ OutputInvariant /\ pass.stage = "softmax"
  BY DEF AttentionInvariant, PassInvariant, Softmax, NoPass
<1>2. pass' = [pass EXCEPT !.stage = "values", !.scores = Exponentials(@)]
  BY DEF Softmax
<1>3. /\ pass = [stage |-> pass.stage, text |-> pass.text, query_offset |-> pass.query_offset,
                 head |-> pass.head, scores |-> pass.scores, merged |-> pass.merged]
      /\ pass.scores = ScoresNow
  BY <1>1 DEF CallInvariant
<1>4. pass' = [stage |-> "values", text |-> pass.text, query_offset |-> pass.query_offset,
               head |-> pass.head, scores |-> Exponentials(ScoresNow), merged |-> pass.merged]
  BY <1>2, <1>3
<1>5. /\ pass'.stage = "values" /\ pass'.text = pass.text
      /\ pass'.query_offset = pass.query_offset /\ pass'.head = pass.head
      /\ pass'.scores = Exponentials(ScoresNow) /\ pass'.merged = pass.merged
  BY <1>4
<1>6. UNCHANGED <<with_cache, keys, values, length, output, fed>>
  BY DEF Softmax
<1>7. CacheInvariant' /\ Whole' = Whole
  BY <1>1, <1>5, <1>6, CacheKept
<1>8. ScoresNow' = ScoresNow
  BY <1>5, <1>6 DEF ScoresNow, HeadKeys, Total
<1>9. CallInvariant'
  BY <1>1, <1>4, <1>5, <1>6, <1>7, <1>8 DEF CallInvariant
<1>a. OutputInvariant'
  BY <1>1, <1>6, OutputKept
<1> QED BY <1>7, <1>9, <1>a DEF AttentionInvariant, PassInvariant

LEMMA WeighKeeps ==
  ASSUME AttentionInvariant, Weigh
  PROVE  AttentionInvariant'
<1> DEFINE o == Weighed(pass.scores, HeadValues)
           after == StoreHead(pass.merged, o, pass.head)
           stage == IF pass.head + 1 = HeadCount THEN "output" ELSE "scores"
<1>1. /\ CacheInvariant /\ CallInvariant /\ OutputInvariant /\ pass.stage = "values"
  BY DEF AttentionInvariant, PassInvariant, Weigh, NoPass
<1>2. pass' = [pass EXCEPT !.stage = stage, !.head = @ + 1, !.scores = NoPass, !.merged = after]
  BY DEF Weigh
<1>3. /\ pass = [stage |-> pass.stage, text |-> pass.text, query_offset |-> pass.query_offset,
                 head |-> pass.head, scores |-> pass.scores, merged |-> pass.merged]
      /\ pass.scores = Exponentials(ScoresNow) /\ pass.head # HeadCount
      /\ pass.query_offset = Len(fed) /\ pass.head \in 0..HeadCount
      /\ Merged(pass.merged, Whole, Len(fed), pass.head)
  BY <1>1 DEF CallInvariant
<1>4. pass' = [stage |-> stage, text |-> pass.text, query_offset |-> pass.query_offset,
               head |-> pass.head + 1, scores |-> NoPass, merged |-> after]
  <2> HIDE DEF after, stage
  <2> QED BY <1>2, <1>3
<1>5. /\ pass'.stage = stage /\ pass'.text = pass.text
      /\ pass'.query_offset = pass.query_offset /\ pass'.head = pass.head + 1
      /\ pass'.scores = NoPass /\ pass'.merged = after
  BY <1>4
<1>6. UNCHANGED <<with_cache, keys, values, length, output, fed>>
  BY DEF Weigh
<1>7. CacheInvariant' /\ Whole' = Whole
  <2> HIDE DEF after
  <2>1. pass'.stage # "none"
    BY <1>5
  <2> HIDE DEF stage
  <2> QED BY <1>1, <1>5, <1>6, <2>1, CacheKept
<1>8. Merged(after, Whole, Len(fed), pass.head + 1)
  <2>1. /\ pass.head \in Below(HeadCount)
        /\ HeadKeys = Tensor(Len(Whole), HeadSize, Slice(Whole, EmbeddingSize, pass.head))
        /\ HeadValues = Tensor(Len(Whole), HeadSize, Slice(Whole, 2 * EmbeddingSize, pass.head))
        /\ ExtractHead(Projected(pass.text), 0, pass.head)
             = Tensor(Len(pass.text), HeadSize, Slice(pass.text, 0, pass.head))
    BY <1>1, <1>3, HeadTensors
  <2>2. /\ Whole \in Seq(Rows) /\ pass.text \in Seq(Rows) /\ Len(fed) \in Nat
        /\ Len(Whole) = Len(fed) + Len(pass.text) /\ Len(pass.text) \in Nat
        /\ \A t \in Below(Len(pass.text)) : Whole[Len(fed) + t + 1] = pass.text[t + 1]
    BY <1>1, CallFacts
  <2>3. ScoresNow = HeadScores(pass.text, Whole, Len(fed), pass.head)
    BY <1>3, <2>1, Zenon DEF ScoresNow, HeadScores
  <2>4. \A t \in Below(Len(pass.text)), d \in Below(HeadSize) :
          HeadOutput(pass.text, Whole, Len(fed), pass.head).data[t * HeadSize + d]
            = Expected(Whole, pass.head, Len(fed) + t + 1, d)
    <3>1. IsEnd(pass.text, Whole, Len(fed))
      BY <2>2 DEF IsEnd
    <3> QED BY <2>1, <2>2, <3>1, HeadIsReference
  <2>5. Len(Whole) - Len(fed) = Len(pass.text)
    BY <2>2
  <2>6. o = HeadOutput(pass.text, Whole, Len(fed), pass.head)
    BY <1>3, <2>1, <2>3, Zenon DEF HeadOutput
  <2>7. \A t \in Below(Len(Whole) - Len(fed)), d \in Below(HeadSize) :
          o.data[t * HeadSize + d] = Expected(Whole, pass.head, Len(fed) + t + 1, d)
    <3> HIDE DEF o
    <3> QED BY <2>4, <2>5, <2>6
  <2> HIDE DEF o
  <2> QED BY <1>3, <2>1, <2>2, <2>5, <2>7, MergedStore
<1>9. /\ pass.head + 1 \in 0..HeadCount
      /\ \/ stage = "scores" /\ pass.head + 1 # HeadCount
         \/ stage = "output" /\ pass.head + 1 = HeadCount
  BY <1>3, Sizes
<1>a. CallInvariant'
  <2> HIDE DEF after, stage
  <2> QED BY <1>1, <1>3, <1>4, <1>5, <1>6, <1>7, <1>8, <1>9 DEF CallInvariant
<1>b. OutputInvariant'
  BY <1>1, <1>6, OutputKept
<1> QED BY <1>7, <1>a, <1>b DEF AttentionInvariant, PassInvariant

LEMMA ReturnKeeps ==
  ASSUME AttentionInvariant, Return
  PROVE  AttentionInvariant'
<1>1. CacheInvariant /\ CallInvariant /\ pass.stage = "output"
  BY DEF AttentionInvariant, PassInvariant, Return, NoPass
<1>2. /\ pass.head = HeadCount /\ pass.query_offset = Len(fed)
      /\ Merged(pass.merged, Whole, Len(fed), HeadCount)
  BY <1>1 DEF CallInvariant
<1>3. /\ Known = Whole /\ Whole \in Seq(Rows) /\ fed \in Seq(Rows)
      /\ Len(fed) \in Nat /\ Len(pass.text) \in Nat
      /\ Len(Whole) = Len(fed) + Len(pass.text) /\ Total = Len(Whole)
      /\ SubSeq(fed, 1, Len(fed)) = fed
  BY <1>1, CallFacts
<1>4. /\ UNCHANGED <<with_cache, keys, values>> /\ pass' = NoPass
      /\ length' = LengthAfter /\ fed' = IF with_cache THEN Whole ELSE fed
  BY DEF Return, Whole
<1>5. Known' = fed'
  BY <1>4 DEF Known, NoCall, NoPass
<1>6. CacheInvariant'
  <2>1. CASE with_cache
    <3>1. fed' = Whole /\ length' = Len(Whole)
      BY <1>3, <1>4, <2>1 DEF LengthAfter
    <3> QED BY <1>1, <1>3, <1>4, <1>5, <2>1, <3>1 DEF CacheInvariant
  <2>2. CASE ~with_cache
    <3>1. fed' = fed /\ length' = length
      BY <1>4, <2>2 DEF LengthAfter
    <3> QED BY <1>1, <1>4, <2>2, <3>1 DEF CacheInvariant
  <2> QED BY <2>1, <2>2
<1>7. output' = [offset |-> Len(fed), text |-> Whole, merged |-> pass.merged]
  BY <1>2, <1>3 DEF Return, Whole
<1>8. output'.offset = Len(fed) /\ output'.text = Whole /\ output'.merged = pass.merged
  BY <1>7
<1>9. OutputInvariant'
  <2>1. Len(fed) \in 0..Len(Whole)
    BY <1>3
  <2> QED BY <1>2, <1>3, <1>8, <2>1 DEF OutputInvariant
<1>a. PassInvariant'
  BY <1>4 DEF PassInvariant
<1> QED BY <1>6, <1>9, <1>a DEF AttentionInvariant

\* The rows of a call that fails stay in the cache, past those it knows.
LEMMA ThrowKeeps ==
  ASSUME AttentionInvariant, Throw
  PROVE  AttentionInvariant'
<1>1. CacheInvariant /\ CallInvariant /\ OutputInvariant
  BY DEF AttentionInvariant, PassInvariant, Throw
<1>2. /\ UNCHANGED <<with_cache, keys, values, length, fed, output>> /\ pass' = NoPass
  BY DEF Throw
<1>3. /\ Known = Whole /\ Whole = fed \o pass.text /\ fed \in Seq(Rows)
      /\ pass.text \in Seq(Rows) /\ Len(fed) \in Nat /\ Len(pass.text) \in Nat
      /\ Len(Whole) = Len(fed) + Len(pass.text)
  BY <1>1, CallFacts DEF Whole
<1>4. Known' = fed
  BY <1>2 DEF Known, NoCall, NoPass
<1>5. CASE with_cache
  <2>1. /\ Len(Whole) <= Capacity
        /\ Cached(keys, fed \o pass.text, EmbeddingSize)
        /\ Cached(values, fed \o pass.text, 2 * EmbeddingSize)
    BY <1>1, <1>3, <1>5 DEF CacheInvariant
  <2>2. Cached(keys, fed, EmbeddingSize) /\ Cached(values, fed, 2 * EmbeddingSize)
    BY <1>3, <2>1, CachedPrefix
  <2>3. Len(fed) <= Capacity
    BY <1>3, <2>1, Sizes
  <2>4. CacheInvariant'
    BY <1>1, <1>2, <1>4, <2>2, <2>3 DEF CacheInvariant
  <2> QED BY <1>1, <1>2, <2>4, OutputKept DEF AttentionInvariant, PassInvariant
<1>6. CASE ~with_cache
  <2>1. CacheInvariant'
    BY <1>1, <1>2, <1>6 DEF CacheInvariant
  <2> QED BY <1>1, <1>2, <2>1, OutputKept DEF AttentionInvariant, PassInvariant
<1> QED BY <1>5, <1>6

LEMMA ClearKeeps ==
  ASSUME AttentionInvariant, Clear
  PROVE  AttentionInvariant'
<1>1. CacheInvariant /\ with_cache /\ pass = NoPass /\ pass' = pass
  BY DEF AttentionInvariant, Clear
<1>2. UNCHANGED <<with_cache, keys, values>> /\ length' = 0 /\ fed' = <<>>
  BY DEF Clear
<1>3. Known' = <<>>
  BY <1>1, <1>2 DEF Known, NoCall, NoPass
<1>4. Cached(keys, <<>>, EmbeddingSize) /\ Cached(values, <<>>, 2 * EmbeddingSize)
  <2>1. Cached(keys, Known, EmbeddingSize) /\ Cached(values, Known, 2 * EmbeddingSize)
    BY <1>1 DEF CacheInvariant
  <2>2. ASSUME NEW cached, NEW known, NEW component, Cached(cached, known, component)
        PROVE  Cached(cached, <<>>, component)
    <3>1. /\ cached.rows = Capacity /\ cached.columns = EmbeddingSize
          /\ DOMAIN cached.data = Below(Capacity * EmbeddingSize)
          /\ cached = [rows |-> cached.rows, columns |-> cached.columns, data |-> cached.data]
      BY <2>2 DEF Cached
    <3> QED BY <3>1, CachedNothing
  <2> QED BY <2>1, <2>2
<1>5. CacheInvariant'
  BY <1>1, <1>2, <1>3, <1>4, NoRows, Sizes DEF CacheInvariant
<1>6. OutputInvariant'
  BY OutputReset DEF Clear
<1>7. PassInvariant'
  BY <1>1 DEF PassInvariant
<1> QED BY <1>5, <1>6, <1>7 DEF AttentionInvariant

LEMMA StutterKeeps ==
  ASSUME AttentionInvariant, UNCHANGED vars
  PROVE  AttentionInvariant'
<1> USE DEF vars
<1>1. Whole' = Whole /\ Known' = Known
  BY DEF Known, NoCall, Whole
<1>2. CacheInvariant'
  BY <1>1 DEF AttentionInvariant, CacheInvariant
<1>3. OutputInvariant'
  BY OutputKept DEF AttentionInvariant
<1>4. CASE pass = NoPass
  BY <1>2, <1>3, <1>4 DEF AttentionInvariant, PassInvariant
<1>5. CASE CallInvariant
  <2>1. ScoresNow' = ScoresNow
    BY DEF ScoresNow, HeadKeys, Total
  <2>2. CallInvariant'
    BY <1>1, <1>5, <2>1 DEF CallInvariant
  <2> QED BY <1>2, <1>3, <2>2 DEF AttentionInvariant, PassInvariant
<1> QED BY <1>4, <1>5 DEF AttentionInvariant, PassInvariant

LEMMA NextKeeps == AttentionInvariant /\ [Next]_vars => AttentionInvariant'
<1> SUFFICES ASSUME AttentionInvariant, [Next]_vars PROVE AttentionInvariant'
  OBVIOUS
<1>1. ASSUME NEW text \in Texts, BeginUncached(text) PROVE AttentionInvariant'
  BY <1>1, BeginUncachedKeeps
<1>2. ASSUME NEW text \in Texts, BeginCached(text) PROVE AttentionInvariant'
  BY <1>2, BeginCachedKeeps
<1>3. ASSUME NEW text \in Texts, Refuse(text) PROVE AttentionInvariant'
  BY <1>3, RefuseKeeps
<1>4. CASE Score BY <1>4, ScoreKeeps
<1>5. CASE Softmax BY <1>5, SoftmaxKeeps
<1>6. CASE Weigh BY <1>6, WeighKeeps
<1>7. CASE Return BY <1>7, ReturnKeeps
<1>8. CASE Throw BY <1>8, ThrowKeeps
<1>9. CASE Clear BY <1>9, ClearKeeps
<1>a. CASE UNCHANGED vars BY <1>a, StutterKeeps
<1> QED BY <1>1, <1>2, <1>3, <1>4, <1>5, <1>6, <1>7, <1>8, <1>9, <1>a DEF Next

LEMMA InvariantAnswers == AttentionInvariant => OutputIsReference
<1> SUFFICES ASSUME AttentionInvariant,
                    NEW h \in Heads, NEW i \in ReturnedRows, NEW d \in Components
             PROVE  Returned(h, i, d) = IF LaterValuesAreFinite(h, i, d)
                                        THEN Reference(output.text, h, i, d) ELSE NaN
  BY DEF OutputIsReference
<1> DEFINE n == Len(output.text)
           t == i - 1 - output.offset
<1>1. /\ output.text \in Seq(Rows) /\ output.offset \in 0..n
      /\ Merged(output.merged, output.text, output.offset, HeadCount)
  BY DEF AttentionInvariant, OutputInvariant
<1>2. n \in Nat
  BY <1>1, TextRows
<1>3. h \in Below(HeadCount) /\ d \in Below(HeadSize) /\ i \in (output.offset + 1)..n
  BY DEF Heads, Components, ReturnedRows
<1> HIDE DEF n
<1>4. t \in Below(n - output.offset) /\ output.offset + t + 1 = i
  BY <1>1, <1>2, <1>3 DEF Below
<1> HIDE DEF t
<1>5. output.merged.data[t * EmbeddingSize + h * HeadSize + d]
        = Expected(output.text, h, output.offset + t + 1, d)
  BY <1>1, <1>3, <1>4 DEF Merged, n
<1>6. Returned(h, i, d) = Expected(output.text, h, i, d)
  BY <1>4, <1>5 DEF Returned, t
<1> QED BY <1>6 DEF Expected, LaterValuesAreFinite

\* multi_head_self_attention (src/attention.cpp), cached or not: every component of every
\* row it returns is the causal attention of its head over the rows up to its own, for
\* every number and size of heads, capacity, set of rows and weights of softmax.
THEOREM AlwaysReturnsReference == Spec => []OutputIsReference
<1>1. Spec => []AttentionInvariant
  <2>1. Init => AttentionInvariant
    BY InitIsInvariant
  <2>2. AttentionInvariant /\ [Next]_vars => AttentionInvariant'
    BY NextKeeps
  <2> QED BY <2>1, <2>2, PTL DEF Spec
<1>2. AttentionInvariant => OutputIsReference
  BY InvariantAnswers
<1> QED BY <1>1, <1>2, PTL
=============================================================================
