------------------------------ MODULE Attention ------------------------------
(***************************************************************************)
(* multi_head_self_attention (src/attention.cpp), with and without an      *)
(* AttentionCache, over the kernels of src/tensor_ops.cpp: how the rows of *)
(* the QKV projection are cut into heads, kept in the cache, masked,       *)
(* weighed and merged again, by the arithmetic on flat indices that the    *)
(* code uses.  The quantized twins have the same body.                     *)
(*                                                                         *)
(* A number is an integer or one of NaN, PosInf and NegInf, and the sums   *)
(* of integers are exact.  Scores are counted in units of the scale, so    *)
(* scaling is left out; Exp gives the weight of a score at a distance from *)
(* the highest one, and is zero where std::exp underflows.  A weight of    *)
(* softmax is kept as its numerator, next to the total of its row.         *)
(***************************************************************************)
EXTENDS Integers, Sequences, FiniteSetsExt

CONSTANTS
  HeadCount, HeadSize,
  Capacity,               \* the rows of a cache
  Rows,                   \* rows of the QKV projection
  NaN, PosInf, NegInf,
  Exp(_)                  \* of a distance from the highest score

EmbeddingSize == HeadCount * HeadSize

Number == Int \cup {NaN, PosInf, NegInf}

ASSUME AttentionAssumption ==
  /\ {HeadCount, HeadSize, Capacity} \subseteq Nat \ {0}
  /\ \A r \in Rows : DOMAIN r = 1..(3 * EmbeddingSize) /\ \A c \in DOMAIN r : r[c] \in Number
  /\ {NaN, PosInf, NegInf} \cap Int = {} /\ NaN \notin {PosInf, NegInf} /\ PosInf # NegInf
  /\ Exp(0) \in Nat \ {0}

VARIABLES
  with_cache,     \* whether the calls are made with a cache
  keys, values,   \* keys_m and values_m
  length,         \* length_m
  pass,           \* the locals of the call under way
  output,         \* what the last call returned: the merged heads, before the output projection
  fed             \* ghost: the rows appended to the first `length` positions

vars == <<with_cache, keys, values, length, pass, output, fed>>

-----------------------------------------------------------------------------
(* float *)

Sign(x) == IF x = PosInf THEN 1 ELSE IF x = NegInf THEN -1
           ELSE IF x > 0 THEN 1 ELSE IF x = 0 THEN 0 ELSE -1

Times(x, y) ==
  CASE {x, y} \subseteq Int -> x * y
    [] NaN \in {x, y} -> NaN
    [] OTHER -> <<NegInf, NaN, PosInf>>[Sign(x) * Sign(y) + 2]

Plus(x, y) ==
  CASE {x, y} \subseteq Int -> x + y
    [] NaN \in {x, y} \/ {x, y} = {PosInf, NegInf} -> NaN
    [] OTHER -> IF x \in Int THEN y ELSE x

Minus(x, y) == Plus(x, CASE y = PosInf -> NegInf [] y = NegInf -> PosInf
                         [] y = NaN -> NaN [] OTHER -> -y)

\* The operator >: false of NaN.
Greater(x, y) ==
  CASE {x, y} \subseteq Int -> x > y
    [] NaN \in {x, y} -> FALSE
    [] OTHER -> x # y /\ (x = PosInf \/ y = NegInf)

\* std::exp of what is at most the highest score of its row.
ExpOf(x) == CASE x \in Int -> Exp(-x) [] x = NegInf -> 0 [] OTHER -> x

\* The running sum of n terms.
RunningSum(n, term) ==
  LET sum[i \in 0..n] == IF i = 0 THEN 0 ELSE Plus(sum[i - 1], term[i - 1]) IN sum[n]

-----------------------------------------------------------------------------
(* Tensor of rank 2, in row-major order, and the kernels *)

Below(n) == 0..(n - 1)

Tensor(rows, columns, element) ==
  [rows |-> rows, columns |-> columns,
   data |-> [x \in Below(rows * columns) |-> element[x \div columns][x % columns]]]

Matmul(left, right) ==
  Tensor(left.rows, right.columns,
    [row \in Below(left.rows) |-> [column \in Below(right.columns) |->
      RunningSum(left.columns, [inner \in Below(left.columns) |->
        Times(left.data[row * left.columns + inner],
              right.data[inner * right.columns + column])])]])

Transpose(t) ==
  Tensor(t.columns, t.rows,
    [row \in Below(t.columns) |-> [column \in Below(t.rows) |->
      t.data[column * t.columns + row]]])

Row(t, i) == [j \in Below(t.columns) |-> t.data[i * t.columns + j]]

\* The first loop of softmax, over n scores.
RowMaximum(n, x) ==
  LET highest[j \in Below(n)] ==
        IF j = 0 THEN x[0] ELSE IF Greater(x[j], highest[j - 1]) THEN x[j] ELSE highest[j - 1]
  IN highest[n - 1]

\* The numerators of a row's weights, and their total.
Exponentials(t) ==
  Tensor(t.rows, t.columns,
    [i \in Below(t.rows) |-> [j \in Below(t.columns) |->
      ExpOf(Minus(Row(t, i)[j], RowMaximum(t.columns, Row(t, i))))]])

RowTotal(t, i) == RunningSum(t.columns, Row(t, i))

\* A sum of weighted values over the total of the weights: a fraction, unless it
\* is no finite number.
Quotient(sum, total) ==
  IF NaN \in {sum, total} THEN NaN ELSE IF sum \in Int THEN <<sum, total>> ELSE sum

-----------------------------------------------------------------------------
(* attention.cpp *)

\* What `linear` returns for the rows of a text.
Projected(text) ==
  Tensor(Len(text), 3 * EmbeddingSize,
    [t \in Below(Len(text)) |-> [c \in Below(3 * EmbeddingSize) |-> text[t + 1][c + 1]]])

ExtractHead(qkv, component, head) ==
  Tensor(qkv.rows, HeadSize,
    [t \in Below(qkv.rows) |-> [d \in Below(HeadSize) |->
      qkv.data[t * qkv.columns + component + head * HeadSize + d]]])

ExtractCachedHead(cached, head, count) ==
  Tensor(count, HeadSize,
    [t \in Below(count) |-> [d \in Below(HeadSize) |->
      cached.data[t * cached.columns + head * HeadSize + d]]])

AppendToCache(cached, qkv, component, start) ==
  [cached EXCEPT !.data =
     [x \in DOMAIN @ |->
        LET t == (x \div cached.columns) - start
        IN IF t \in Below(qkv.rows)
           THEN qkv.data[t * qkv.columns + component + (x % cached.columns)]
           ELSE @[x]]]

\* Element [t, head * HeadSize + d] becomes element [t, d] of the head's output.
StoreHead(merged, head_output, head) ==
  [merged EXCEPT !.data =
     [x \in DOMAIN @ |->
        LET d == (x % merged.columns) - head * HeadSize
        IN IF d \in Below(HeadSize)
           THEN head_output.data[(x \div merged.columns) * HeadSize + d]
           ELSE @[x]]]

MaskedByTheRowOfThePass(scores, query_offset) ==
  Tensor(scores.rows, scores.columns,
    [i \in Below(scores.rows) |-> [j \in Below(scores.columns) |->
      IF j > i THEN NegInf ELSE scores.data[i * scores.columns + j]]])

Masked(scores, query_offset) ==
  Tensor(scores.rows, scores.columns,
    [i \in Below(scores.rows) |-> [j \in Below(scores.columns) |->
      IF j > query_offset + i THEN NegInf ELSE scores.data[i * scores.columns + j]]])

Weighed(weights, value) ==
  LET sums == Matmul(weights, value)
  IN Tensor(sums.rows, sums.columns,
       [i \in Below(sums.rows) |-> [d \in Below(sums.columns) |->
         Quotient(sums.data[i * sums.columns + d], RowTotal(weights, i))]])

-----------------------------------------------------------------------------
(* The states *)

Zeros(rows, columns) ==
  Tensor(rows, columns, [r \in Below(rows) |-> [c \in Below(columns) |-> 0]])

NoPass == [stage |-> "none"]
NoOutput == [offset |-> 0, text |-> <<>>, merged |-> Zeros(0, EmbeddingSize)]

Init ==
  /\ with_cache \in BOOLEAN
  /\ keys = Zeros(Capacity, EmbeddingSize)
  /\ values = Zeros(Capacity, EmbeddingSize)
  /\ length = 0
  /\ pass = NoPass
  /\ output = NoOutput
  /\ fed = <<>>

Started(text, query_offset) ==
  [stage |-> "scores", text |-> text, query_offset |-> query_offset, head |-> 0,
   scores |-> NoPass, merged |-> Zeros(Len(text), EmbeddingSize)]

Texts == UNION {[1..n -> Rows] : n \in 1..Capacity}

\* A call without a cache.
BeginUncached(text) ==
  /\ ~with_cache /\ pass = NoPass
  /\ pass' = Started(text, 0)
  /\ output' = NoOutput
  /\ UNCHANGED <<with_cache, keys, values, length, fed>>

\* A call with one: the check of the room, and both appends.
BeginCached(text) ==
  /\ with_cache /\ pass = NoPass
  /\ Len(text) <= Capacity - length
  /\ keys' = AppendToCache(keys, Projected(text), EmbeddingSize, length)
  /\ values' = AppendToCache(values, Projected(text), 2 * EmbeddingSize, length)
  /\ pass' = Started(text, length)
  /\ output' = NoOutput
  /\ UNCHANGED <<with_cache, length, fed>>

\* The cache has no room for the new tokens.
Refuse(text) ==
  /\ with_cache /\ pass = NoPass
  /\ Len(text) > Capacity - length
  /\ output' = NoOutput
  /\ UNCHANGED <<with_cache, keys, values, length, pass, fed>>

Total == pass.query_offset + Len(pass.text)

HeadKeys ==
  IF with_cache THEN ExtractCachedHead(keys, pass.head, Total)
  ELSE ExtractHead(Projected(pass.text), EmbeddingSize, pass.head)

HeadValues ==
  IF with_cache THEN ExtractCachedHead(values, pass.head, Total)
  ELSE ExtractHead(Projected(pass.text), 2 * EmbeddingSize, pass.head)

\* One head: its scores, scaled and masked.
Score ==
  /\ pass.stage = "scores"
  /\ LET query == ExtractHead(Projected(pass.text), 0, pass.head)
     IN pass' = [pass EXCEPT !.stage = "softmax",
                   !.scores = Masked(Matmul(query, Transpose(HeadKeys)), pass.query_offset)]
  /\ UNCHANGED <<with_cache, keys, values, length, output, fed>>

Softmax ==
  /\ pass.stage = "softmax"
  /\ pass' = [pass EXCEPT !.stage = "values", !.scores = Exponentials(@)]
  /\ UNCHANGED <<with_cache, keys, values, length, output, fed>>

\* Its weighted values, stored; then the next head.
Weigh ==
  /\ pass.stage = "values"
  /\ pass' = [pass EXCEPT !.stage = IF pass.head + 1 = HeadCount THEN "output" ELSE "scores",
                !.head = @ + 1, !.scores = NoPass,
                !.merged = StoreHead(@, Weighed(pass.scores, HeadValues), pass.head)]
  /\ UNCHANGED <<with_cache, keys, values, length, output, fed>>

LengthAfter == IF with_cache THEN Total ELSE length

\* The end of the call: the cache's length, in a cached one.
Return ==
  /\ pass.stage = "output"
  /\ length' = LengthAfter
  /\ fed' = IF with_cache THEN fed \o pass.text ELSE fed
  /\ output' = [offset |-> pass.query_offset,
                text |-> SubSeq(fed, 1, pass.query_offset) \o pass.text,
                merged |-> pass.merged]
  /\ pass' = NoPass
  /\ UNCHANGED <<with_cache, keys, values>>

\* An allocation fails: the call is left with its rows appended and the length as it was.
Throw ==
  /\ pass # NoPass
  /\ pass' = NoPass
  /\ UNCHANGED <<with_cache, keys, values, length, output, fed>>

\* AttentionCache::clear: the rows stay.
Clear ==
  /\ with_cache /\ pass = NoPass
  /\ length' = 0
  /\ fed' = <<>>
  /\ output' = NoOutput
  /\ UNCHANGED <<with_cache, keys, values, pass>>

Next ==
  \/ \E text \in Texts : BeginUncached(text) \/ BeginCached(text) \/ Refuse(text)
  \/ Score \/ Softmax \/ Weigh \/ Return \/ Throw \/ Clear

Spec == Init /\ [][Next]_vars

-----------------------------------------------------------------------------
(* The reference: causal attention of one query over the rows up to its own, with
   no cache, no mask and no flat index *)

QueryOf(row, h, d) == row[h * HeadSize + d + 1]
KeyOf(row, h, d) == row[EmbeddingSize + h * HeadSize + d + 1]
ValueOf(row, h, d) == row[2 * EmbeddingSize + h * HeadSize + d + 1]

ReferenceScore(text, h, i, j) ==
  RunningSum(HeadSize,
    [d \in Below(HeadSize) |-> Times(QueryOf(text[i], h, d), KeyOf(text[j], h, d))])

\* Component d of head h of row i of the text (rows counted from 1).
Reference(text, h, i, d) ==
  LET score == [j \in 1..i |-> ReferenceScore(text, h, i, j)]
      scores == {score[j] : j \in 1..i}
      highest == Max(scores \cap Int)
      weight == [j \in 1..i |-> IF score[j] = NegInf THEN 0 ELSE Exp(highest - score[j])]
  IN IF scores \cap {NaN, PosInf} # {} \/ scores = {NegInf} THEN NaN
     ELSE Quotient(RunningSum(i, [j \in Below(i) |->
                                Times(weight[j + 1], ValueOf(text[j + 1], h, d))]),
                   RunningSum(i, [j \in Below(i) |-> weight[j + 1]]))

Returned(h, i, d) ==
  output.merged.data[(i - 1 - output.offset) * EmbeddingSize + h * HeadSize + d]

Heads == Below(HeadCount)
Components == Below(HeadSize)
ReturnedRows == (output.offset + 1)..Len(output.text)

\* The later rows of the same call hold finite values in this column.
LaterValuesAreFinite(h, i, d) ==
  \A j \in (i + 1)..Len(output.text) : ValueOf(output.text[j], h, d) \in Int

-----------------------------------------------------------------------------
(* Properties *)

\* Every component of every row that multi_head_self_attention returns is the causal
\* attention of its own head over the rows of the text up to its own, whichever way the
\* text was cut into calls, whatever an earlier text or a failed call left in the cache,
\* and however many later rows the same call computes.  The mask multiplies those by
\* zero, so the one exception is a later value of this very column that is infinite or
\* NaN: it makes the component NaN.
OutputIsReference ==
  \A h \in Heads, i \in ReturnedRows, d \in Components :
    Returned(h, i, d) =
      IF LaterValuesAreFinite(h, i, d) THEN Reference(output.text, h, i, d) ELSE NaN

\* docs/generation.md:212-224, "The logits are bit for bit identical": a row is the same
\* whether or not later rows are computed with it, since the mask's "zero weights"
\* contribute "exact zeros".  It is not when a later value is infinite or NaN.
OutputIsCausal ==
  \A h \in Heads, i \in ReturnedRows, d \in Components :
    Returned(h, i, d) = Reference(output.text, h, i, d)
=============================================================================
