----------------------------- MODULE MCSampling -----------------------------
(***************************************************************************)
(* Four tokens with every pattern of ties, ruled-out scores and scores     *)
(* that are no numbers.                                                    *)
(***************************************************************************)
EXTENDS Sampling

MCNegInf == -100

MCScoreVectors ==
  [0..3 -> {MCNegInf, 0, 1, 2}] \cup [0..3 -> {NaN, PosInf, 0, 1}]

\* Temperatures of one and of a half.
MCDivide(score, temperature) == score * temperature

\* Halves with every step and vanishes at the fourth.
MCExp(distance) == <<4, 2, 1, 0, 0>>[distance + 1]
=============================================================================
