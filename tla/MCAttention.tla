----------------------------- MODULE MCAttention -----------------------------
(***************************************************************************)
(* Two heads of two components.  A row is written as its queries, keys and *)
(* values, four numbers each.                                              *)
(***************************************************************************)
EXTENDS Attention

\* Halves with every unit and underflows at the fourth.
MCExp(distance) == IF distance <= 3 THEN <<8, 4, 2, 1>>[distance + 1] ELSE 0

MCRows == {
  <<1, 0, 0, 1>>  \o <<1, 0, 2, 1>>      \o <<1, 2, 3, 4>>,
  <<0, 1, 2, 1>>  \o <<0, 2, 1, 0>>      \o <<5, 7, 6, 9>>,
  <<3, 1, 0, -2>> \o <<-1, 1, 0, -1>>    \o <<10, 20, 30, 40>>,
  \* a value that is infinite, and one that is not a number
  <<1, 1, 1, 0>>  \o <<2, 0, 0, 1>>      \o <<PosInf, 3, 2, 1>>,
  <<0, 1, 1, 1>>  \o <<0, 1, 1, 2>>      \o <<1, NegInf, NaN, 8>>,
  \* keys that are ruled out by one query and ruin another
  <<2, 1, 1, -1>> \o <<NegInf, 1, 0, 2>> \o <<3, 6, 5, 2>>,
  \* a query that is not a number, a key so low that its weight underflows
  <<NaN, 0, 1, 4>> \o <<0, -3, -4, -4>>  \o <<2, 3, 1, PosInf>>
}
=============================================================================
