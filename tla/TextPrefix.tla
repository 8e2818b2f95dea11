----------------------------- MODULE TextPrefix -----------------------------
(***************************************************************************)
(* The first tokens of a text, and another continuation of them.           *)
(***************************************************************************)
EXTENDS Naturals, Sequences

\* The first n elements, SubSeq(s, 1, n) by a definition the provers expand.
Prefix(s, n) == [i \in 1..n |-> s[i]]

\* A text cut after its first n tokens and continued with others.
Extended(text, n, tokens) == Prefix(text, n) \o tokens

=============================================================================
