---------------------------- MODULE Subsequences ----------------------------
(***************************************************************************)
(* What a sequence has at some of its places, in order.  SelectSeq says    *)
(* the same by recursion, about which nothing can be proved here; this is  *)
(* the form that the lemmas of the proof modules are about.                *)
(***************************************************************************)
EXTENDS Naturals, FiniteSets

\* The n-th smallest of a set of numbers.
Nth(S, n) == CHOOSE k \in S : Cardinality({j \in S : j <= k}) = n

\* What s has at the places in S.
SubsequenceAt(s, S) == [n \in 1 .. Cardinality(S) |-> s[Nth(S, n)]]
=============================================================================
