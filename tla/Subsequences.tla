------------------------------ MODULE Subsequences ------------------------------
(***************************************************************************)
(* What Array.prototype.filter leaves of a list, by the positions it       *)
(* leaves: SelectSeq, in a form that can be reasoned about.                *)
(***************************************************************************)
EXTENDS Naturals, Sequences, SequencesExt, FiniteSets

IsSequence(s) == s \in Seq(ToSet(s))

\* The positions of a set, in their order.
InOrder(K) == [n \in 1..Cardinality(K) |-> CHOOSE k \in K : Cardinality({j \in K : j <= k}) = n]

\* What a sequence has at a set of its positions, in its order.
Kept(s, K) == IF K = DOMAIN s THEN s ELSE [n \in 1..Cardinality(K) |-> s[InOrder(K)[n]]]
=============================================================================
