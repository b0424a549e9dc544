-------------------------- MODULE MCAdcProtection --------------------------
(* Instances of AdcProtection small enough for TLC. *)
EXTENDS AdcProtection, TLC

CONSTANTS d1, p1, g1

\* With a policy and a named signature object, and without either, for one
\* destination.
Full == [dest |-> d1, sig |-> g1, policy |-> p1]
Bare == [dest |-> d1, sig |-> None, policy |-> None]
TwoPlans == {Full, Bare}

Symmetry == Permutations(Approves) \cup Permutations(Preflights) \cup Permutations(Applies)
=============================================================================
