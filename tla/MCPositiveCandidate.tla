------------------------ MODULE MCPositiveCandidate ------------------------
(* An instance of PositiveCandidate small enough for TLC. *)
EXTENDS PositiveCandidate, TLC

\* Tabs differ in nothing but their names, and so do models.
ReviewSymmetry == Permutations(Tabs) \cup Permutations(Models)
=============================================================================
