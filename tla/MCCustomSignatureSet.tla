----------------------- MODULE MCCustomSignatureSet -----------------------
(* Instances of CustomSignatureSet small enough for TLC. *)
EXTENDS CustomSignatureSet, TLC

CONSTANTS s1, s2, n1, n2, r1, r2, c1, c2

MCRulesIn ==
  [c \in Catalogs \cup {None} |->
    CASE c = None -> {} [] c = c1 -> {r1} [] OTHER -> {r1, r2}]

P(name, action, rules) == [name |-> name, action |-> action, rules |-> rules]

\* An edit changes the name, the action and the rules; r2 is in the newer catalog
\* only.
SerialProposals == {P(n1, "LOG", {r1}), P(n2, "BLOCK", {r1, r2})}

RaceProposals == {P(n1, "LOG", {r1}), P(n1, "BLOCK", {r1})}

RequestSymmetry == Permutations(Requests)
IdSymmetry == Permutations(Approvals) \cup Permutations(Previews)
Symmetry == RequestSymmetry \cup IdSymmetry
=============================================================================
