------------------------- MODULE MCAssessmentTools -------------------------
(* Two clients of one person, and the ratings of that person and another. *)
EXTENDS AssessmentTools, TLC

CONSTANTS ann, bob

MCSubjectOf == [c \in Callers |-> ann]

Symmetry == Permutations(Callers)
=============================================================================
