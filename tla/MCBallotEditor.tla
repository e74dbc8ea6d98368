--------------------------- MODULE MCBallotEditor ---------------------------
(* Three candidates, and enough clicks to choose, move and confirm.  *)
EXTENDS BallotEditor, TLC

Symmetry == Permutations(Clicks) \cup Permutations(Candidates)
=============================================================================
