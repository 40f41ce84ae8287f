--------------------------- MODULE MC_Commitments ---------------------------
(* Two lines, three commitments, one document, two requests at a time.      *)
EXTENDS Commitments, TLC

CONSTANTS l1, l2, c1, c2, c3, d1, r1, r2

OneLine == {l1}
TwoLines == {l1, l2}
TwoCommitments == {c1, c2}
ThreeCommitments == {c1, c2, c3}
OneSource == {d1}
TwoRequests == {r1, r2}

Symmetry == Permutations(TwoLines) \cup Permutations(ThreeCommitments) \cup Permutations(TwoRequests)
=============================================================================
