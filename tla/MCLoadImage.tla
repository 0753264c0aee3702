---------------------------- MODULE MCLoadImage ----------------------------
EXTENDS LoadImage, TLC

CONSTANTS u1, u2, u3, d1, d2, d3, null

ImageAt == (u1 :> {d1, d2}) @@ (u2 :> {null}) @@ (u3 :> {d3})
TaskSymmetry == Permutations(Tasks)
=============================================================================
