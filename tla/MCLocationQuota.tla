-------------------------- MODULE MCLocationQuota --------------------------
(* The model values the LocationQuota configurations use. *)
EXTENDS LocationQuota, TLC

CONSTANTS
    r1, r2,     \* generate runs
    bar, cafe,  \* locations
    w1, w2      \* weeks

Symmetry == Permutations(Runs) \cup Permutations(Locs) \cup Permutations(Weeks)
=============================================================================
