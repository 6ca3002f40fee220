--------------------------- MODULE MCPayableHours ---------------------------
(* The model values the PayableHours configuration uses. *)
EXTENDS PayableHours, TLC

CONSTANTS
    ann, bob,   \* employees
    s1, s2,     \* their shifts
    r1, r2,     \* two database sessions
    x1, x2      \* two export rows

MCWorker   == s1 :> ann @@ s2 :> bob
MCRanges   == {{s1}, {s1, s2}}
MCIdOrder  == s1 :> 1 @@ s2 :> 2
MCPayOrder == s1 :> 2 @@ s2 :> 1

Symmetry == Permutations(Requests) \cup Permutations(Exports)
=============================================================================
