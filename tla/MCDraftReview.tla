---------------------------- MODULE MCDraftReview ----------------------------
(* The model values the DraftReview configurations use. *)
EXTENDS DraftReview, TLC

CONSTANTS
    l1,        \* a location
    q1, q2     \* two requests

Symmetry == Permutations(Requests)
=============================================================================
