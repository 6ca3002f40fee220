-------------------------- MODULE MCCreditBilling --------------------------
(* The model values the CreditBilling configurations use. *)
EXTENDS CreditBilling, TLC

CONSTANTS
    p1,         \* a tab
    r1, r2      \* two server sessions

MCSettings == {[enabled |-> FALSE, refill |-> 1]}

Symmetry == Permutations(Sessions)
=============================================================================
