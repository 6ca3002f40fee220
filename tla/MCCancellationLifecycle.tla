---------------------- MODULE MCCancellationLifecycle ----------------------
(* The model values the CancellationLifecycle configurations use. *)
EXTENDS CancellationLifecycle, TLC

CONSTANTS
    w1,         \* a server process
    p1, p2      \* two requests

Symmetry == Permutations(Requests)
=============================================================================
