--------------------------- MODULE MCScheduleLock ---------------------------
(* The model values the ScheduleLock configurations use. *)
EXTENDS ScheduleLock

CONSTANTS
    gen,   \* a generate run
    mgr1,  \* a manager who approves or edits
    ann    \* an employee
=============================================================================
