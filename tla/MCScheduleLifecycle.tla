------------------------ MODULE MCScheduleLifecycle ------------------------
(* The model values the ScheduleLifecycle configurations use. *)
EXTENDS ScheduleLifecycle, TLC

CONSTANTS
    r1, r2,     \* two sessions
    week,       \* a schedule
    bar, cafe,  \* two locations; the week is the bar's
    ann         \* an employee

MCHome   == week :> bar
MCPosted == {[loc |-> cafe, emp |-> ann]}

\* The two sessions are interchangeable.
Symmetry == Permutations(Requests)

=============================================================================
