-------------------------- MODULE MonthlyAllowance --------------------------
(***************************************************************************)
(* What the free plan promises to allow in a calendar month: for each      *)
(* location a count of generations and the weeks they were for, which a    *)
(* free group can only take up to its limits, and which nothing but the    *)
(* next month takes back.                                                  *)
(***************************************************************************)
EXTENDS Naturals, FiniteSets

CONSTANTS
    Locs,          \* the group's locations
    Weeks,         \* weeks a schedule can be for
    MaxLocations,  \* FREE_PLAN_MAX_LOCATIONS
    MaxAttempts    \* FREE_PLAN_ATTEMPTS_PER_LOCATION

VARIABLES
    paid,      \* the group has a subscription
    attempts,  \* generations of each location this month
    weeks      \* the weeks they were for

allowanceVars == <<paid, attempts, weeks>>

Begun == {l \in Locs : attempts[l] > 0}

\* A location of a free group may begin its month while the plan has
\* locations left, and may then only repeat a week it has begun.
MayGenerate(l, w) ==
    \/ paid
    \/ attempts[l] = 0 /\ Cardinality(Begun) < MaxLocations
    \/ w \in weeks[l] /\ attempts[l] < MaxAttempts

FreshMonth(count, for) ==
    /\ count = [l \in Locs |-> 0]
    /\ for = [l \in Locs |-> {}]

Init ==
    /\ paid \in BOOLEAN
    /\ FreshMonth(attempts, weeks)

Generate(l, w) ==
    /\ MayGenerate(l, w)
    /\ attempts' = [attempts EXCEPT ![l] = @ + 1]
    /\ weeks' = [weeks EXCEPT ![l] = @ \cup {w}]
    /\ UNCHANGED paid

ChangePlan ==
    /\ paid' = ~paid
    /\ UNCHANGED <<attempts, weeks>>

NewMonth ==
    /\ FreshMonth(attempts', weeks')
    /\ UNCHANGED paid

Next ==
    \/ ChangePlan
    \/ NewMonth
    \/ \E l \in Locs, w \in Weeks : Generate(l, w)

Spec == Init /\ [][Next]_allowanceVars
=============================================================================
