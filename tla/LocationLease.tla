--------------------------- MODULE LocationLease ---------------------------
(***************************************************************************)
(* What the schedule lock promises its callers, whatever the interleaving  *)
(* of their statements: a table of leases, one per location, that changes  *)
(* only by a group taking a set of locations in one step, by a group       *)
(* giving all of its locations back in one step, and by time passing.      *)
(***************************************************************************)
EXTENDS Integers

CONSTANTS
    Groups,   \* lock groups
    Locs,     \* locations
    Term,     \* how long a lease lasts
    NoLease   \* the location is free

VARIABLES clock, lease

leaseVars == <<clock, lease>>

Init ==
    /\ clock = 0
    /\ lease = [l \in Locs |-> NoLease]

HeldBy(g, l) == lease[l] # NoLease /\ lease[l].grp = g

\* A group that asked at time t may have a location that is free, that it
\* already holds (and its lease there does not get shorter), or whose lease
\* had run out at t.
MayTake(g, l, t) ==
    \/ lease[l] = NoLease
    \/ lease[l].grp = g /\ lease[l].exp <= t + Term
    \/ lease[l].exp < t

Grant(g) ==
    /\ \E S \in SUBSET Locs, t \in 0..clock :
          /\ \A l \in S : MayTake(g, l, t)
          /\ lease' = [l \in Locs |->
                          IF l \in S THEN [grp |-> g, exp |-> t + Term]
                                     ELSE lease[l]]
    /\ UNCHANGED clock

\* Giving back is all or nothing, and takes nobody else's lease away.
GiveBack(g) ==
    /\ lease' = [l \in Locs |-> IF HeldBy(g, l) THEN NoLease ELSE lease[l]]
    /\ UNCHANGED clock

Pass ==
    /\ clock' = clock + 1
    /\ UNCHANGED lease

Next == Pass \/ \E g \in Groups : Grant(g) \/ GiveBack(g)

Spec == Init /\ [][Next]_leaseVars
=============================================================================
