---------------------------- MODULE LocationQuota ----------------------------
(***************************************************************************)
(* The free plan's generation allowance: backend/services/location_quota.py*)
(* and the generate route and pipeline that ask it three times, at the     *)
(* gate, for the batch of locations a run resolved, and again under the    *)
(* ownership-group row lock in the transaction that inserts a schedule.    *)
(*                                                                         *)
(* The locations are those of one ownership group, the runs those of any   *)
(* company in it.  An action is a statement, or statements between which   *)
(* nothing they read can change; the schedule lock is here only as the     *)
(* chance that a location is skipped.  Approve, reject and archive are one *)
(* step each: ScheduleLifecycle has their interleavings.                   *)
(***************************************************************************)
EXTENDS Naturals, FiniteSets

CONSTANTS
    Runs,          \* sessions that serve generate requests, one after another
    Locs,          \* the group's locations
    Weeks,         \* weeks a schedule can be for
    MaxLocations,  \* FREE_PLAN_MAX_LOCATIONS
    MaxSchedules,  \* FREE_PLAN_SCHEDULES_PER_LOCATION
    MaxAttempts,   \* FREE_PLAN_ATTEMPTS_PER_LOCATION
    MaxMonth,      \* bound: the last month
    MaxRows,       \* bound: schedules that exist at a time
    NoOne,         \* nobody owns the group's row
    NoSched,       \* an id not in use
    NoWeek,        \* no request is being served
    NoTxn          \* no location is being written

Ids    == 1..MaxRows
Months == 1..MaxMonth

Sched == [loc : Locs, week : Weeks, born : Months,
          status : {"draft", "approved", "rejected", "discarded"}]
Txn   == [loc : Locs, born : Months]

ASSUME QuotaAssumption ==
    /\ MaxLocations \in Nat \ {0}
    /\ MaxSchedules \in Nat \ {0}
    /\ MaxAttempts \in Nat \ {0}
    /\ MaxMonth \in Nat \ {0}
    /\ MaxRows \in Nat
    /\ NoOne \notin Runs
    /\ NoSched \notin Sched
    /\ NoWeek \notin Weeks
    /\ NoTxn \notin Txn
    /\ IsFiniteSet(Locs)

VARIABLES
    month,  \* the calendar month, UTC
    paid,   \* stripe_subscription_id set and canceled_at not
    shut,   \* the month a location was archived in, 0 while it is active
    sched,  \* shift_schedules
    owner,  \* who holds the group's row FOR UPDATE
    pc,     \* where each run is
    week,   \* the week it was asked for
    todo,   \* the locations it has still to write
    txn     \* the one it is writing, and the month that transaction began in:
            \* created_at defaults to the time the transaction began

request == <<pc, week, todo, txn>>
vars    == <<month, paid, shut, sched, owner, request>>

PCs == {"idle", "gated", "run", "wait", "recheck", "insert"}

-----------------------------------------------------------------------------
(* The verdict: resolve_location_quota *)

ThisMonth == {i \in Ids : sched[i] # NoSched /\ sched[i].born = month}

Attempts(l) == {i \in ThisMonth : sched[i].loc = l}

\* A rejected schedule holds no slot; a discarded one does.
Held(l) == {i \in Attempts(l) : sched[i].status # "rejected"}

\* (Mutant: only the active locations.)
Started_Active == {sched[i].loc : i \in ThisMonth} \cap {l \in Locs : shut[l] = 0}

\* Locations that have started their month, archived ones included.
Started == {sched[i].loc : i \in ThisMonth}

StartsLeft ==
    IF Cardinality(Started) < MaxLocations THEN MaxLocations - Cardinality(Started) ELSE 0

\* A slot is free, an attempt is left, and a retry is for a week already
\* tried: the code compares with whichever row it read first.
Fits(l, w) ==
    /\ Cardinality(Held(l)) < MaxSchedules
    /\ Cardinality(Attempts(l)) < MaxAttempts
    /\ Attempts(l) = {} \/ \E i \in Attempts(l) : sched[i].week = w

Allowed(l, w) == paid \/ (Fits(l, w) /\ (l \in Started \/ StartsLeft > 0))

\* What a run may keep of the locations S it resolved: a location that starts
\* its month takes one of the starts left from those listed after it.
Batch(S, w) ==
    {A \in SUBSET S :
        IF paid THEN A = S
        ELSE /\ \A l \in A : Fits(l, w)
             /\ Cardinality(A \ Started) <= StartsLeft
             /\ \A l \in S \ A :
                   ~Fits(l, w) \/ (l \notin Started /\ Cardinality(A \ Started) = StartsLeft)}

Active == {l \in Locs : shut[l] = 0}

\* count_locations_for_group: a location archived this month keeps its slot.
Slots == {l \in Locs : shut[l] \in {0, month}}

Goto(r, to) == pc' = [pc EXCEPT ![r] = to]
Unlock(r)   == owner' = IF owner = r THEN NoOne ELSE owner

\* The transaction has ended, and the run goes on to its next location.
NextLocation(r) ==
    /\ Goto(r, "run")
    /\ Unlock(r)
    /\ txn' = [txn EXCEPT ![r] = NoTxn]

\* The request is over, and what its open transaction did rolled back.
EndRequest(r) ==
    /\ Goto(r, "idle")
    /\ Unlock(r)
    /\ week' = [week EXCEPT ![r] = NoWeek]
    /\ todo' = [todo EXCEPT ![r] = {}]
    /\ txn' = [txn EXCEPT ![r] = NoTxn]

-----------------------------------------------------------------------------
\* A group with more locations than the free plan has got there by paying.
Init ==
    /\ month = 1
    /\ paid \in BOOLEAN
    /\ shut = [l \in Locs |-> 0]
    /\ sched = [i \in Ids |-> NoSched]
    /\ owner = NoOne
    /\ pc = [r \in Runs |-> "idle"]
    /\ week = [r \in Runs |-> NoWeek]
    /\ todo = [r \in Runs |-> {}]
    /\ txn = [r \in Runs |-> NoTxn]

-----------------------------------------------------------------------------
(* A generate run *)

\* check_can_generate lets a request in when the group has paid, or is within
\* its locations and has one that may still generate this week (or none to
\* refuse); any other is a 402 and changes nothing.
Gate(r) ==
    /\ pc[r] = "idle"
    /\ \E w \in Weeks :
          /\ \/ paid
             \/ /\ Cardinality(Active) <= MaxLocations
                /\ Active = {} \/ \E l \in Active : Allowed(l, w)
          /\ week' = [week EXCEPT ![r] = w]
    /\ Goto(r, "gated")
    /\ UNCHANGED <<month, paid, shut, sched, owner, todo, txn>>

\* run_scheduling_pipeline resolves its locations and drops those the batch
\* verdict refuses, for good: they are not asked about again.
Resolve(r) ==
    /\ pc[r] = "gated"
    /\ \E S \in SUBSET Active : \E A \in Batch(S, week[r]) :
          todo' = [todo EXCEPT ![r] = A]
    /\ Goto(r, "run")
    /\ UNCHANGED <<month, paid, shut, sched, owner, week, txn>>

\* _relock_for_write commits, so that the next statement, the first of
\* lock_group_and_recheck, begins the transaction ...
Relock(r) ==
    /\ pc[r] = "run"
    /\ \E l \in todo[r] :
          /\ todo' = [todo EXCEPT ![r] = @ \ {l}]
          /\ txn' = [txn EXCEPT ![r] = [loc |-> l, born |-> month]]
    /\ Goto(r, "wait")
    /\ UNCHANGED <<month, paid, shut, sched, owner, week>>

\* ... or somebody else holds part of the lock, and the location is skipped.
Skip(r) ==
    /\ pc[r] = "run"
    /\ \E l \in todo[r] : todo' = [todo EXCEPT ![r] = @ \ {l}]
    /\ UNCHANGED <<month, paid, shut, sched, owner, pc, week, txn>>

\* (Mutant: the row is read without FOR UPDATE.)
LockGroup_Unlocked(r) ==
    /\ pc[r] = "wait"
    /\ Goto(r, "recheck")
    /\ UNCHANGED <<month, paid, shut, sched, owner, week, todo, txn>>

\* lock_group_and_recheck: the ownership group's row FOR UPDATE ...
LockGroup(r) ==
    /\ pc[r] = "wait"
    /\ owner = NoOne
    /\ owner' = r
    /\ Goto(r, "recheck")
    /\ UNCHANGED <<month, paid, shut, sched, week, todo, txn>>

\* ... then the verdict for this location alone; a refusal commits.
Recheck(r) ==
    /\ pc[r] = "recheck"
    /\ \/ /\ Allowed(txn[r].loc, week[r])
          /\ Goto(r, "insert")
          /\ UNCHANGED <<owner, txn>>
       \/ /\ ~Allowed(txn[r].loc, week[r])
          /\ NextLocation(r)
    /\ UNCHANGED <<month, paid, shut, sched, week, todo>>

\* (Mutant: the schedule is given no creation time.)
NewSched_Untimed(r) ==
    [loc |-> txn[r].loc, week |-> week[r], born |-> 0, status |-> "draft"]

NewSched(r) ==
    [loc |-> txn[r].loc, week |-> week[r], born |-> txn[r].born, status |-> "draft"]

\* The schedule is inserted and committed.
Insert(r) ==
    /\ pc[r] = "insert"
    /\ \E i \in Ids :
          /\ sched[i] = NoSched /\ \A j \in 1..(i - 1) : sched[j] # NoSched
          /\ sched' = [sched EXCEPT ![i] = NewSched(r)]
    /\ NextLocation(r)
    /\ UNCHANGED <<month, paid, shut, week, todo>>

\* The stream ends; or the server dies, the client leaves or the pipeline
\* fails, at any point.
EndRun(r) ==
    /\ pc[r] # "idle"
    /\ EndRequest(r)
    /\ UNCHANGED <<month, paid, shut, sched>>

-----------------------------------------------------------------------------
(* Managers, the subscription, and time *)

Approve(i) ==
    /\ sched[i] # NoSched
    /\ sched[i].status \in {"draft", "rejected"}
    /\ shut[sched[i].loc] = 0
    /\ sched' = [sched EXCEPT ![i].status = "approved"]
    /\ UNCHANGED <<month, paid, shut, owner, request>>

Reject(i) ==
    /\ sched[i] # NoSched
    /\ sched[i].status # "discarded"
    /\ sched' = [sched EXCEPT ![i].status = "rejected"]
    /\ UNCHANGED <<month, paid, shut, owner, request>>

DraftsAt(l) ==
    {i \in Ids : sched[i] # NoSched /\ sched[i].loc = l /\ sched[i].status = "draft"}

\* (Mutant: the drafts of an archived location are deleted.)
Archive_Deleting(l) ==
    /\ shut[l] = 0
    /\ shut' = [shut EXCEPT ![l] = month]
    /\ sched' = [i \in Ids |-> IF i \in DraftsAt(l) THEN NoSched ELSE sched[i]]
    /\ UNCHANGED <<month, paid, owner, request>>

\* archive_location: drafts are kept, as discarded.
Archive(l) ==
    /\ shut[l] = 0
    /\ shut' = [shut EXCEPT ![l] = month]
    /\ sched' = [i \in Ids |->
                    IF i \in DraftsAt(l) THEN [sched[i] EXCEPT !.status = "discarded"]
                                         ELSE sched[i]]
    /\ UNCHANGED <<month, paid, owner, request>>

\* One archived this month is given back; an older one needs a free slot.
Restore(l) ==
    /\ shut[l] # 0
    /\ \/ paid
       \/ shut[l] = month
       \/ owner = NoOne /\ Cardinality(Slots) < MaxLocations
    /\ shut' = [shut EXCEPT ![l] = 0]
    /\ UNCHANGED <<month, paid, sched, owner, request>>

\* The checkout endpoints and the subscription-deleted webhook update the
\* group's row, so they wait for its owner.
ChangePlan ==
    /\ owner = NoOne
    /\ paid' = ~paid
    /\ UNCHANGED <<month, shut, sched, owner, request>>

\* (Mutant: this month's as well.)
Stale_ThisMonth == {i \in Ids : sched[i] # NoSched /\ sched[i].status # "approved"}

\* run_data_retention deletes old schedules nobody approved, and none of
\* this month's.
Stale == {i \in Ids : /\ sched[i] # NoSched
                      /\ sched[i].status # "approved"
                      /\ sched[i].born < month}

Retention ==
    /\ \E S \in SUBSET Stale :
          sched' = [i \in Ids |-> IF i \in S THEN NoSched ELSE sched[i]]
    /\ UNCHANGED <<month, paid, shut, owner, request>>

Tick ==
    /\ month < MaxMonth
    /\ month' = month + 1
    /\ UNCHANGED <<paid, shut, sched, owner, request>>

Next ==
    \/ \E r \in Runs :
          \/ Gate(r) \/ Resolve(r) \/ Relock(r) \/ Skip(r) \/ LockGroup(r)
          \/ Recheck(r) \/ Insert(r) \/ EndRun(r)
    \/ \E i \in Ids : Approve(i) \/ Reject(i)
    \/ \E l \in Locs : Archive(l) \/ Restore(l)
    \/ ChangePlan \/ Retention \/ Tick

Spec == Init /\ [][Next]_vars

-----------------------------------------------------------------------------
(* Properties *)

\* Every variable has its type; in particular every schedule has a month it
\* counts in.
TypeOK ==
    /\ month \in Months
    /\ paid \in BOOLEAN
    /\ shut \in [Locs -> 0..MaxMonth]
    /\ sched \in [Ids -> Sched \cup {NoSched}]
    /\ owner \in Runs \cup {NoOne}
    /\ pc \in [Runs -> PCs]
    /\ week \in [Runs -> Weeks \cup {NoWeek}]
    /\ todo \in [Runs -> SUBSET Locs]
    /\ txn \in [Runs -> Txn \cup {NoTxn}]

\* However runs, sibling companies and cancellations interleave, the month of
\* a free group goes as MonthlyAllowance allows: no more attempts, locations
\* or weeks than the plan has (location_quota.py, the rules at its top).
Allowance == INSTANCE MonthlyAllowance
                 WITH attempts <- [l \in Locs |-> Cardinality(Attempts(l))],
                      weeks <- [l \in Locs |-> {sched[i].week : i \in Attempts(l)}]

AllowanceKept == Allowance!Spec

\* What a free group has used up stays used up until the month ends or it
\* pays, except that a manager who rejects a schedule gets its slot back:
\* archive and restore, retention and crashes hand nothing back (#126).
RefusalStands ==
    [][\A l \in Locs, w \in Weeks :
          ~Allowed(l, w) /\ Allowed(l, w)' /\ ~paid' /\ month' = month
             => \E i \in Attempts(l) :
                   /\ sched[i].status # "rejected"
                   /\ sched' = [sched EXCEPT ![i].status = "rejected"]]_vars
=============================================================================
