------------------------ MODULE LocationQuotaProofs ------------------------
(***************************************************************************)
(* Theorems about the monthly allowance, for any number of runs,           *)
(* locations and weeks, and any limits.                                    *)
(*                                                                         *)
(* The inductive invariant says that a run between its re-check and its    *)
(* insert owns the group's row, and that the room it saw is still there.   *)
(***************************************************************************)
EXTENDS LocationQuota, FiniteSetTheorems, TLAPS

\* The part of the verdict nobody but the owner of the group's row can undo.
Room(l, w) ==
    \/ paid
    \/ Attempts(l) = {} /\ Cardinality(Started) < MaxLocations
    \/ /\ \E i \in Attempts(l) : sched[i].week = w
       /\ Cardinality(Attempts(l)) < MaxAttempts

RunInv(r) ==
    /\ pc[r] # "idle" => week[r] \in Weeks
    /\ pc[r] \in {"wait", "recheck", "insert"} => txn[r] \in Txn /\ txn[r].born <= month
    /\ pc[r] \in {"recheck", "insert"} => owner = r
    /\ pc[r] = "insert" => Room(txn[r].loc, week[r])

\* No schedule is from a month to come.
BornInv == \A i \in Ids : sched[i] # NoSched => sched[i].born <= month

IInv == TypeOK /\ BornInv /\ \A r \in Runs : RunInv(r)

-----------------------------------------------------------------------------
(* Lemmas about the verdict *)

\* The sets the verdict counts are finite.
LEMMA Countable ==
    ASSUME TypeOK
    PROVE  /\ IsFiniteSet(Started) /\ Cardinality(Started) \in Nat
           /\ \A l : /\ IsFiniteSet(Attempts(l)) /\ Cardinality(Attempts(l)) \in Nat
                     /\ IsFiniteSet(Held(l)) /\ Cardinality(Held(l)) \in Nat
<1>1. IsFiniteSet(Ids)
  BY QuotaAssumption, FS_Interval DEF Ids
<1>2. Started \subseteq Locs
  BY DEF Started, ThisMonth, TypeOK, Sched
<1>3. IsFiniteSet(Started) /\ Cardinality(Started) \in Nat
  BY <1>2, QuotaAssumption, FS_Subset, FS_CardinalityType
<1>4. ASSUME NEW l
      PROVE  /\ IsFiniteSet(Attempts(l)) /\ Cardinality(Attempts(l)) \in Nat
             /\ IsFiniteSet(Held(l)) /\ Cardinality(Held(l)) \in Nat
  <2>1. Attempts(l) \subseteq Ids /\ Held(l) \subseteq Ids
    BY DEF Attempts, Held, ThisMonth
  <2> QED
    BY <1>1, <2>1, FS_Subset, FS_CardinalityType
<1> QED
  BY <1>3, <1>4

\* A location has started its month when it has attempts in it.
LEMMA StartedByAttempts ==
    ASSUME NEW l
    PROVE  l \in Started <=> Attempts(l) # {}
BY DEF Started, Attempts

\* The verdict finds room.
LEMMA AllowedHasRoom ==
    ASSUME TypeOK, NEW l, NEW w, Allowed(l, w)
    PROVE  Room(l, w)
<1>1. CASE paid
  BY <1>1 DEF Room
<1>2. CASE ~paid /\ Attempts(l) = {}
  <2>1. StartsLeft > 0
    BY <1>2, StartedByAttempts DEF Allowed
  <2> QED
    BY <1>2, <2>1 DEF StartsLeft, Room
<1>3. CASE ~paid /\ Attempts(l) # {}
  BY <1>3 DEF Allowed, Fits, Room
<1> QED
  BY <1>1, <1>2, <1>3

\* Steps of others that leave this month's schedules where they are.
SameMonth ==
    /\ month' = month
    /\ ThisMonth' = ThisMonth
    /\ \A i \in ThisMonth :
          sched'[i].loc = sched[i].loc /\ sched'[i].week = sched[i].week

WeeksOf(l) == {sched[i].week : i \in Attempts(l)}

LEMMA SameBooks ==
    ASSUME SameMonth
    PROVE  /\ Started' = Started
           /\ \A l : Attempts(l)' = Attempts(l) /\ WeeksOf(l)' = WeeksOf(l)
<1>1. \A l : Attempts(l)' = Attempts(l)
  BY DEF SameMonth, Attempts
<1>2. Started' = Started
  BY DEF SameMonth, Started
<1>3. \A l : WeeksOf(l)' = WeeksOf(l)
  BY <1>1 DEF SameMonth, WeeksOf, Attempts
<1> QED
  BY <1>1, <1>2, <1>3

\* ... leave the room of a plan that does not change.
LEMMA SameRoom ==
    ASSUME SameMonth, paid' = paid, NEW l, NEW w, Room(l, w)
    PROVE  Room(l, w)'
<1>1. (\E i \in Attempts(l) : sched[i].week = w) <=> w \in WeeksOf(l)
  BY DEF WeeksOf
<1>2. (\E i \in Attempts(l)' : sched'[i].week = w) <=> w \in WeeksOf(l)'
  BY DEF WeeksOf
<1> QED
  BY <1>1, <1>2, SameBooks DEF Room

\* In a new month nothing has been used.
LEMMA NewMonthIsEmpty ==
    ASSUME TypeOK, BornInv, month' = month + 1, sched' = sched
    PROVE  /\ Started' = {} /\ \A l : Attempts(l)' = {} /\ WeeksOf(l)' = {}
<1>1. ThisMonth' = {}
  <2> SUFFICES ASSUME NEW i \in Ids, sched[i] # NoSched, sched[i].born = month + 1
               PROVE  FALSE
    BY DEF ThisMonth
  <2>1. sched[i].born <= month /\ month \in Nat
    BY DEF BornInv, TypeOK, Months
  <2> QED
    BY <2>1
<1> QED
  BY <1>1 DEF Started, Attempts, WeeksOf

-----------------------------------------------------------------------------
(* What each step does to the schedules *)

\* A step of a run other than its insert, and every step of the environment
\* but Tick, leaves this month as it is.
LEMMA QuietSteps ==
    ASSUME TypeOK, [Next]_vars,
           \A r \in Runs : ~Insert(r),
           ~Tick
    PROVE  SameMonth
<1>1. CASE \E r \in Runs : \/ Gate(r) \/ Resolve(r) \/ Relock(r) \/ Skip(r)
                           \/ LockGroup(r) \/ Recheck(r) \/ EndRun(r)
  BY <1>1 DEF Gate, Resolve, Relock, Skip, LockGroup, Recheck, EndRun, SameMonth, ThisMonth
<1>2. ASSUME NEW i \in Ids, Approve(i) \/ Reject(i)
      PROVE  SameMonth
  <2>1. PICK s \in {"approved", "rejected"} : sched' = [sched EXCEPT ![i].status = s]
    BY <1>2 DEF Approve, Reject
  <2>2. sched[i] \in Sched /\ month' = month
    BY <1>2 DEF Approve, Reject, TypeOK
  <2>3. sched'[i] \in Sched /\ sched'[i] = [sched[i] EXCEPT !.status = s]
    BY <2>1, <2>2 DEF TypeOK, Sched
  <2>4. \A j \in Ids \ {i} : sched'[j] = sched[j]
    BY <2>1 DEF TypeOK
  <2> QED
    BY <2>2, <2>3, <2>4, QuotaAssumption DEF SameMonth, ThisMonth, Sched
<1>3. ASSUME NEW l \in Locs, Archive(l)
      PROVE  SameMonth
  <2>1. ASSUME NEW i \in DraftsAt(l)
        PROVE  /\ sched'[i] = [sched[i] EXCEPT !.status = "discarded"]
               /\ sched[i] \in Sched /\ sched'[i] \in Sched
    BY <1>3 DEF Archive, DraftsAt, TypeOK, Sched
  <2>2. \A i \in Ids \ DraftsAt(l) : sched'[i] = sched[i]
    BY <1>3 DEF Archive
  <2>3. month' = month
    BY <1>3 DEF Archive
  <2>4. ASSUME NEW i \in Ids
        PROVE  /\ sched'[i] # NoSched <=> sched[i] # NoSched
               /\ sched[i] # NoSched => /\ sched'[i].loc = sched[i].loc
                                       /\ sched'[i].week = sched[i].week
                                       /\ sched'[i].born = sched[i].born
    <3>1. CASE i \in DraftsAt(l)
      BY <2>1, <3>1, QuotaAssumption DEF Sched
    <3>2. CASE i \notin DraftsAt(l)
      BY <2>2, <3>2
    <3> QED
      BY <3>1, <3>2
  <2> QED
    BY <2>3, <2>4 DEF SameMonth, ThisMonth
<1>4. CASE Retention
  <2>1. PICK S \in SUBSET Stale :
               sched' = [i \in Ids |-> IF i \in S THEN NoSched ELSE sched[i]]
    BY <1>4 DEF Retention
  <2>2. ThisMonth \cap S = {}
    BY <2>1 DEF ThisMonth, Stale, TypeOK, Sched, Months
  <2>3. month' = month
    BY <1>4 DEF Retention
  <2> QED
    BY <2>1, <2>2, <2>3 DEF SameMonth, ThisMonth
<1>5. CASE (\E l \in Locs : Restore(l)) \/ ChangePlan \/ UNCHANGED vars
  BY <1>5 DEF Restore, ChangePlan, vars, SameMonth, ThisMonth
<1> QED
  BY <1>1, <1>2, <1>3, <1>4, <1>5 DEF Next

\* An insert adds one schedule, of the location and week the run had room for.
LEMMA InsertAdds ==
    ASSUME IInv, NEW r \in Runs, Insert(r)
    PROVE  /\ month' = month /\ paid' = paid
           /\ txn[r] \in Txn /\ week[r] \in Weeks /\ NewSched(r) \in Sched
           /\ Room(txn[r].loc, week[r])
           /\ \E i \in Ids : /\ sched[i] = NoSched
                             /\ sched' = [sched EXCEPT ![i] = NewSched(r)]
<1>1. txn[r] \in Txn /\ week[r] \in Weeks /\ Room(txn[r].loc, week[r])
  BY DEF IInv, RunInv, Insert
<1>2. NewSched(r) \in Sched
  BY <1>1 DEF NewSched, Txn, Sched
<1> QED
  BY <1>1, <1>2 DEF Insert

-----------------------------------------------------------------------------
(* The invariant *)

LEMMA TypeInit == Init => IInv
BY QuotaAssumption DEF Init, IInv, TypeOK, BornInv, RunInv, Months, PCs

LEMMA TypeStep ==
    ASSUME IInv, [Next]_vars
    PROVE  TypeOK'
<1> USE DEF IInv
<1>0. month \in Nat /\ MaxMonth \in Nat /\ 1 <= month /\ month <= MaxMonth
  BY QuotaAssumption DEF TypeOK, Months
<1>1. ASSUME NEW r \in Runs,
             Gate(r) \/ Resolve(r) \/ Skip(r) \/ LockGroup(r)
      PROVE  TypeOK'
  BY <1>1 DEF Gate, Resolve, Skip, LockGroup, TypeOK, PCs, Goto, Batch, Active
<1>2. ASSUME NEW r \in Runs, Relock(r)
      PROVE  TypeOK'
  <2>1. PICK l \in todo[r] : /\ todo' = [todo EXCEPT ![r] = @ \ {l}]
                             /\ txn' = [txn EXCEPT ![r] = [loc |-> l, born |-> month]]
    BY <1>2 DEF Relock
  <2>2. [loc |-> l, born |-> month] \in Txn
    BY <2>1 DEF Txn, TypeOK
  <2> QED
    BY <1>2, <2>1, <2>2 DEF Relock, TypeOK, PCs, Goto
<1>3. ASSUME NEW r \in Runs, Recheck(r) \/ EndRun(r)
      PROVE  TypeOK'
  BY <1>3 DEF Recheck, EndRun, NextLocation, EndRequest, Unlock, Goto, TypeOK, PCs
<1>4. ASSUME NEW r \in Runs, Insert(r)
      PROVE  TypeOK'
  <2>1. sched' \in [Ids -> Sched \cup {NoSched}]
    BY <1>4, InsertAdds DEF TypeOK
  <2> QED
    BY <1>4, <2>1 DEF Insert, NextLocation, Unlock, Goto, TypeOK, PCs
<1>5. ASSUME NEW i \in Ids, Approve(i) \/ Reject(i)
      PROVE  TypeOK'
  <2>1. PICK s \in {"approved", "rejected"} : sched' = [sched EXCEPT ![i].status = s]
    BY <1>5 DEF Approve, Reject
  <2>2. sched[i] \in Sched
    BY <1>5 DEF Approve, Reject, TypeOK
  <2>3. sched' \in [Ids -> Sched \cup {NoSched}]
    BY <2>1, <2>2 DEF TypeOK, Sched
  <2> QED
    BY <1>5, <2>3 DEF Approve, Reject, TypeOK, request
<1>6. ASSUME NEW l \in Locs, Archive(l)
      PROVE  TypeOK'
  <2>1. sched' \in [Ids -> Sched \cup {NoSched}]
    BY <1>6 DEF Archive, DraftsAt, TypeOK, Sched
  <2> QED
    BY <1>6, <2>1, <1>0 DEF Archive, TypeOK, request, Months
<1>7. CASE \E l \in Locs : Restore(l)
  <2>1. shut' \in [Locs -> 0..MaxMonth]
    BY <1>7, <1>0 DEF Restore, TypeOK
  <2> QED
    BY <1>7, <2>1 DEF Restore, TypeOK, request
<1>8. CASE Retention
  BY <1>8 DEF Retention, TypeOK, request
<1>9. CASE Tick
  BY <1>9, <1>0 DEF Tick, TypeOK, request, Months
<1>10. CASE ChangePlan
  BY <1>10 DEF ChangePlan, TypeOK, request
<1>11. CASE UNCHANGED vars
  BY <1>11 DEF vars, request, TypeOK
<1> QED
  BY <1>1, <1>2, <1>3, <1>4, <1>5, <1>6, <1>7, <1>8, <1>9, <1>10, <1>11 DEF Next

LEMMA BornStep ==
    ASSUME IInv, [Next]_vars
    PROVE  BornInv'
<1> USE DEF IInv
<1>0. month \in Nat
  BY DEF TypeOK, Months
<1>1. CASE Tick
  BY <1>1, <1>0 DEF Tick, BornInv, TypeOK, Sched, Months
<1>2. ASSUME NEW r \in Runs, Insert(r)
      PROVE  BornInv'
  <2>1. txn[r].born <= month
    BY <1>2 DEF RunInv, Insert
  <2>2. PICK j \in Ids : sched' = [sched EXCEPT ![j] = NewSched(r)]
    BY <1>2, InsertAdds
  <2>3. month' = month /\ NewSched(r).born <= month
    BY <1>2, <2>1, InsertAdds DEF NewSched
  <2> QED
    BY <2>2, <2>3 DEF BornInv, TypeOK
<1>3. ASSUME NEW r \in Runs, \/ Gate(r) \/ Resolve(r) \/ Relock(r) \/ Skip(r)
                             \/ LockGroup(r) \/ Recheck(r) \/ EndRun(r)
      PROVE  BornInv'
  BY <1>3 DEF Gate, Resolve, Relock, Skip, LockGroup, Recheck, EndRun, BornInv
<1>4. ASSUME NEW i \in Ids, Approve(i) \/ Reject(i)
      PROVE  BornInv'
  <2>1. PICK s \in {"approved", "rejected"} : sched' = [sched EXCEPT ![i].status = s]
    BY <1>4 DEF Approve, Reject
  <2>2. sched[i] \in Sched /\ sched[i] # NoSched /\ month' = month
    BY <1>4 DEF Approve, Reject, TypeOK
  <2> QED
    BY <2>1, <2>2 DEF BornInv, TypeOK, Sched
<1>5. ASSUME NEW l \in Locs, Archive(l)
      PROVE  BornInv'
  BY <1>5 DEF Archive, DraftsAt, BornInv, TypeOK, Sched
<1>6. CASE (\E l \in Locs : Restore(l)) \/ ChangePlan \/ Retention \/ UNCHANGED vars
  BY <1>6 DEF Restore, ChangePlan, Retention, vars, BornInv
<1> QED
  BY <1>1, <1>2, <1>3, <1>4, <1>5, <1>6 DEF Next

\* A run that waits for its turn, or has it, is not disturbed by a step that
\* leaves its own state, the plan and the month alone.
LEMMA Undisturbed ==
    ASSUME NEW r \in Runs, RunInv(r),
           pc'[r] = pc[r], week'[r] = week[r], txn'[r] = txn[r],
           owner = r => owner' = r,
           SameMonth, paid' = paid
    PROVE  RunInv(r)'
BY SameRoom DEF RunInv, SameMonth

\* The run that takes a step.
LEMMA OwnStep ==
    ASSUME IInv, NEW r \in Runs,
           \/ Gate(r) \/ Resolve(r) \/ Relock(r) \/ Skip(r)
           \/ LockGroup(r) \/ Recheck(r) \/ Insert(r) \/ EndRun(r)
    PROVE  RunInv(r)'
<1> USE DEF IInv, Goto
<1>0. RunInv(r) /\ month' = month /\ month \in Nat
  BY DEF TypeOK, Months, Gate, Resolve, Relock, Skip, LockGroup, Recheck, Insert, EndRun
<1>1. CASE Gate(r)
  BY <1>1 DEF Gate, RunInv, TypeOK
<1>2. CASE Resolve(r) \/ Skip(r)
  BY <1>0, <1>2 DEF Resolve, Skip, RunInv, TypeOK
<1>3. CASE Relock(r)
  <2>1. PICK l \in todo[r] : txn' = [txn EXCEPT ![r] = [loc |-> l, born |-> month]]
    BY <1>3 DEF Relock
  <2>2. txn'[r] = [loc |-> l, born |-> month] /\ txn'[r] \in Txn
    BY <2>1 DEF TypeOK, Txn
  <2> QED
    BY <1>0, <1>3, <2>2 DEF Relock, RunInv, TypeOK
<1>4. CASE LockGroup(r)
  BY <1>0, <1>4 DEF LockGroup, RunInv, TypeOK
<1>5. CASE Recheck(r)
  <2>1. CASE Allowed(txn[r].loc, week[r]) /\ pc' = [pc EXCEPT ![r] = "insert"] /\ UNCHANGED <<owner, txn>>
    <3>1. SameMonth /\ UNCHANGED <<week, paid, sched>>
      BY <1>5 DEF Recheck, SameMonth, ThisMonth
    <3>2. Room(txn[r].loc, week[r])'
      BY <2>1, <3>1, AllowedHasRoom, SameRoom
    <3> QED
      BY <1>0, <1>5, <2>1, <3>1, <3>2 DEF Recheck, RunInv, TypeOK
  <2>2. CASE NextLocation(r)
    BY <1>0, <1>5, <2>2 DEF Recheck, NextLocation, RunInv, TypeOK
  <2> QED
    BY <1>5, <2>1, <2>2 DEF Recheck
<1>6. CASE Insert(r)
  BY <1>0, <1>6 DEF Insert, NextLocation, RunInv, TypeOK
<1>7. CASE EndRun(r)
  BY <1>7 DEF EndRun, EndRequest, RunInv, TypeOK
<1> QED
  BY <1>1, <1>2, <1>3, <1>4, <1>5, <1>6, <1>7

\* Everybody else.
LEMMA OthersStep ==
    ASSUME IInv, NEW r \in Runs, NEW q \in Runs \ {r},
           \/ Gate(r) \/ Resolve(r) \/ Relock(r) \/ Skip(r)
           \/ LockGroup(r) \/ Recheck(r) \/ Insert(r) \/ EndRun(r)
    PROVE  RunInv(q)'
<1> USE DEF IInv
<1>1. /\ pc'[q] = pc[q] /\ week'[q] = week[q] /\ txn'[q] = txn[q]
      /\ UNCHANGED <<month, paid>>
  BY DEF Gate, Resolve, Relock, Skip, LockGroup, Recheck, Insert, EndRun,
         NextLocation, EndRequest, Goto, TypeOK
<1>2. owner = q => owner' = q
  BY QuotaAssumption
     DEF Gate, Resolve, Relock, Skip, LockGroup, Recheck, Insert, EndRun,
         NextLocation, EndRequest, Unlock
<1>3. CASE Insert(r)
  <2>1. owner = r
    BY <1>3 DEF Insert, RunInv
  <2>2. pc[q] \notin {"recheck", "insert"}
    BY <2>1 DEF RunInv
  <2> QED
    BY <1>1, <2>2 DEF RunInv
<1>4. CASE ~Insert(r)
  <2>1. SameMonth
    BY <1>4 DEF Gate, Resolve, Relock, Skip, LockGroup, Recheck, EndRun, SameMonth, ThisMonth
  <2> QED
    BY <1>1, <1>2, <2>1, Undisturbed
<1> QED
  BY <1>3, <1>4

LEMMA RunStep ==
    ASSUME IInv, [Next]_vars, NEW q \in Runs
    PROVE  RunInv(q)'
<1> USE DEF IInv
<1>1. ASSUME NEW r \in Runs,
             \/ Gate(r) \/ Resolve(r) \/ Relock(r) \/ Skip(r)
             \/ LockGroup(r) \/ Recheck(r) \/ Insert(r) \/ EndRun(r)
      PROVE  RunInv(q)'
  BY <1>1, OwnStep, OthersStep
<1>2. CASE Tick
  <2>1. month \in Nat /\ month' = month + 1 /\ UNCHANGED <<sched, paid, owner, request>>
    BY <1>2 DEF Tick, TypeOK, Months
  <2>2. Started' = {} /\ Attempts(txn[q].loc)' = {}
    BY <2>1, NewMonthIsEmpty
  <2>3. Room(txn[q].loc, week[q])'
    BY <2>1, <2>2, FS_EmptySet, QuotaAssumption DEF Room, request
  <2>4. txn[q] \in Txn => txn[q].born \in Nat
    BY DEF Txn, Months
  <2> QED
    BY <2>1, <2>3, <2>4 DEF RunInv, request
<1>3. CASE ChangePlan
  <2>1. pc[q] \notin {"recheck", "insert"}
    BY <1>3, QuotaAssumption DEF ChangePlan, RunInv
  <2> QED
    BY <1>3, <2>1 DEF ChangePlan, RunInv, request
<1>4. ASSUME \/ \E i \in Ids : Approve(i) \/ Reject(i)
             \/ \E l \in Locs : Archive(l) \/ Restore(l)
             \/ Retention
             \/ UNCHANGED vars
      PROVE  RunInv(q)'
  <2>1. UNCHANGED <<paid, owner, request>> /\ SameMonth
    <3>1. UNCHANGED <<month, paid, owner, pc, week, txn, todo>>
      BY <1>4 DEF Approve, Reject, Archive, Restore, Retention, vars, request
    <3>2. ~Tick
      BY <3>1 DEF Tick, TypeOK, Months
    <3>3. \A r \in Runs : ~Insert(r)
      BY <3>1 DEF Insert, NextLocation, Goto, TypeOK
    <3> QED
      BY <3>1, <3>2, <3>3, QuietSteps DEF request
  <2> QED
    BY <2>1, Undisturbed DEF request
<1> QED
  BY <1>1, <1>2, <1>3, <1>4 DEF Next

\* A run that may insert owns the group's row, and has room.
THEOREM Invariant == Spec => []IInv
<1>1. IInv /\ [Next]_vars => IInv'
  BY TypeStep, BornStep, RunStep DEF IInv
<1> QED
  BY <1>1, TypeInit, PTL DEF Spec

\* Every variable keeps its type.
THEOREM TypeCorrect == Spec => []TypeOK
BY Invariant, PTL DEF IInv

-----------------------------------------------------------------------------
(* The allowance *)

\* Begun, as the abstract specification counts it, is Started.
LEMMA BegunIsStarted ==
    ASSUME TypeOK
    PROVE  Allowance!Begun = Started
<1>1. \A l \in Locs : Cardinality(Attempts(l)) > 0 <=> l \in Started
  BY Countable, StartedByAttempts, FS_EmptySet
<1>2. Started \subseteq Locs
  BY DEF Started, ThisMonth, TypeOK, Sched
<1> QED
  BY <1>1, <1>2 DEF Allowance!Begun

\* An insert is a generation of this month, or was counted in an earlier one.
LEMMA InsertGenerates ==
    ASSUME IInv, NEW r \in Runs, Insert(r)
    PROVE  Allowance!Next \/ UNCHANGED Allowance!allowanceVars
<1> USE DEF IInv
<1>0. PICK l \in Locs, w \in Weeks : l = txn[r].loc /\ w = week[r]
  BY InsertAdds DEF Txn
<1>1. PICK i \in Ids : sched[i] = NoSched /\ sched' = [sched EXCEPT ![i] = NewSched(r)]
  BY InsertAdds
<1>2. /\ month' = month /\ paid' = paid
      /\ NewSched(r) \in Sched /\ NewSched(r) # NoSched
      /\ NewSched(r).loc = l /\ NewSched(r).week = w /\ NewSched(r).born = txn[r].born
      /\ Room(l, w)
  BY <1>0, InsertAdds, QuotaAssumption DEF NewSched
<1>3. sched'[i] = NewSched(r) /\ \A j \in Ids \ {i} : sched'[j] = sched[j]
  BY <1>1 DEF TypeOK
<1>4. i \notin ThisMonth /\ ThisMonth \subseteq Ids
  BY <1>1 DEF ThisMonth
<1>5. CASE txn[r].born # month
  <2>1. SameMonth
    BY <1>2, <1>3, <1>4, <1>5 DEF SameMonth, ThisMonth
  <2> QED
    BY <1>2, <2>1, SameBooks DEF Allowance!allowanceVars, WeeksOf
<1>6. CASE txn[r].born = month
  <2>1. ThisMonth' = ThisMonth \cup {i}
    BY <1>2, <1>3, <1>4, <1>6 DEF ThisMonth
  <2>2. Attempts(l)' = Attempts(l) \cup {i} /\ i \notin Attempts(l)
    BY <1>2, <1>3, <1>4, <2>1 DEF Attempts
  <2>3. \A m \in Locs \ {l} : Attempts(m)' = Attempts(m)
    BY <1>2, <1>3, <1>4, <2>1 DEF Attempts
  <2>4. WeeksOf(l)' = WeeksOf(l) \cup {w}
    BY <1>2, <1>3, <2>2, <1>4 DEF WeeksOf, Attempts
  <2>5. \A m \in Locs \ {l} : WeeksOf(m)' = WeeksOf(m)
    BY <1>3, <2>3, <1>4 DEF WeeksOf, Attempts
  <2>6. Cardinality(Attempts(l)') = Cardinality(Attempts(l)) + 1
    BY <2>2, Countable, FS_AddElement
  <2>7. Allowance!MayGenerate(l, w)
    <3>1. CASE paid
      BY <3>1 DEF Allowance!MayGenerate
    <3>2. CASE Attempts(l) = {} /\ Cardinality(Started) < MaxLocations
      <4>1. Allowance!Cardinality(Started) = Cardinality(Started)
        BY DEF Allowance!Cardinality, Cardinality
      <4> QED
        BY <3>2, <4>1, BegunIsStarted, FS_EmptySet DEF Allowance!MayGenerate
    <3>3. CASE (\E j \in Attempts(l) : sched[j].week = w) /\ Cardinality(Attempts(l)) < MaxAttempts
      BY <3>3 DEF Allowance!MayGenerate
    <3> QED
      BY <1>2, <3>1, <3>2, <3>3 DEF Room
  <2>8. Allowance!Generate(l, w)
    BY <1>2, <2>3, <2>4, <2>5, <2>6, <2>7 DEF Allowance!Generate, WeeksOf
  <2> QED
    BY <1>2, <2>8 DEF Allowance!Next
<1> QED
  BY <1>5, <1>6

\* The code keeps to the monthly allowance: three checks of which only the
\* last is under a lock do, together, what one atomic check would.
THEOREM Refinement == Spec => AllowanceKept
<1>1. Init => Allowance!Init
  <2> SUFFICES ASSUME Init
               PROVE  Allowance!Init
    OBVIOUS
  <2>1. \A l : Attempts(l) = {}
    BY DEF Init, Attempts, ThisMonth
  <2> QED
    BY <2>1, FS_EmptySet DEF Init, Allowance!Init, Allowance!FreshMonth
<1>2. IInv /\ [Next]_vars => [Allowance!Next]_(Allowance!allowanceVars)
  <2> SUFFICES ASSUME IInv, [Next]_vars
               PROVE  Allowance!Next \/ UNCHANGED Allowance!allowanceVars
    OBVIOUS
  <2>1. CASE \E r \in Runs : Insert(r)
    BY <2>1, InsertGenerates
  <2>2. CASE Tick
    <3>1. \A l : Attempts(l)' = {} /\ WeeksOf(l)' = {}
      BY <2>2, NewMonthIsEmpty DEF Tick, IInv
    <3> QED
      BY <2>2, <3>1, FS_EmptySet
         DEF Tick, Allowance!Next, Allowance!NewMonth, Allowance!FreshMonth, WeeksOf
  <2>3. CASE (\A r \in Runs : ~Insert(r)) /\ ~Tick
    <3>1. \A l : Attempts(l)' = Attempts(l) /\ WeeksOf(l)' = WeeksOf(l)
      BY <2>3, QuietSteps, SameBooks DEF IInv
    <3>2. paid' = ~paid \/ paid' = paid
      BY <2>3 DEF Next, Gate, Resolve, Relock, Skip, LockGroup, Recheck, EndRun, Approve,
                  Reject, Archive, Restore, ChangePlan, Retention, vars
    <3> QED
      BY <3>1, <3>2 DEF Allowance!Next, Allowance!ChangePlan, Allowance!allowanceVars, WeeksOf
  <2> QED
    BY <2>1, <2>2, <2>3
<1> QED
  BY <1>1, <1>2, Invariant, PTL DEF Spec, AllowanceKept, Allowance!Spec

-----------------------------------------------------------------------------
(* What a refusal is worth *)

\* Sets of ids are finite, and the larger has the larger cardinality.
LEMMA SomeIds ==
    ASSUME NEW S, NEW T, S \subseteq T, T \subseteq Ids
    PROVE  /\ Cardinality(S) \in Nat /\ Cardinality(T) \in Nat
           /\ Cardinality(S) <= Cardinality(T)
<1>1. IsFiniteSet(Ids)
  BY QuotaAssumption, FS_Interval DEF Ids
<1>2. IsFiniteSet(T)
  BY <1>1, FS_Subset
<1> QED
  BY <1>2, FS_Subset, FS_CardinalityType

\* With more attempts, more held and as many weeks, a location fits no better.
LEMMA FitsShrinks ==
    ASSUME TypeOK, TypeOK', NEW l, NEW w,
           Attempts(l) \subseteq Attempts(l)', Held(l) \subseteq Held(l)',
           w \in WeeksOf(l)' => w \in WeeksOf(l) \/ Attempts(l) = {},
           Fits(l, w)'
    PROVE  Fits(l, w)
<1>0. /\ Attempts(l)' \subseteq Ids /\ Held(l)' \subseteq Ids
      /\ Attempts(l) \subseteq Ids /\ Held(l) \subseteq Ids
  BY DEF Attempts, Held, ThisMonth
<1>1. /\ Cardinality(Attempts(l)) <= Cardinality(Attempts(l)')
      /\ Cardinality(Attempts(l)) \in Nat /\ Cardinality(Attempts(l)') \in Nat
  BY <1>0, SomeIds
<1>2. /\ Cardinality(Held(l)) <= Cardinality(Held(l)')
      /\ Cardinality(Held(l)) \in Nat /\ Cardinality(Held(l)') \in Nat
  BY <1>0, SomeIds
<1>3. Attempts(l) = {} \/ \E i \in Attempts(l) : sched[i].week = w
  BY DEF Fits, WeeksOf
<1> QED
  BY <1>1, <1>2, <1>3, QuotaAssumption DEF Fits

\* ... so that it is not newly allowed, if it could start its month anyway.
LEMMA AllowedShrinks ==
    ASSUME TypeOK, TypeOK', NEW l, NEW w, ~paid',
           Attempts(l) \subseteq Attempts(l)', Held(l) \subseteq Held(l)',
           w \in WeeksOf(l)' => w \in WeeksOf(l) \/ Attempts(l) = {},
           Started \subseteq Started',
           l \in Started' => l \in Started \/ Cardinality(Started) < MaxLocations,
           Allowed(l, w)'
    PROVE  Allowed(l, w)
<1>1. Fits(l, w)' /\ (l \in Started' \/ StartsLeft' > 0)
  BY DEF Allowed
<1>2. Fits(l, w)
  BY <1>1, FitsShrinks
<1>3. Started' \subseteq Locs
  BY DEF Started, ThisMonth, TypeOK, Sched
<1>4. /\ Cardinality(Started) \in Nat /\ Cardinality(Started') \in Nat
      /\ Cardinality(Started) <= Cardinality(Started')
  BY <1>3, QuotaAssumption, FS_Subset, FS_CardinalityType
<1>5. l \in Started \/ Cardinality(Started) < MaxLocations
  BY <1>1, <1>4, QuotaAssumption DEF StartsLeft
<1>6. l \in Started \/ StartsLeft > 0
  BY <1>4, <1>5, QuotaAssumption DEF StartsLeft
<1> QED
  BY <1>2, <1>6 DEF Allowed

Rejects(l) ==
    \E i \in Attempts(l) : /\ sched[i].status # "rejected"
                           /\ sched' = [sched EXCEPT ![i].status = "rejected"]

\* Only a manager's reject lets go of a slot of this month.
LEMMA HeldStays ==
    ASSUME TypeOK, [Next]_vars, \A r \in Runs : ~Insert(r), ~Tick,
           NEW l, ~Rejects(l)
    PROVE  Held(l) \subseteq Held(l)'
<1>1. SameMonth /\ Attempts(l)' = Attempts(l)
  BY QuietSteps, SameBooks
<1> SUFFICES ASSUME NEW j \in Attempts(l), sched[j].status # "rejected"
             PROVE  sched'[j].status # "rejected"
  BY <1>1 DEF Held
<1>2. j \in Ids /\ j \in ThisMonth /\ sched[j] \in Sched /\ sched[j] # NoSched
  BY QuotaAssumption DEF Attempts, ThisMonth, TypeOK
<1>3. CASE sched' = sched
  BY <1>3
<1>4. ASSUME NEW i \in Ids, Approve(i)
      PROVE  sched'[j].status # "rejected"
  BY <1>2, <1>4 DEF Approve, TypeOK, Sched
<1>5. ASSUME NEW i \in Ids, Reject(i)
      PROVE  sched'[j].status # "rejected"
  <2>1. i # j
    BY <1>2, <1>5 DEF Reject, Rejects
  <2> QED
    BY <1>2, <1>5, <2>1 DEF Reject, TypeOK
<1>6. ASSUME NEW m \in Locs, Archive(m)
      PROVE  sched'[j].status # "rejected"
  BY <1>2, <1>6 DEF Archive, DraftsAt, Sched
<1>7. CASE Retention
  <2>1. PICK S \in SUBSET Stale :
               sched' = [i \in Ids |-> IF i \in S THEN NoSched ELSE sched[i]]
    BY <1>7 DEF Retention
  <2>2. j \notin S
    BY <1>2, <2>1 DEF ThisMonth, Stale, TypeOK, Sched, Months
  <2> QED
    BY <1>2, <2>1, <2>2
<1>8. \/ sched' = sched
      \/ \E i \in Ids : Approve(i) \/ Reject(i)
      \/ \E m \in Locs : Archive(m)
      \/ Retention
  BY DEF Next, Gate, Resolve, Relock, Skip, LockGroup, Recheck, EndRun, Restore, ChangePlan, vars
<1> QED
  BY <1>3, <1>4, <1>5, <1>6, <1>7, <1>8

\* An insert of another run's schedule allows no location it was not for.
LEMMA InsertRefuses ==
    ASSUME IInv, TypeOK', NEW r \in Runs, Insert(r), ~paid,
           NEW m \in Locs, NEW v \in Weeks, Allowed(m, v)'
    PROVE  Allowed(m, v)
<1> USE DEF IInv
<1>0. PICK l \in Locs, w \in Weeks : l = txn[r].loc /\ w = week[r]
  BY InsertAdds DEF Txn
<1>1. PICK i \in Ids : sched[i] = NoSched /\ sched' = [sched EXCEPT ![i] = NewSched(r)]
  BY InsertAdds
<1>2. /\ month' = month /\ paid' = paid
      /\ NewSched(r) # NoSched
      /\ NewSched(r).loc = l /\ NewSched(r).week = w /\ NewSched(r).status = "draft"
      /\ Room(l, w)
  BY <1>0, InsertAdds, QuotaAssumption DEF NewSched
<1>3. sched'[i] = NewSched(r) /\ \A j \in Ids \ {i} : sched'[j] = sched[j]
  BY <1>1 DEF TypeOK
<1>4. i \notin ThisMonth /\ ThisMonth \subseteq Ids
  BY <1>1 DEF ThisMonth
<1>5. ThisMonth \subseteq ThisMonth' /\ ThisMonth' \subseteq ThisMonth \cup {i}
  BY <1>2, <1>3, <1>4 DEF ThisMonth
<1>6. Attempts(m) \subseteq Attempts(m)' /\ Held(m) \subseteq Held(m)'
  BY <1>3, <1>4, <1>5 DEF Attempts, Held
<1>7. Started \subseteq Started' /\ Started' \subseteq Started \cup {l}
  BY <1>2, <1>3, <1>4, <1>5 DEF Started
<1>8. l \in Started \/ Cardinality(Started) < MaxLocations
  BY <1>2, StartedByAttempts DEF Room
<1>9. v \in WeeksOf(m)' => v \in WeeksOf(m) \/ (m = l /\ v = w)
  BY <1>2, <1>3, <1>4, <1>5 DEF WeeksOf, Attempts
<1>10. w \in WeeksOf(l) \/ Attempts(l) = {}
  BY <1>2 DEF Room, WeeksOf
<1> QED
  BY <1>2, <1>6, <1>7, <1>8, <1>9, <1>10, AllowedShrinks

\* What a free group was refused it stays refused this month, unless a manager
\* rejects one of that location's schedules.
THEOREM RefusalsStand == Spec => RefusalStands
<1> DEFINE Stands(l, w) ==
              ~Allowed(l, w) /\ Allowed(l, w)' /\ ~paid' /\ month' = month => Rejects(l)
<1>1. ASSUME IInv, [Next]_vars, NEW l \in Locs, NEW w \in Weeks
      PROVE  Stands(l, w)
  <2> SUFFICES ASSUME ~Allowed(l, w), Allowed(l, w)', ~paid', month' = month, ~Rejects(l)
               PROVE  FALSE
    OBVIOUS
  <2>1. TypeOK /\ TypeOK' /\ ~paid
    BY <1>1, TypeStep DEF IInv, Allowed
  <2>2. ~Tick
    BY <2>1 DEF Tick, TypeOK, Months
  <2>3. CASE \E r \in Runs : Insert(r)
    BY <1>1, <2>1, <2>3, InsertRefuses
  <2>4. CASE \A r \in Runs : ~Insert(r)
    <3>1. Started' = Started /\ Attempts(l)' = Attempts(l) /\ WeeksOf(l)' = WeeksOf(l)
      BY <1>1, <2>1, <2>2, <2>4, QuietSteps, SameBooks
    <3>2. Held(l) \subseteq Held(l)'
      BY <1>1, <2>1, <2>2, <2>4, HeldStays
    <3> QED
      BY <2>1, <3>1, <3>2, AllowedShrinks
  <2> QED
    BY <2>3, <2>4
<1>2. IInv /\ [Next]_vars => [\A l \in Locs, w \in Weeks : Stands(l, w)]_vars
  BY <1>1
<1> QED
  BY <1>2, Invariant, PTL DEF Spec, RefusalStands, Rejects
=============================================================================
