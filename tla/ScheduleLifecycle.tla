------------------------- MODULE ScheduleLifecycle -------------------------
(***************************************************************************)
(* The life of a schedule, from draft to approved shifts, while managers   *)
(* approve, edit and reject it and admins archive its location and its     *)
(* people: backend/routers/schedules.py and backend/services/archive.py.   *)
(*                                                                         *)
(* A request runs statements at READ COMMITTED.  It reads what is          *)
(* committed, may lock rows FOR UPDATE until it ends, and what it writes   *)
(* is seen when it commits; a write waits for the owner of its row.  The   *)
(* schedule lock is here only as a chance of a 409: its leases may run     *)
(* out, so what holds below rests on the row locks alone.                  *)
(*                                                                         *)
(* A draft has one entry (a place and a person, or nobody: an open shift). *)
(* Rows are named by their ids; the three tables' ids are disjoint.        *)
(***************************************************************************)
EXTENDS Naturals, FiniteSets

CONSTANTS
    Requests,   \* sessions; each serves one request after another
    Schedules,  \* shift_schedules rows
    Locs,       \* locations rows
    Employees,  \* employees rows
    Home,       \* ShiftSchedule.location_id
    Posted,     \* bound: the entries a manager may save in a draft
    MaxShifts,  \* bound: shifts one schedule ever has
    Open,       \* an open entry or shift: no employee
    NoOne,      \* no transaction owns this row
    NoShift,    \* an id not used yet
    Gone        \* a deleted shift

Rows == Schedules \cup Locs \cup Employees
Ids  == 1..MaxShifts

ASSUME LifecycleAssumption ==
    /\ Home \in [Schedules -> Locs]
    /\ MaxShifts \in Nat
    /\ NoOne \notin Requests
    /\ Open \notin Employees
    /\ Schedules \cap Locs = {} /\ Schedules \cap Employees = {} /\ Locs \cap Employees = {}

Entry == [loc : Locs, emp : Employees \cup {Open}]
Shift == [loc : Locs, emp : Employees \cup {Open},
          born : {"approval", "edit"}, past : BOOLEAN]

ASSUME ShiftAssumption ==
    /\ Posted \subseteq Entry
    /\ NoShift \notin Shift
    /\ Gone \notin Shift \cup Employees \cup {Open}
    /\ NoShift # Gone

VARIABLES
    status,  \* ShiftSchedule.status, "none" before it is generated
    entry,   \* ShiftSchedule.raw_llm_output
    shift,   \* the shifts rows of each schedule
    closed,  \* locations with archived_at set
    left,    \* employees with archived_at set
    owner,   \* which transaction owns the lock of a row
    pc,      \* where each request is
    job,     \* what it was asked to do
    gone,    \* locked_archived: those it locked who had left, as it read them
    cut      \* shifts its transaction has deleted and not committed

rows == <<status, entry, shift, closed, left>>
vars == <<rows, owner, pc, job, gone, cut>>

Idle == [op |-> "none"]

\* What can be asked: an edit gives shift i (or a new one, 0) to somebody,
\* opens it, or deletes it.
Job ==
    {Idle}
    \cup [op : {"approve", "reject"}, on : Schedules]
    \cup [op : {"edit"}, on : Schedules, id : Ids, to : Employees \cup {Open, Gone}]
    \cup [op : {"edit"}, on : Schedules, id : {0}, to : Employees \cup {Open}]
    \cup [op : {"update"}, on : Schedules, to : Posted]
    \cup [op : {"archive", "restore"}, on : Locs \cup Employees]

PCs == {"idle", "relock", "location", "employee", "write", "save", "archive", "discard"}

\* The statuses approve and edit serve; any other is a 4xx.
Serves(op) == IF op = "approve" THEN {"draft", "rejected"} ELSE {"approved"}

IsShift(s, i) == shift[s][i] \notin {NoShift, Gone}
Holder(s, i)  == IF i \in Ids /\ IsShift(s, i) THEN shift[s][i].emp ELSE Open
FreshIds(s)   == {i \in Ids : shift[s][i] = NoShift}

\* services.archive._future_approved: the shifts an archive may touch.
FutureApproved ==
    {x \in Schedules \X Ids :
        /\ status[x[1]] = "approved"
        /\ IsShift(x[1], x[2]) /\ ~shift[x[1]][x[2]].past}

At(x)  == shift[x[1]][x[2]]
Cut(r) == UNION {cut[q] : q \in Requests \ {r}}

Drafts(l) == {s \in Schedules : status[s] = "draft" /\ Home[s] = l}
-----------------------------------------------------------------------------
(* Row locks *)

Free(r, x) == owner[x] \in {NoOne, r}
Take(r, x) == owner' = [owner EXCEPT ![x] = r]
Goto(r, to) == pc' = [pc EXCEPT ![r] = to]

\* (Mutant: the foreign keys are not seen.)
Needs_Unreferenced(r) ==
    LET on == job[r].on IN
    CASE pc[r] \in {"relock", "save", "archive"} -> {on}
      [] pc[r] = "location" -> {Home[on]}
      [] pc[r] = "employee" /\ job[r].op = "approve" -> {entry[on].emp} \ {Open}
      [] pc[r] = "employee" /\ job[r].op = "edit" -> {job[r].to} \ {Open, Gone}
      [] pc[r] = "discard" -> Drafts(on)
      [] OTHER -> {}

\* The rows the next statement of r has to lock, or share.
Needs(r) ==
    LET on == job[r].on IN
    CASE pc[r] \in {"relock", "save", "archive"} -> {on}
      [] pc[r] = "location" -> {Home[on]}
      [] pc[r] = "employee" /\ job[r].op = "approve" -> {entry[on].emp} \ {Open}
      [] pc[r] = "employee" /\ job[r].op = "edit" -> {job[r].to} \ {Open, Gone}
      [] pc[r] = "write" /\ job[r].op = "approve" -> {entry[on].loc}
      [] pc[r] = "write" /\ job[r].op = "edit" /\ job[r].id = 0 -> {Home[on]}
      [] pc[r] = "discard" -> Drafts(on)
      [] OTHER -> {}

Ready(r) == \A x \in Needs(r) : Free(r, x)

\* The transaction ends: its row locks go and the session is free again.
End(r) ==
    /\ owner' = [x \in Rows |-> IF owner[x] = r THEN NoOne ELSE owner[x]]
    /\ Goto(r, "idle")
    /\ job' = [job EXCEPT ![r] = Idle]
    /\ gone' = [gone EXCEPT ![r] = {}]
    /\ cut' = [cut EXCEPT ![r] = {}]

\* A 4xx, a lost lease, a dead server: nothing is written.
Abort(r) == End(r) /\ UNCHANGED rows

-----------------------------------------------------------------------------
Init ==
    /\ status = [s \in Schedules |-> "none"]
    /\ entry = [s \in Schedules |-> [loc |-> Home[s], emp |-> Open]]
    /\ shift = [s \in Schedules |-> [i \in Ids |-> NoShift]]
    /\ closed = {}
    /\ left = {}
    /\ owner = [x \in Rows |-> NoOne]
    /\ pc = [r \in Requests |-> "idle"]
    /\ job = [r \in Requests |-> Idle]
    /\ gone = [r \in Requests |-> {}]
    /\ cut = [r \in Requests |-> {}]

-----------------------------------------------------------------------------
(* The first read of each request, which refuses what can be refused at once *)

Begin(r, what, at) ==
    /\ pc[r] = "idle"
    /\ job' = [job EXCEPT ![r] = what]
    /\ Goto(r, at)
    /\ UNCHANGED <<rows, owner, gone, cut>>

BeginApprove(r, s) ==
    /\ status[s] \in Serves("approve")
    /\ Begin(r, [op |-> "approve", on |-> s], "relock")

BeginEdit(r, s, i, to) ==
    /\ status[s] \in Serves("edit")
    /\ i = 0 => to # Gone
    /\ Begin(r, [op |-> "edit", on |-> s, id |-> i, to |-> to], "relock")

BeginUpdate(r, s, to) ==
    /\ status[s] \in {"draft", "rejected"}
    /\ Begin(r, [op |-> "update", on |-> s, to |-> to], "save")

BeginReject(r, s) ==
    /\ status[s] \in {"draft", "approved"}
    /\ Begin(r, [op |-> "reject", on |-> s], "save")

BeginArchive(r, x) ==
    /\ x \notin closed \cup left
    /\ Begin(r, [op |-> "archive", on |-> x], "archive")

BeginRestore(r, x) ==
    /\ x \in closed \cup left
    /\ Begin(r, [op |-> "restore", on |-> x], "save")

-----------------------------------------------------------------------------
(* approve_schedule and edit_approved_shifts *)

\* (Mutant: the status read before the lock is trusted.)
Relock_Trusting(r) ==
    /\ pc[r] = "relock" /\ Ready(r)
    /\ Take(r, job[r].on)
    /\ Goto(r, IF job[r].op = "approve" THEN "location" ELSE "employee")
    /\ UNCHANGED <<rows, job, gone, cut>>

\* _relock_schedule: the row FOR UPDATE, and its status once more.
Relock(r) ==
    /\ pc[r] = "relock" /\ Ready(r)
    /\ \/ /\ status[job[r].on] \in Serves(job[r].op)
          /\ Take(r, job[r].on)
          /\ Goto(r, IF job[r].op = "approve" THEN "location" ELSE "employee")
          /\ UNCHANGED <<rows, job, gone, cut>>
       \/ /\ status[job[r].on] \notin Serves(job[r].op)
          /\ Abort(r)

\* The schedule's location FOR UPDATE: an archived one is a 409.
LockLocation(r) ==
    /\ pc[r] = "location" /\ Ready(r)
    /\ LET l == Home[job[r].on] IN
       \/ l \in closed /\ Abort(r)
       \/ /\ l \notin closed
          /\ Take(r, l) /\ Goto(r, "employee")
          /\ UNCHANGED <<rows, job, gone, cut>>

\* (Mutant: the people are read without being locked.)
LockEmployee_Reading(r) ==
    /\ pc[r] = "employee" /\ Ready(r)
    /\ gone' = [gone EXCEPT ![r] = Needs(r) \cap left]
    /\ Goto(r, "write")
    /\ UNCHANGED <<rows, owner, job, cut>>

\* lock_employees: whoever is given a shift, FOR UPDATE, and who of them has
\* left.
LockEmployee(r) ==
    /\ pc[r] = "employee" /\ Ready(r)
    /\ owner' = [x \in Rows |-> IF x \in Needs(r) THEN r ELSE owner[x]]
    /\ gone' = [gone EXCEPT ![r] = Needs(r) \cap left]
    /\ Goto(r, "write")
    /\ UNCHANGED <<rows, job, cut>>

\* An approval materialises the entry, open if its person has left, and
\* commits; the foreign key to the location waits for an archive of it.
WriteApprove(r) ==
    /\ pc[r] = "write" /\ job[r].op = "approve" /\ Ready(r)
    /\ LET s == job[r].on
           e == entry[s].emp
       IN \E i \in FreshIds(s) :
          /\ \A j \in FreshIds(s) : i <= j
          /\ shift' = [shift EXCEPT ![s][i] =
                          [loc |-> entry[s].loc, emp |-> IF e \in gone[r] THEN Open ELSE e,
                           born |-> "approval", past |-> FALSE]]
          /\ status' = [status EXCEPT ![s] = "approved"]
    /\ End(r)
    /\ UNCHANGED <<entry, closed, left>>

\* (Mutant: a delete goes on to the assignment.)
Edited_Falling(x, to) == [x EXCEPT !.emp = to]

\* A deleted, opened or reassigned shift.
Edited(x, to) == IF to = Gone THEN Gone ELSE [x EXCEPT !.emp = to]

\* An edit adds a shift at the schedule's location, or changes one of its own.
\* Refused: somebody who has left and does not have the shift yet, a shift that
\* is gone, and one payroll has recorded.
WriteEdit(r) ==
    /\ pc[r] = "write" /\ job[r].op = "edit" /\ Ready(r)
    /\ LET s == job[r].on
           i == job[r].id
           to == job[r].to
           refused == to \in gone[r] /\ Holder(s, i) # to
       IN \/ /\ i = 0 /\ ~refused
             /\ \E n \in FreshIds(s) :
                   /\ \A j \in FreshIds(s) : n <= j
                   /\ shift' = [shift EXCEPT ![s][n] =
                         [loc |-> Home[s], emp |-> to, born |-> "edit", past |-> FALSE]]
             /\ End(r)
             /\ UNCHANGED <<status, entry, closed, left>>
          \/ /\ i # 0 /\ ~refused /\ IsShift(s, i) /\ <<s, i>> \notin Cut(r)
             /\ shift' = [shift EXCEPT ![s][i] = Edited(@, to)]
             /\ End(r)
             /\ UNCHANGED <<status, entry, closed, left>>
          \/ refused /\ Abort(r)
          \/ /\ i # 0
             /\ IsShift(s, i) => shift[s][i].past /\ to \in {Open, Gone}
             /\ Abort(r)

-----------------------------------------------------------------------------
(* update_shifts, reject_schedule and the restores: a write by id, whatever  *)
(* the row has become since it was read.                                     *)

Save(r) ==
    /\ pc[r] = "save" /\ Ready(r)
    /\ LET on == job[r].on IN
       \/ /\ job[r].op = "update"
          /\ entry' = [entry EXCEPT ![on] = job[r].to]
          /\ UNCHANGED <<status, shift, closed, left>>
       \/ /\ job[r].op = "reject"
          /\ status' = [status EXCEPT ![on] = "rejected"]
          /\ UNCHANGED <<entry, shift, closed, left>>
       \/ /\ job[r].op = "restore"
          /\ closed' = closed \ {on}
          /\ left' = left \ {on}
          /\ UNCHANGED <<status, entry, shift>>
    /\ End(r)

-----------------------------------------------------------------------------
(* archive_employee and archive_location *)

\* The employee's future shifts open; the UPDATE waits for a pending delete.
ArchiveEmployee(r) ==
    /\ pc[r] = "archive" /\ job[r].on \in Employees /\ Ready(r)
    /\ LET e == job[r].on
           mine == {x \in FutureApproved : At(x).emp = e}
       IN \/ e \in left /\ Abort(r)
          \/ /\ e \notin left
             /\ mine \cap Cut(r) = {}
             /\ shift' = [s \in Schedules |-> [i \in Ids |->
                             IF <<s, i>> \in mine THEN [shift[s][i] EXCEPT !.emp = Open]
                                                  ELSE shift[s][i]]]
             /\ left' = left \cup {e}
             /\ End(r)
             /\ UNCHANGED <<status, entry, closed>>

\* The location FOR UPDATE first, then its future shifts are deleted ...
ArchiveLocation(r) ==
    /\ pc[r] = "archive" /\ job[r].on \in Locs /\ Ready(r)
    /\ LET l == job[r].on IN
       \/ l \in closed /\ Abort(r)
       \/ /\ l \notin closed
          /\ Take(r, l)
          /\ cut' = [cut EXCEPT ![r] = {x \in FutureApproved : At(x).loc = l}]
          /\ Goto(r, "discard")
          /\ UNCHANGED <<rows, job, gone>>

\* ... then its drafts are discarded, each once its row is free, and all of it
\* is committed.
DiscardDrafts(r) ==
    /\ pc[r] = "discard" /\ Ready(r)
    /\ LET l == job[r].on IN
       /\ status' = [s \in Schedules |-> IF s \in Drafts(l) THEN "discarded" ELSE status[s]]
       /\ shift' = [s \in Schedules |-> [i \in Ids |->
                       IF <<s, i>> \in cut[r] THEN Gone ELSE shift[s][i]]]
       /\ closed' = closed \cup {l}
    /\ End(r)
    /\ UNCHANGED <<entry, left>>

-----------------------------------------------------------------------------
(* The rest *)

\* generate_schedule inserts a draft; its foreign key to the location waits.
Generate(s) ==
    /\ status[s] = "none"
    /\ owner[Home[s]] = NoOne
    /\ \E e \in Entry :
          /\ e.loc = Home[s]
          /\ entry' = [entry EXCEPT ![s] = e]
    /\ status' = [status EXCEPT ![s] = "draft"]
    /\ UNCHANGED <<shift, closed, left, owner, pc, job, gone, cut>>

\* A shift starts, is checked in to, or is paid: archives leave it alone.
Passes(s, i) ==
    /\ IsShift(s, i) /\ ~shift[s][i].past /\ <<s, i>> \notin UNION {cut[q] : q \in Requests}
    /\ shift' = [shift EXCEPT ![s][i].past = TRUE]
    /\ UNCHANGED <<status, entry, closed, left, owner, pc, job, gone, cut>>

Crash(r) == pc[r] # "idle" /\ Abort(r)

Start(r) ==
    \/ \E s \in Schedules :
          \/ BeginApprove(r, s)
          \/ BeginReject(r, s)
          \/ \E to \in Posted : BeginUpdate(r, s, to)
          \/ \E i \in Ids \cup {0}, to \in Employees \cup {Open, Gone} : BeginEdit(r, s, i, to)
    \/ \E x \in Locs \cup Employees : BeginArchive(r, x) \/ BeginRestore(r, x)

Step(r) ==
    \/ Relock(r) \/ LockLocation(r) \/ LockEmployee(r)
    \/ WriteApprove(r) \/ WriteEdit(r) \/ Save(r)
    \/ ArchiveEmployee(r) \/ ArchiveLocation(r) \/ DiscardDrafts(r)

Next ==
    \/ \E r \in Requests : Start(r) \/ Step(r) \/ Crash(r)
    \/ \E s \in Schedules : Generate(s) \/ \E i \in Ids : Passes(s, i)

Spec == Init /\ [][Next]_vars

-----------------------------------------------------------------------------
(* Properties *)

\* Every variable has its type.
TypeOK ==
    /\ status \in [Schedules -> {"none", "draft", "approved", "rejected", "discarded"}]
    /\ entry \in [Schedules -> Entry]
    /\ shift \in [Schedules -> [Ids -> Shift \cup {NoShift, Gone}]]
    /\ closed \in SUBSET Locs
    /\ left \in SUBSET Employees
    /\ owner \in [Rows -> Requests \cup {NoOne}]
    /\ pc \in [Requests -> PCs]
    /\ job \in [Requests -> Job]
    /\ gone \in [Requests -> SUBSET Employees]
    /\ cut \in [Requests -> SUBSET (Schedules \X Ids)]

Assigned(s, i, e) == IsShift(s, i) /\ shift[s][i].emp = e

\* A step that makes a schedule approved finds it unapproved, not discarded,
\* and its location open at that very moment, however long ago the request
\* read them: approve holds all three rows (#126, #180).
ApprovalIsFresh ==
    [][\A s \in Schedules :
          status'[s] = "approved" /\ status[s] # "approved" =>
              status[s] # "discarded" /\ Home[s] \notin closed']_vars

\* Only an approval adds the entries of a draft to the shifts table, and shifts
\* are added or reassigned only while their schedule is approved: two approvals
\* that both read a draft do not materialise it twice.
OneApprovalAtATime ==
    [][\A s \in Schedules, i \in Ids :
          IsShift(s, i)' /\ (~IsShift(s, i) \/ shift'[s][i].emp # shift[s][i].emp) =>
              /\ status'[s] = "approved"
              /\ shift'[s][i].born = "approval" /\ ~IsShift(s, i) => status[s] # "approved"]_vars

\* Nobody who has left is given a shift: approve opens the entry, an edit is
\* refused, and an archive that commits meanwhile waits or is waited for
\* (lock_employees, #126).
LeaverGetsNothing ==
    [][\A s \in Schedules, i \in Ids, e \in left' :
          Assigned(s, i, e)' => Assigned(s, i, e)]_vars

\* Between an archive's delete of a location's future shifts and its commit no
\* shift is added there, by an approval of that location's schedule (FOR UPDATE)
\* or by one elsewhere whose entry names it (the foreign key), so none survives
\* it (archive.py:198-199).
NothingSlipsIn ==
    [][\A s \in Schedules, i \in Ids :
          IsShift(s, i)' /\ ~IsShift(s, i) =>
              \A q \in Requests :
                  ~(pc[q] = "discard" /\ job[q].on = shift'[s][i].loc)]_vars

\* A discarded draft is terminal: never edited, rejected or approved
\* (archive.py:192-196, models/schedule.py:23-25).
DiscardedIsTerminal ==
    [][\A s \in Schedules : status[s] = "discarded" =>
          status'[s] = "discarded" /\ entry'[s] = entry[s]]_vars
=============================================================================
