---------------------- MODULE ScheduleLifecycleProofs ----------------------
(***************************************************************************)
(* Theorems about the life of schedules, for any number of sessions,       *)
(* schedules, locations, employees and shifts.                             *)
(*                                                                         *)
(* The inductive invariant says which rows a request in each place has     *)
(* locked, and that what it read when it locked them is still so.          *)
(***************************************************************************)
EXTENDS ScheduleLifecycle, TLAPS

Writing == {"location", "employee", "write"}

\* Each place is reached by the requests that go through it.
JobInv(r) ==
    /\ pc[r] \in {"relock", "employee", "write"} => job[r].op \in {"approve", "edit"}
    /\ pc[r] = "location" => job[r].op = "approve"
    /\ pc[r] = "save" => job[r].op \in {"update", "reject", "restore"}
    /\ pc[r] \in {"archive", "discard"} => job[r].op = "archive"
    /\ pc[r] = "discard" => job[r].on \in Locs

\* Whom the request is about to give a shift.
Given(r) ==
    IF job[r].op = "approve" THEN {entry[job[r].on].emp} \ {Open}
                             ELSE {job[r].to} \ {Open, Gone}

\* The schedule is locked, in a status the request serves; an approval has its
\* location too, open; whoever is given a shift is locked, and known to have
\* left if they have; an archive has its location.
HoldInv(r) ==
    /\ pc[r] \in Writing =>
          owner[job[r].on] = r /\ status[job[r].on] \in Serves(job[r].op)
    /\ pc[r] \in {"employee", "write"} /\ job[r].op = "approve" =>
          owner[Home[job[r].on]] = r /\ Home[job[r].on] \notin closed
    /\ pc[r] = "write" =>
          \A e \in Given(r) : owner[e] = r /\ (e \in left => e \in gone[r])
    /\ pc[r] = "discard" => owner[job[r].on] = r

RInv(r) == JobInv(r) /\ HoldInv(r)

IInv == TypeOK /\ \A r \in Requests : RInv(r)

-----------------------------------------------------------------------------
(* Lemmas *)

\* What a request of each kind is about.
LEMMA JobTypes ==
    ASSUME NEW j \in Job
    PROVE  /\ j.op \in {"approve", "edit", "reject", "update"} => j.on \in Schedules
           /\ j.op = "edit" =>
                 /\ j.id \in Ids \cup {0} /\ j.to \in Employees \cup {Open, Gone}
                 /\ j.id = 0 => j.to \in Employees \cup {Open}
           /\ j.op = "update" => j.to \in Posted
           /\ j.op \in {"archive", "restore"} => j.on \in Locs \cup Employees
<1>1. CASE j = Idle
  BY <1>1 DEF Idle
<1>2. CASE j \in [op : {"edit"}, on : Schedules, id : Ids, to : Employees \cup {Open, Gone}]
  BY <1>2 DEF Ids
<1>3. CASE j \in [op : {"edit"}, on : Schedules, id : {0}, to : Employees \cup {Open}]
  BY <1>3
<1>4. CASE j \in [op : {"update"}, on : Schedules, to : Posted]
  BY <1>4
<1>5. CASE \/ j \in [op : {"approve", "reject"}, on : Schedules]
           \/ j \in [op : {"archive", "restore"}, on : Locs \cup Employees]
  BY <1>5
<1> QED
  BY <1>1, <1>2, <1>3, <1>4, <1>5 DEF Job

\* A location is not a schedule or an employee, and neither is one another.
LEMMA RowsDisjoint ==
    /\ \A s \in Schedules : s \notin Locs /\ s \notin Employees /\ Home[s] \in Locs
    /\ \A l \in Locs : l \notin Schedules /\ l \notin Employees
    /\ \A e \in Employees : e \notin Schedules /\ e \notin Locs
  BY LifecycleAssumption

\* The initial states satisfy the invariant.
LEMMA InitIInv == Init => IInv
<1> SUFFICES ASSUME Init PROVE IInv
  OBVIOUS
<1>1. TypeOK
  <2>1. entry \in [Schedules -> Entry]
    BY LifecycleAssumption DEF Init, Entry
  <2> QED
    BY <2>1 DEF Init, TypeOK, Job, Idle, PCs, Rows
<1>2. \A r \in Requests : RInv(r)
  BY DEF Init, RInv, JobInv, HoldInv, Writing
<1> QED
  BY <1>1, <1>2 DEF IInv

\* What a step of r may change of what others rely on: only rows that nobody
\* else has locked.
Frame(r) ==
    /\ \A q \in Requests \ {r} : pc'[q] = pc[q] /\ job'[q] = job[q] /\ gone'[q] = gone[q]
    /\ \A x \in Rows :
          \/ owner'[x] = owner[x]
          \/ owner[x] \in {r, NoOne} /\ owner'[x] \in {r, NoOne}
    /\ \A s \in Schedules :
          owner[s] \in {r, NoOne} \/ (status'[s] = status[s] /\ entry'[s] = entry[s])
    /\ \A x \in closed' \cup left' :
          x \in closed \cup left \/ owner[x] \in {r, NoOne}

LEMMA FrameKeepsOthers ==
    ASSUME IInv, TypeOK', NEW r \in Requests, Frame(r), NEW q \in Requests \ {r}
    PROVE  RInv(q)'
<1>a. TypeOK /\ JobInv(q) /\ HoldInv(q) /\ r # NoOne /\ q # NoOne
  BY LifecycleAssumption DEF IInv, RInv
<1>b. pc'[q] = pc[q] /\ job'[q] = job[q] /\ gone'[q] = gone[q]
  BY DEF Frame
<1>1. JobInv(q)'
  BY <1>a, <1>b DEF JobInv
<1>2. \A x \in Rows : owner[x] = q => owner'[x] = q
  BY <1>a DEF Frame, TypeOK
<1>3. \A x \in Rows : owner[x] = q /\ x \in closed' \cup left' => x \in closed \cup left
  BY <1>a DEF Frame
<1>4. ASSUME pc[q] \in Writing
      PROVE  /\ job[q].on \in Schedules /\ job[q].on \in Rows
             /\ owner[job[q].on] = q
             /\ status'[job[q].on] = status[job[q].on]
             /\ entry'[job[q].on] = entry[job[q].on]
  <2>1. job[q].op \in {"approve", "edit"}
    BY <1>a, <1>4 DEF JobInv, Writing
  <2>2. job[q].on \in Schedules
    BY <2>1, <1>a, JobTypes DEF TypeOK
  <2>3. owner[job[q].on] = q
    BY <1>a, <1>4 DEF HoldInv
  <2> QED
    BY <2>2, <2>3, <1>a DEF Frame, Rows
<1>5. pc[q] \in Writing => owner'[job[q].on] = q /\ status'[job[q].on] \in Serves(job[q].op)
  BY <1>2, <1>4, <1>a DEF HoldInv
<1>6. ASSUME pc[q] \in {"employee", "write"}, job[q].op = "approve"
      PROVE  owner'[Home[job[q].on]] = q /\ Home[job[q].on] \notin closed'
  <2>1. Home[job[q].on] \in Locs
    BY <1>4, <1>6, RowsDisjoint DEF Writing
  <2>2. owner[Home[job[q].on]] = q /\ Home[job[q].on] \notin closed
    BY <1>6, <1>a DEF HoldInv
  <2>3. Home[job[q].on] \notin left
    BY <2>1, <1>a, RowsDisjoint DEF TypeOK
  <2> QED
    BY <2>1, <2>2, <2>3, <1>2, <1>3 DEF Rows
<1>7. ASSUME pc[q] = "write"
      PROVE  \A e \in Given(q)' : owner'[e] = q /\ (e \in left' => e \in gone'[q])
  <2>1. Given(q)' = Given(q)
    BY <1>4, <1>7, <1>b DEF Given, Writing
  <2>2. Given(q) \subseteq Employees
    <3>1. job[q].op = "approve" => entry[job[q].on].emp \in Employees \cup {Open}
      BY <1>4, <1>7, <1>a DEF TypeOK, Entry, Writing
    <3>2. job[q].op = "edit" => job[q].to \in Employees \cup {Open, Gone}
      BY <1>a, JobTypes DEF TypeOK
    <3>3. job[q].op \in {"approve", "edit"}
      BY <1>a, <1>7 DEF JobInv
    <3> QED
      BY <3>1, <3>2, <3>3 DEF Given
  <2>3. ASSUME NEW e \in Given(q)
        PROVE  owner'[e] = q /\ (e \in left' => e \in gone'[q])
    <3>1. owner[e] = q /\ (e \in left => e \in gone[q])
      BY <1>7, <1>a DEF HoldInv
    <3>2. e \notin closed
      BY <2>2, <1>a, RowsDisjoint DEF TypeOK
    <3> QED
      BY <3>1, <3>2, <2>2, <1>2, <1>3, <1>b DEF Rows
  <2> QED
    BY <2>1, <2>3
<1>8. pc[q] = "discard" => owner'[job[q].on] = q
  BY <1>a, <1>2 DEF HoldInv, JobInv, Rows
<1>9. HoldInv(q)'
  BY <1>5, <1>6, <1>7, <1>8, <1>b DEF HoldInv
<1> QED
  BY <1>1, <1>9 DEF RInv

\* ... so a step of r has to be looked at for r alone.
LEMMA StepKeepsIInv ==
    ASSUME IInv, TypeOK', NEW r \in Requests, Frame(r), RInv(r)'
    PROVE  IInv'
  BY FrameKeepsOthers DEF IInv

\* A transaction that ends leaves nothing locked; its request relies on nothing.
LEMMA EndOfRequest ==
    ASSUME TypeOK, NEW r \in Requests, End(r)
    PROVE  /\ owner' \in [Rows -> Requests \cup {NoOne}]
           /\ pc' \in [Requests -> PCs]
           /\ job' \in [Requests -> Job]
           /\ gone' \in [Requests -> SUBSET Employees]
           /\ cut' \in [Requests -> SUBSET (Schedules \X Ids)]
           /\ \A q \in Requests \ {r} : pc'[q] = pc[q] /\ job'[q] = job[q] /\ gone'[q] = gone[q]
           /\ \A x \in Rows :
                 \/ owner'[x] = owner[x]
                 \/ owner[x] \in {r, NoOne} /\ owner'[x] \in {r, NoOne}
           /\ RInv(r)'
<1>1. pc'[r] = "idle"
  BY DEF End, Goto, TypeOK
<1>2. RInv(r)'
  BY <1>1 DEF RInv, JobInv, HoldInv, Writing
<1> QED
  BY <1>2 DEF End, Goto, TypeOK, Job, PCs

\* A request that gives up keeps the invariant.
LEMMA AbortStep ==
    ASSUME IInv, NEW r \in Requests, Abort(r)
    PROVE  IInv'
<1>1. TypeOK /\ End(r) /\ UNCHANGED rows
  BY DEF IInv, Abort
<1>2. TypeOK'
  BY <1>1, EndOfRequest DEF TypeOK, rows
<1>3. Frame(r) /\ RInv(r)'
  BY <1>1, EndOfRequest DEF Frame, rows
<1> QED
  BY <1>2, <1>3, StepKeepsIInv

\* A request is where its kind starts.
Arrives(r, what, at) ==
    /\ Begin(r, what, at)
    /\ at = "relock" => what.op \in {"approve", "edit"}
    /\ at = "save" => what.op \in {"update", "reject", "restore"}
    /\ at = "archive" => what.op = "archive"

\* A request arrives.
LEMMA StartStep ==
    ASSUME IInv, NEW r \in Requests, Start(r)
    PROVE  IInv'
<1>a. TypeOK /\ pc[r] = "idle"
  BY DEF IInv, Start, BeginApprove, BeginEdit, BeginUpdate, BeginReject, BeginArchive,
         BeginRestore, Begin
<1>1. PICK what \in Job, at \in {"relock", "save", "archive"} : Arrives(r, what, at)
  <2>1. ASSUME NEW s \in Schedules, BeginApprove(r, s)
        PROVE  \E what \in Job : Arrives(r, what, "relock")
    BY <2>1 DEF BeginApprove, Arrives, Job
  <2>2. ASSUME NEW s \in Schedules, BeginReject(r, s)
        PROVE  \E what \in Job : Arrives(r, what, "save")
    BY <2>2 DEF BeginReject, Arrives, Job
  <2>3. ASSUME NEW s \in Schedules, NEW to \in Posted, BeginUpdate(r, s, to)
        PROVE  \E what \in Job : Arrives(r, what, "save")
    BY <2>3 DEF BeginUpdate, Arrives, Job
  <2>4. ASSUME NEW s \in Schedules, NEW i \in Ids \cup {0},
               NEW to \in Employees \cup {Open, Gone}, BeginEdit(r, s, i, to)
        PROVE  \E what \in Job : Arrives(r, what, "relock")
    BY <2>4 DEF BeginEdit, Arrives, Job
  <2>5. ASSUME NEW x \in Locs \cup Employees, BeginArchive(r, x)
        PROVE  \E what \in Job : Arrives(r, what, "archive")
    BY <2>5 DEF BeginArchive, Arrives, Job
  <2>6. ASSUME NEW x \in Locs \cup Employees, BeginRestore(r, x)
        PROVE  \E what \in Job : Arrives(r, what, "save")
    BY <2>6 DEF BeginRestore, Arrives, Job
  <2> QED
    BY <2>1, <2>2, <2>3, <2>4, <2>5, <2>6 DEF Start
<1>2. TypeOK'
  BY <1>a, <1>1 DEF Arrives, Begin, Goto, TypeOK, PCs, rows
<1>3. Frame(r)
  BY <1>a, <1>1 DEF Arrives, Begin, Goto, Frame, TypeOK, rows
<1>4. pc'[r] = at /\ job'[r] = what
  BY <1>a, <1>1 DEF Arrives, Begin, Goto, TypeOK
<1>5. RInv(r)'
  BY <1>1, <1>4 DEF Arrives, RInv, JobInv, HoldInv, Writing
<1> QED
  BY <1>2, <1>3, <1>5, StepKeepsIInv

\* The schedule's row, and its status once more.
LEMMA RelockStep ==
    ASSUME IInv, NEW r \in Requests, Relock(r)
    PROVE  IInv'
<1>a. TypeOK /\ JobInv(r) /\ pc[r] = "relock"
  BY DEF IInv, RInv, Relock
<1>1. CASE Abort(r)
  BY <1>1, AbortStep
<1>2. CASE ~ Abort(r)
  <2> DEFINE s == job[r].on
             to == IF job[r].op = "approve" THEN "location" ELSE "employee"
  <2>a. job[r].op \in {"approve", "edit"}
    BY <1>a DEF JobInv
  <2>b. s \in Schedules /\ s \in Rows
    BY <1>a, <2>a, JobTypes DEF TypeOK, Rows
  <2>c. /\ status[s] \in Serves(job[r].op)
        /\ owner' = [owner EXCEPT ![s] = r]
        /\ pc' = [pc EXCEPT ![r] = to]
        /\ UNCHANGED <<rows, job, gone, cut>>
        /\ owner[s] \in {NoOne, r}
    BY <1>2, <1>a DEF Relock, Take, Goto, Ready, Needs, Free
  <2>1. TypeOK'
    BY <1>a, <2>b, <2>c DEF TypeOK, PCs, rows
  <2>2. Frame(r)
    BY <1>a, <2>b, <2>c DEF Frame, TypeOK, rows
  <2>3. pc'[r] = to /\ owner'[s] = r /\ job' = job /\ status' = status
    BY <1>a, <2>b, <2>c DEF TypeOK, rows
  <2>4. JobInv(r)'
    BY <2>3, <2>a DEF JobInv
  <2>5. HoldInv(r)'
    BY <2>3, <2>a, <2>c DEF HoldInv, Writing
  <2> QED
    BY <2>1, <2>2, <2>4, <2>5, StepKeepsIInv DEF RInv
<1> QED
  BY <1>1, <1>2

\* The schedule's location, if it is open.
LEMMA LockLocationStep ==
    ASSUME IInv, NEW r \in Requests, LockLocation(r)
    PROVE  IInv'
<1>a. TypeOK /\ JobInv(r) /\ HoldInv(r) /\ pc[r] = "location"
  BY DEF IInv, RInv, LockLocation
<1>1. CASE Abort(r)
  BY <1>1, AbortStep
<1>2. CASE ~ Abort(r)
  <2> DEFINE s == job[r].on
             l == Home[s]
  <2>a. job[r].op = "approve" /\ s \in Schedules
    BY <1>a, JobTypes DEF JobInv, TypeOK
  <2>b. l \in Rows /\ l # s
    BY <2>a, RowsDisjoint DEF Rows
  <2>c. /\ l \notin closed
        /\ owner' = [owner EXCEPT ![l] = r]
        /\ pc' = [pc EXCEPT ![r] = "employee"]
        /\ UNCHANGED <<rows, job, gone, cut>>
        /\ owner[l] \in {NoOne, r}
    BY <1>2, <1>a DEF LockLocation, Take, Goto, Ready, Needs, Free
  <2>1. TypeOK'
    BY <1>a, <2>b, <2>c DEF TypeOK, PCs, rows
  <2>2. Frame(r)
    BY <1>a, <2>b, <2>c DEF Frame, TypeOK, rows
  <2>3. /\ pc'[r] = "employee" /\ owner'[l] = r /\ owner'[s] = owner[s]
        /\ job' = job /\ status' = status /\ closed' = closed
    BY <1>a, <2>a, <2>b, <2>c DEF TypeOK, rows, Rows
  <2>4. JobInv(r)'
    BY <2>3, <2>a DEF JobInv
  <2>5. HoldInv(r)'
    BY <2>3, <2>a, <2>c, <1>a DEF HoldInv, Writing
  <2> QED
    BY <2>1, <2>2, <2>4, <2>5, StepKeepsIInv DEF RInv
<1> QED
  BY <1>1, <1>2

\* Those who are given a shift.
LEMMA LockEmployeeStep ==
    ASSUME IInv, NEW r \in Requests, LockEmployee(r)
    PROVE  IInv'
<1> DEFINE s == job[r].on
<1>a. TypeOK /\ JobInv(r) /\ HoldInv(r) /\ pc[r] = "employee"
  BY DEF IInv, RInv, LockEmployee
<1>b. job[r].op \in {"approve", "edit"} /\ s \in Schedules
  BY <1>a, JobTypes DEF JobInv, TypeOK
<1>c. Needs(r) = Given(r) /\ Given(r) \subseteq Employees
  <2>1. job[r].op = "approve" => entry[s].emp \in Employees \cup {Open}
    BY <1>a, <1>b DEF TypeOK, Entry
  <2>2. job[r].op = "edit" => job[r].to \in Employees \cup {Open, Gone}
    BY <1>a, JobTypes DEF TypeOK
  <2> QED
    BY <1>a, <1>b, <2>1, <2>2 DEF Needs, Given
<1>d. /\ owner' = [x \in Rows |-> IF x \in Given(r) THEN r ELSE owner[x]]
      /\ gone' = [gone EXCEPT ![r] = Given(r) \cap left]
      /\ pc' = [pc EXCEPT ![r] = "write"]
      /\ UNCHANGED <<rows, job, cut>>
      /\ \A x \in Given(r) : owner[x] \in {NoOne, r}
  BY <1>c DEF LockEmployee, Goto, Ready, Free
<1>1. TypeOK'
  BY <1>a, <1>c, <1>d DEF TypeOK, PCs, rows
<1>2. Frame(r)
  BY <1>a, <1>c, <1>d DEF Frame, TypeOK, rows
<1>3. pc'[r] = "write" /\ gone'[r] = Given(r) \cap left /\ UNCHANGED <<rows, job>>
  BY <1>a, <1>d DEF TypeOK
<1>4. Given(r)' = Given(r)
  BY <1>3 DEF Given, rows
<1>5. \A x \in Rows : owner[x] = r => owner'[x] = r
  BY <1>d
<1>6. \A e \in Given(r) : owner'[e] = r
  BY <1>c, <1>d DEF Rows
<1>7. JobInv(r)'
  BY <1>3, <1>b DEF JobInv
<1>8. HoldInv(r)'
  <2>1. Home[s] \in Rows /\ s \in Rows
    BY <1>b, RowsDisjoint DEF Rows
  <2>2. owner[s] = r /\ status[s] \in Serves(job[r].op)
    BY <1>a DEF HoldInv, Writing
  <2>3. job[r].op = "approve" => owner[Home[s]] = r /\ Home[s] \notin closed
    BY <1>a DEF HoldInv
  <2> QED
    BY <1>3, <1>4, <1>5, <1>6, <2>1, <2>2, <2>3 DEF HoldInv, rows
<1> QED
  BY <1>1, <1>2, <1>7, <1>8, StepKeepsIInv DEF RInv

\* The rows have their types.
RowsOK ==
    /\ status \in [Schedules -> {"none", "draft", "approved", "rejected", "discarded"}]
    /\ entry \in [Schedules -> Entry]
    /\ shift \in [Schedules -> [Ids -> Shift \cup {NoShift, Gone}]]
    /\ closed \in SUBSET Locs
    /\ left \in SUBSET Employees

\* A commit that writes rows nobody else has locked keeps the invariant.
LEMMA CommitStep ==
    ASSUME IInv, NEW r \in Requests, End(r), RowsOK',
           \A s \in Schedules :
              owner[s] \in {r, NoOne} \/ (status'[s] = status[s] /\ entry'[s] = entry[s]),
           \A x \in closed' \cup left' :
              x \in closed \cup left \/ owner[x] \in {r, NoOne}
    PROVE  IInv'
<1>a. TypeOK
  BY DEF IInv
<1>1. TypeOK'
  BY <1>a, EndOfRequest DEF TypeOK, RowsOK
<1>2. Frame(r) /\ RInv(r)'
  BY <1>a, EndOfRequest DEF Frame
<1> QED
  BY <1>1, <1>2, StepKeepsIInv

\* A step that changes one shift.
Puts(s, i, sh) == shift' = [shift EXCEPT ![s][i] = sh]

\* What an approval knows when it writes, and the shift it adds.
LEMMA ApprovalWrites ==
    ASSUME IInv, NEW r \in Requests, WriteApprove(r),
           NEW s, s = job[r].on
    PROVE  /\ s \in Schedules
           /\ owner[s] = r
           /\ status[s] \in {"draft", "rejected"}
           /\ Home[s] \notin closed
           /\ owner[entry[s].loc] \in {NoOne, r}
           /\ status' = [status EXCEPT ![s] = "approved"]
           /\ \E i \in Ids, sh \in Shift :
                 /\ shift[s][i] = NoShift
                 /\ Puts(s, i, sh)
                 /\ sh.born = "approval" /\ sh.loc = entry[s].loc
                 /\ sh.emp = Open \/ sh.emp \notin left
<1> DEFINE e == entry[s].emp
<1>a. TypeOK /\ JobInv(r) /\ HoldInv(r) /\ pc[r] = "write" /\ job[r].op = "approve"
  BY DEF IInv, RInv, WriteApprove
<1>b. s \in Schedules
  BY <1>a, JobTypes DEF TypeOK
<1>c. entry[s] \in Entry
  BY <1>a, <1>b DEF TypeOK
<1>1. owner[s] = r /\ status[s] \in {"draft", "rejected"} /\ Home[s] \notin closed
  BY <1>a DEF HoldInv, Writing, Serves
<1>2. owner[entry[s].loc] \in {NoOne, r}
  BY <1>a DEF WriteApprove, Ready, Needs, Free
<1>3. e # Open => (e \in left => e \in gone[r])
  BY <1>a DEF HoldInv, Given
<1>4. PICK i \in FreshIds(s) :
         shift' = [shift EXCEPT ![s][i] =
                     [loc |-> entry[s].loc, emp |-> IF e \in gone[r] THEN Open ELSE e,
                      born |-> "approval", past |-> FALSE]]
  BY DEF WriteApprove
<1>5. i \in Ids /\ shift[s][i] = NoShift
  BY DEF FreshIds
<1>6. status' = [status EXCEPT ![s] = "approved"]
  BY DEF WriteApprove
<1>7. [loc |-> entry[s].loc, emp |-> IF e \in gone[r] THEN Open ELSE e,
       born |-> "approval", past |-> FALSE] \in Shift
  BY <1>c DEF Entry, Shift
<1> QED
  BY <1>b, <1>1, <1>2, <1>3, <1>4, <1>5, <1>6, <1>7 DEF Puts

LEMMA WriteApproveStep ==
    ASSUME IInv, NEW r \in Requests, WriteApprove(r)
    PROVE  IInv'
<1> DEFINE s == job[r].on
<1>a. TypeOK /\ End(r) /\ UNCHANGED <<entry, closed, left>>
  BY DEF IInv, WriteApprove
<1>1. /\ s \in Schedules /\ owner[s] = r
      /\ status' = [status EXCEPT ![s] = "approved"]
  BY ApprovalWrites
<1>2. RowsOK'
  <2>1. PICK i \in Ids, sh \in Shift : Puts(s, i, sh)
    BY ApprovalWrites
  <2> QED
    BY <1>a, <1>1, <2>1 DEF TypeOK, RowsOK, Puts
<1>3. \A t \in Schedules :
         owner[t] \in {r, NoOne} \/ (status'[t] = status[t] /\ entry'[t] = entry[t])
  BY <1>a, <1>1 DEF TypeOK
<1> QED
  BY <1>a, <1>2, <1>3, CommitStep

\* What an edit knows when it writes, and the shift it adds or changes.
LEMMA EditWrites ==
    ASSUME IInv, NEW r \in Requests, WriteEdit(r), ~ Abort(r),
           NEW s, s = job[r].on
    PROVE  /\ s \in Schedules
           /\ status[s] = "approved"
           /\ UNCHANGED <<status, entry, closed, left>>
           /\ \E i \in Ids, sh \in Shift \cup {Gone} :
                 /\ Puts(s, i, sh)
                 /\ \/ /\ shift[s][i] = NoShift
                       /\ sh \in Shift /\ sh.loc = Home[s] /\ sh.born = "edit"
                       /\ owner[Home[s]] \in {NoOne, r}
                    \/ IsShift(s, i)
                 /\ sh \in Shift =>
                       sh.emp \notin left \/ (IsShift(s, i) /\ shift[s][i].emp = sh.emp)
<1> DEFINE to == job[r].to
           id == job[r].id
<1>a. TypeOK /\ JobInv(r) /\ HoldInv(r) /\ pc[r] = "write" /\ job[r].op = "edit"
  BY DEF IInv, RInv, WriteEdit
<1>b. s \in Schedules /\ id \in Ids \cup {0} /\ to \in Employees \cup {Open, Gone}
  BY <1>a, JobTypes DEF TypeOK
<1>1. status[s] = "approved"
  BY <1>a DEF HoldInv, Writing, Serves
<1>2. to \in left => to \in gone[r]
  <2>1. to \in left => to \in Employees /\ to # Open /\ to # Gone
    BY <1>a, LifecycleAssumption, ShiftAssumption DEF TypeOK
  <2> QED
    BY <1>a, <2>1 DEF HoldInv, Given
<1>3. UNCHANGED <<status, entry, closed, left>>
  BY DEF WriteEdit
<1>4. Open \notin left
  BY <1>a, LifecycleAssumption DEF TypeOK
<1>5. to # Gone => \A x \in Shift : [x EXCEPT !.emp = to] \in Shift
                                  /\ [x EXCEPT !.emp = to].emp = to
  BY <1>b DEF Shift
<1>6. CASE id = 0
  <2>1. to \in Employees \cup {Open}
    BY <1>6, <1>a, JobTypes DEF TypeOK
  <2>2. to \notin gone[r]
    BY <1>6, <1>a, <2>1, LifecycleAssumption DEF WriteEdit, Holder, Ids, TypeOK
  <2>3. owner[Home[s]] \in {NoOne, r}
    BY <1>6, <1>a DEF WriteEdit, Ready, Needs, Free
  <2> DEFINE sh == [loc |-> Home[s], emp |-> to, born |-> "edit", past |-> FALSE]
  <2>4. PICK i \in FreshIds(s) : shift' = [shift EXCEPT ![s][i] = sh]
    BY <1>6 DEF WriteEdit
  <2>5. i \in Ids /\ shift[s][i] = NoShift
    BY DEF FreshIds
  <2>6. sh \in Shift
    BY <2>1, <1>b, RowsDisjoint DEF Shift
  <2>7. sh.loc = Home[s] /\ sh.born = "edit" /\ sh.emp \notin left
    BY <1>2, <2>2
  <2> HIDE DEF sh
  <2> QED
    BY <1>b, <1>1, <1>3, <2>3, <2>4, <2>5, <2>6, <2>7 DEF Puts
<1>7. CASE id # 0
  <2>1. /\ id \in Ids /\ IsShift(s, id)
        /\ shift' = [shift EXCEPT ![s][id] = Edited(@, to)]
        /\ to \in gone[r] => Holder(s, id) = to
    BY <1>7, <1>b DEF WriteEdit
  <2>2. shift[s][id] \in Shift
    BY <1>a, <1>b, <2>1 DEF IsShift, TypeOK
  <2>3. Edited(shift[s][id], to) \in Shift \cup {Gone}
    BY <1>5, <2>2 DEF Edited
  <2>4. ASSUME Edited(shift[s][id], to) \in Shift
        PROVE  Edited(shift[s][id], to).emp = to
    BY <2>4, <2>2, <1>5, ShiftAssumption DEF Edited
  <2>5. to \in left => shift[s][id].emp = to
    BY <1>2, <2>1 DEF Holder
  <2> QED
    BY <1>b, <1>1, <1>3, <2>3, <2>4, <2>5, <2>1 DEF Puts
<1> QED
  BY <1>6, <1>7

LEMMA WriteEditStep ==
    ASSUME IInv, NEW r \in Requests, WriteEdit(r)
    PROVE  IInv'
<1> DEFINE s == job[r].on
<1>1. CASE Abort(r)
  BY <1>1, AbortStep
<1>2. CASE ~ Abort(r)
  <2>1. s \in Schedules /\ UNCHANGED <<status, entry, closed, left>>
    BY <1>2, EditWrites
  <2>2. PICK i \in Ids, sh \in Shift \cup {Gone} : Puts(s, i, sh)
    BY <1>2, EditWrites
  <2>3. TypeOK /\ End(r)
    BY <1>2 DEF IInv, WriteEdit
  <2>4. RowsOK'
    BY <2>1, <2>2, <2>3 DEF TypeOK, RowsOK, Puts
  <2> QED
    BY <2>1, <2>3, <2>4, CommitStep
<1> QED
  BY <1>1, <1>2

\* A save, a reject or a restore writes a row nobody else has locked.
LEMMA SaveStep ==
    ASSUME IInv, NEW r \in Requests, Save(r)
    PROVE  IInv'
<1> DEFINE on == job[r].on
<1>a. TypeOK /\ End(r) /\ owner[on] \in {NoOne, r}
  BY DEF IInv, Save, Ready, Needs, Free
<1>1. CASE job[r].op = "update" /\ entry' = [entry EXCEPT ![on] = job[r].to]
           /\ UNCHANGED <<status, shift, closed, left>>
  <2>1. on \in Schedules /\ job[r].to \in Entry
    BY <1>1, <1>a, JobTypes, ShiftAssumption DEF TypeOK
  <2>2. RowsOK'
    BY <1>a, <1>1, <2>1 DEF TypeOK, RowsOK
  <2>3. \A s \in Schedules :
           owner[s] \in {r, NoOne} \/ (status'[s] = status[s] /\ entry'[s] = entry[s])
    BY <1>a, <1>1 DEF TypeOK
  <2> QED
    BY <1>a, <1>1, <2>2, <2>3, CommitStep
<1>2. CASE job[r].op = "reject" /\ status' = [status EXCEPT ![on] = "rejected"]
           /\ UNCHANGED <<entry, shift, closed, left>>
  <2>1. RowsOK'
    BY <1>a, <1>2 DEF TypeOK, RowsOK
  <2>2. \A s \in Schedules :
           owner[s] \in {r, NoOne} \/ (status'[s] = status[s] /\ entry'[s] = entry[s])
    BY <1>a, <1>2 DEF TypeOK
  <2> QED
    BY <1>a, <1>2, <2>1, <2>2, CommitStep
<1>3. CASE closed' = closed \ {on} /\ left' = left \ {on} /\ UNCHANGED <<status, entry, shift>>
  <2>1. RowsOK'
    BY <1>a, <1>3 DEF TypeOK, RowsOK
  <2> QED
    BY <1>a, <1>3, <2>1, CommitStep
<1> QED
  BY <1>1, <1>2, <1>3 DEF Save

\* An archived employee's shifts open.
LEMMA ArchiveEmployeeStep ==
    ASSUME IInv, NEW r \in Requests, ArchiveEmployee(r)
    PROVE  IInv'
<1>1. CASE Abort(r)
  BY <1>1, AbortStep
<1>2. CASE ~ Abort(r)
  <2> DEFINE e == job[r].on
             mine == {x \in FutureApproved : At(x).emp = e}
  <2>a. /\ TypeOK /\ End(r) /\ e \in Employees /\ owner[e] \in {NoOne, r}
        /\ left' = left \cup {e} /\ UNCHANGED <<status, entry, closed>>
    BY <1>2 DEF IInv, ArchiveEmployee, Ready, Needs, Free
  <2>b. shift' = [s \in Schedules |-> [i \in Ids |->
                     IF <<s, i>> \in mine THEN [shift[s][i] EXCEPT !.emp = Open] ELSE shift[s][i]]]
    BY <1>2 DEF ArchiveEmployee
  <2>1. ASSUME NEW s \in Schedules, NEW i \in Ids, <<s, i>> \in mine
        PROVE  [shift[s][i] EXCEPT !.emp = Open] \in Shift
    <3>1. shift[s][i] \in Shift
      BY <2>a, <2>1 DEF FutureApproved, IsShift, TypeOK
    <3> QED
      BY <3>1 DEF Shift
  <2>2. shift' \in [Schedules -> [Ids -> Shift \cup {NoShift, Gone}]]
    <3> HIDE DEF mine
    <3> QED
      BY <2>a, <2>b, <2>1 DEF TypeOK
  <2>3. RowsOK'
    BY <2>a, <2>2 DEF TypeOK, RowsOK
  <2> QED
    BY <2>a, <2>3, CommitStep
<1> QED
  BY <1>1, <1>2

\* An archive has its location and knows which shifts it deletes.
LEMMA ArchiveLocationStep ==
    ASSUME IInv, NEW r \in Requests, ArchiveLocation(r)
    PROVE  IInv'
<1>1. CASE Abort(r)
  BY <1>1, AbortStep
<1>2. CASE ~ Abort(r)
  <2> DEFINE l == job[r].on
  <2>a. /\ TypeOK /\ JobInv(r) /\ pc[r] = "archive" /\ l \in Locs /\ l \in Rows
        /\ owner' = [owner EXCEPT ![l] = r] /\ owner[l] \in {NoOne, r}
        /\ pc' = [pc EXCEPT ![r] = "discard"]
        /\ UNCHANGED <<rows, job, gone>>
    BY <1>2 DEF IInv, RInv, ArchiveLocation, Take, Goto, Ready, Needs, Free, Rows
  <2>b. cut' \in [Requests -> SUBSET (Schedules \X Ids)]
    BY <1>2, <2>a DEF ArchiveLocation, FutureApproved, TypeOK
  <2>1. TypeOK'
    BY <2>a, <2>b DEF TypeOK, PCs, rows
  <2>2. Frame(r)
    BY <2>a DEF Frame, TypeOK, rows
  <2>3. pc'[r] = "discard" /\ owner'[l] = r /\ job' = job
    BY <2>a DEF TypeOK
  <2>4. RInv(r)'
    BY <2>3, <2>a DEF RInv, JobInv, HoldInv, Writing
  <2> QED
    BY <2>1, <2>2, <2>4, StepKeepsIInv
<1> QED
  BY <1>1, <1>2

\* The archive of a location commits.
LEMMA DiscardDraftsStep ==
    ASSUME IInv, NEW r \in Requests, DiscardDrafts(r)
    PROVE  IInv'
<1> DEFINE l == job[r].on
<1>a. /\ TypeOK /\ End(r) /\ l \in Locs /\ owner[l] = r
      /\ \A s \in Drafts(l) : owner[s] \in {NoOne, r}
      /\ UNCHANGED <<entry, left>> /\ closed' = closed \cup {l}
  BY DEF IInv, RInv, JobInv, HoldInv, DiscardDrafts, Ready, Needs, Free
<1>b. /\ status' = [s \in Schedules |-> IF s \in Drafts(l) THEN "discarded" ELSE status[s]]
      /\ shift' = [s \in Schedules |-> [i \in Ids |->
                      IF <<s, i>> \in cut[r] THEN Gone ELSE shift[s][i]]]
  BY DEF DiscardDrafts
<1>1. RowsOK'
  BY <1>a, <1>b DEF TypeOK, RowsOK
<1>2. \A s \in Schedules :
         owner[s] \in {r, NoOne} \/ (status'[s] = status[s] /\ entry'[s] = entry[s])
  BY <1>a, <1>b DEF TypeOK
<1> QED
  BY <1>a, <1>1, <1>2, CommitStep

\* A draft is inserted, a shift passes, or nothing happens: no request that has
\* locked a schedule is about one that does not exist yet.
LEMMA EnvironmentStep ==
    ASSUME IInv,
           \/ \E s \in Schedules : Generate(s) \/ \E i \in Ids : Passes(s, i)
           \/ UNCHANGED vars
    PROVE  IInv'
<1>a. TypeOK /\ UNCHANGED <<closed, left, owner, pc, job, gone, cut>>
  BY DEF IInv, Generate, Passes, vars, rows
<1>1. \A s \in Schedules : status[s] # "none" => status'[s] = status[s] /\ entry'[s] = entry[s]
  <2>1. CASE \E t \in Schedules : Generate(t)
    BY <2>1, <1>a DEF Generate, TypeOK
  <2>2. CASE (\E t \in Schedules, i \in Ids : Passes(t, i)) \/ UNCHANGED vars
    BY <2>2 DEF Passes, vars, rows
  <2> QED
    BY <2>1, <2>2
<1>2. RowsOK'
  <2>1. CASE \E t \in Schedules : Generate(t)
    BY <2>1, <1>a DEF Generate, TypeOK, RowsOK
  <2>2. ASSUME NEW t \in Schedules, NEW i \in Ids, Passes(t, i)
        PROVE  RowsOK'
    <3>1. shift[t][i] \in Shift
      BY <2>2, <1>a DEF Passes, IsShift, TypeOK
    <3>2. [shift[t][i] EXCEPT !.past = TRUE] \in Shift
      BY <3>1 DEF Shift
    <3>3. shift' = [shift EXCEPT ![t][i] = [shift[t][i] EXCEPT !.past = TRUE]]
      BY <2>2 DEF Passes
    <3> QED
      BY <2>2, <3>2, <3>3, <1>a DEF Passes, TypeOK, RowsOK
  <2>3. CASE UNCHANGED vars
    BY <2>3, <1>a DEF TypeOK, RowsOK, vars, rows
  <2> QED
    BY <2>1, <2>2, <2>3
<1>3. TypeOK'
  BY <1>2, <1>a DEF TypeOK, RowsOK
<1>4. ASSUME NEW r \in Requests
      PROVE  RInv(r)'
  <2>a. JobInv(r) /\ HoldInv(r)
    BY DEF IInv, RInv
  <2>1. JobInv(r)'
    BY <2>a, <1>a DEF JobInv
  <2>2. ASSUME pc[r] \in Writing
        PROVE  status'[job[r].on] = status[job[r].on] /\ entry'[job[r].on] = entry[job[r].on]
    <3>1. job[r].op \in {"approve", "edit"}
      BY <2>a, <2>2 DEF JobInv, Writing
    <3>2. job[r].on \in Schedules
      BY <3>1, <1>a, JobTypes DEF TypeOK
    <3>3. status[job[r].on] # "none"
      BY <2>a, <2>2 DEF HoldInv, Serves
    <3> QED
      BY <3>2, <3>3, <1>1
  <2>3. pc[r] = "write" => Given(r)' = Given(r)
    BY <2>2, <1>a DEF Given, Writing
  <2>4. HoldInv(r)'
    BY <2>a, <2>2, <2>3, <1>a DEF HoldInv
  <2> QED
    BY <2>1, <2>4 DEF RInv
<1> QED
  BY <1>3, <1>4 DEF IInv

\* Every step keeps the invariant.
LEMMA NextIInv == IInv /\ [Next]_vars => IInv'
<1> SUFFICES ASSUME IInv, [Next]_vars PROVE IInv'
  OBVIOUS
<1>1. CASE \/ \E s \in Schedules : Generate(s) \/ \E i \in Ids : Passes(s, i)
           \/ UNCHANGED vars
  BY <1>1, EnvironmentStep
<1>2. ASSUME NEW r \in Requests, Start(r) \/ Step(r) \/ Crash(r)
      PROVE  IInv'
  BY <1>2, StartStep, RelockStep, LockLocationStep, LockEmployeeStep, WriteApproveStep,
     WriteEditStep, SaveStep, ArchiveEmployeeStep, ArchiveLocationStep, DiscardDraftsStep,
     AbortStep DEF Step, Crash
<1> QED
  BY <1>1, <1>2 DEF Next

-----------------------------------------------------------------------------
(* Theorems *)

\* The invariant holds in every reachable state.
THEOREM Invariant == Spec => []IInv
<1> QED
  BY InitIInv, NextIInv, PTL DEF Spec

\* Type correctness: every variable keeps its type.
THEOREM TypeCorrect == Spec => []TypeOK
<1>1. IInv => TypeOK
  BY DEF IInv
<1> QED
  BY <1>1, Invariant, PTL

\* The steps that change the shifts table or a status: an approval, an edit, an
\* archive, a reject, a draft that is inserted, a shift that passes.
LEMMA QuietSteps ==
    ASSUME [Next]_vars,
           \A r \in Requests :
              ~ (\/ WriteApprove(r) \/ WriteEdit(r) \/ Save(r)
                 \/ ArchiveEmployee(r) \/ DiscardDrafts(r)),
           \A s \in Schedules : ~ Generate(s) /\ \A i \in Ids : ~ Passes(s, i)
    PROVE  UNCHANGED rows
<1>1. ASSUME NEW r \in Requests, Start(r)
      PROVE  UNCHANGED rows
  BY <1>1 DEF Start, BeginApprove, BeginEdit, BeginUpdate, BeginReject, BeginArchive,
              BeginRestore, Begin
<1>2. ASSUME NEW r \in Requests, Relock(r) \/ LockLocation(r) \/ LockEmployee(r) \/ Crash(r)
      PROVE  UNCHANGED rows
  BY <1>2 DEF Relock, LockLocation, LockEmployee, Crash, Abort
<1>3. ASSUME NEW r \in Requests, ArchiveLocation(r)
      PROVE  UNCHANGED rows
  BY <1>3 DEF ArchiveLocation, Abort
<1> QED
  BY <1>1, <1>2, <1>3 DEF Next, Step, vars

\* Approvals act on fresh rows: whatever happened since the request first read
\* the schedule and its location, at the moment it is approved it is neither
\* approved nor discarded, and its location is open.
THEOREM Freshness == Spec => ApprovalIsFresh
<1> DEFINE Fresh(s) == status'[s] = "approved" /\ status[s] # "approved" =>
                          status[s] # "discarded" /\ Home[s] \notin closed'
<1>1. ASSUME IInv, [Next]_vars, NEW s \in Schedules
      PROVE  Fresh(s)
  <2>a. TypeOK
    BY <1>1 DEF IInv
  <2>1. ASSUME NEW r \in Requests, WriteApprove(r)
        PROVE  Fresh(s)
    <3> DEFINE t == job[r].on
    <3>1. /\ t \in Schedules /\ status[t] \in {"draft", "rejected"} /\ Home[t] \notin closed
          /\ status' = [status EXCEPT ![t] = "approved"]
      BY <1>1, <2>1, ApprovalWrites
    <3>2. closed' = closed
      BY <2>1 DEF WriteApprove
    <3> QED
      BY <3>1, <3>2, <2>a DEF TypeOK
  <2>2. ASSUME NEW r \in Requests, WriteEdit(r) \/ Save(r) \/ ArchiveEmployee(r) \/ DiscardDrafts(r)
        PROVE  Fresh(s)
    <3>1. CASE status' = status
      BY <3>1
    <3>2. CASE Save(r) /\ status' # status
      BY <3>2, <2>a DEF Save, TypeOK
    <3>3. CASE DiscardDrafts(r)
      BY <3>3, <2>a DEF DiscardDrafts, TypeOK
    <3> QED
      BY <2>2, <3>1, <3>2, <3>3 DEF WriteEdit, ArchiveEmployee, Abort, rows
  <2>3. ASSUME NEW t \in Schedules, Generate(t) \/ \E i \in Ids : Passes(t, i)
        PROVE  Fresh(s)
    BY <2>3, <2>a DEF Generate, Passes, TypeOK
  <2>4. CASE UNCHANGED rows
    BY <2>4 DEF rows
  <2> QED
    BY <1>1, <2>1, <2>2, <2>3, <2>4, QuietSteps
<1>2. IInv /\ [Next]_vars => [\A s \in Schedules : Fresh(s)]_vars
  BY <1>1
<1> QED
  BY <1>2, Invariant, PTL DEF Spec, ApprovalIsFresh

\* A shift is added, or given to another person or to nobody.
Changes(s, i) ==
    IsShift(s, i)' /\ (~IsShift(s, i) \/ shift'[s][i].emp # shift[s][i].emp)

\* What is so when that happens.
Sound(s, i) ==
    /\ status'[s] = "approved"
    /\ shift'[s][i].emp \notin left'
    /\ ~IsShift(s, i) =>
          /\ shift'[s][i].born = "approval" => status[s] # "approved"
          /\ \E r \in Requests : pc[r] = "write" /\ owner[shift'[s][i].loc] \in {NoOne, r}

LEMMA ApprovalIsSound ==
    ASSUME IInv, NEW r \in Requests, WriteApprove(r),
           NEW s \in Schedules, NEW i \in Ids, Changes(s, i)
    PROVE  Sound(s, i)
<1> DEFINE t == job[r].on
<1>a. TypeOK /\ left' = left /\ pc[r] = "write"
  BY DEF IInv, WriteApprove
<1>1. /\ t \in Schedules /\ status[t] \in {"draft", "rejected"}
      /\ owner[entry[t].loc] \in {NoOne, r}
      /\ status' = [status EXCEPT ![t] = "approved"]
  BY ApprovalWrites
<1>2. PICK j \in Ids, sh \in Shift :
         /\ shift[t][j] = NoShift /\ Puts(t, j, sh)
         /\ sh.born = "approval" /\ sh.loc = entry[t].loc
         /\ sh.emp = Open \/ sh.emp \notin left
  BY ApprovalWrites
<1>3. s = t /\ i = j /\ shift'[s][i] = sh
  BY <1>a, <1>1, <1>2 DEF Changes, IsShift, Puts, TypeOK
<1>4. sh.emp \notin left
  BY <1>2, <1>a, LifecycleAssumption DEF TypeOK
<1> QED
  BY <1>a, <1>1, <1>2, <1>3, <1>4 DEF Sound, TypeOK

LEMMA EditIsSound ==
    ASSUME IInv, NEW r \in Requests, WriteEdit(r), ~ Abort(r),
           NEW s \in Schedules, NEW i \in Ids, Changes(s, i)
    PROVE  Sound(s, i)
<1> DEFINE t == job[r].on
<1>a. TypeOK /\ pc[r] = "write"
  BY DEF IInv, WriteEdit
<1>1. t \in Schedules /\ status[t] = "approved" /\ status' = status /\ left' = left
  BY EditWrites
<1>2. PICK j \in Ids, sh \in Shift \cup {Gone} :
         /\ Puts(t, j, sh)
         /\ \/ /\ shift[t][j] = NoShift
               /\ sh \in Shift /\ sh.loc = Home[t] /\ sh.born = "edit"
               /\ owner[Home[t]] \in {NoOne, r}
            \/ IsShift(t, j)
         /\ sh \in Shift => sh.emp \notin left \/ (IsShift(t, j) /\ shift[t][j].emp = sh.emp)
  BY EditWrites
<1>3. s = t /\ i = j /\ shift'[s][i] = sh
  BY <1>a, <1>1, <1>2 DEF Changes, IsShift, Puts, TypeOK
<1>4. sh \in Shift
  BY <1>2, <1>3 DEF Changes, IsShift
<1>5. sh.emp \notin left
  BY <1>2, <1>3, <1>4 DEF Changes
<1>6. ~IsShift(s, i) => sh.born = "edit" /\ owner[sh.loc] \in {NoOne, r}
  BY <1>2, <1>3
<1> QED
  BY <1>a, <1>1, <1>3, <1>5, <1>6 DEF Sound

LEMMA ArchiveIsSound ==
    ASSUME IInv, NEW r \in Requests, ArchiveEmployee(r), ~ Abort(r),
           NEW s \in Schedules, NEW i \in Ids, Changes(s, i)
    PROVE  Sound(s, i)
<1> DEFINE mine == {x \in FutureApproved : At(x).emp = job[r].on}
<1>a. TypeOK /\ status' = status /\ left' = left \cup {job[r].on} /\ job[r].on \in Employees
  BY DEF IInv, ArchiveEmployee
<1>1. shift' = [t \in Schedules |-> [j \in Ids |->
                   IF <<t, j>> \in mine THEN [shift[t][j] EXCEPT !.emp = Open] ELSE shift[t][j]]]
  BY DEF ArchiveEmployee
<1>2. shift'[s][i] = IF <<s, i>> \in mine THEN [shift[s][i] EXCEPT !.emp = Open] ELSE shift[s][i]
  <2> HIDE DEF mine
  <2> QED
    BY <1>1
<1>3. <<s, i>> \in mine
  BY <1>2 DEF Changes, IsShift
<1>4. status[s] = "approved" /\ IsShift(s, i)
  BY <1>3 DEF FutureApproved
<1>5. shift[s][i] \in Shift
  BY <1>4, <1>a DEF IsShift, TypeOK
<1>6. shift'[s][i].emp = Open
  BY <1>2, <1>3, <1>5 DEF Shift
<1>7. Open \notin left'
  BY <1>a, LifecycleAssumption DEF TypeOK
<1> QED
  BY <1>a, <1>4, <1>6, <1>7 DEF Sound

\* Every step that adds or reassigns a shift is one of those three, and sound.
LEMMA ChangeIsSound ==
    ASSUME IInv, [Next]_vars, NEW s \in Schedules, NEW i \in Ids, Changes(s, i)
    PROVE  Sound(s, i)
<1>a. TypeOK
  BY DEF IInv
<1>1. CASE UNCHANGED rows
  BY <1>1 DEF Changes, IsShift, rows
<1>2. ASSUME NEW r \in Requests, Abort(r)
      PROVE  FALSE
  BY <1>2 DEF Abort, Changes, IsShift, rows
<1>3. ASSUME NEW r \in Requests, Save(r)
      PROVE  FALSE
  BY <1>3 DEF Save, Changes, IsShift
<1>4. ASSUME NEW r \in Requests, DiscardDrafts(r)
      PROVE  FALSE
  BY <1>4 DEF DiscardDrafts, Changes, IsShift
<1>5. ASSUME NEW t \in Schedules, Generate(t)
      PROVE  FALSE
  BY <1>5 DEF Generate, Changes, IsShift
<1>6. ASSUME NEW t \in Schedules, NEW j \in Ids, Passes(t, j)
      PROVE  FALSE
  <2>1. IsShift(t, j) /\ shift' = [shift EXCEPT ![t][j] = [shift[t][j] EXCEPT !.past = TRUE]]
    BY <1>6 DEF Passes
  <2>2. shift[t][j] \in Shift
    BY <2>1, <1>a DEF IsShift, TypeOK
  <2>3. [shift[t][j] EXCEPT !.past = TRUE].emp = shift[t][j].emp
    BY <2>2 DEF Shift
  <2>4. shift'[s][i] = IF s = t /\ i = j THEN [shift[t][j] EXCEPT !.past = TRUE] ELSE shift[s][i]
    BY <2>1, <1>a DEF TypeOK
  <2> QED
    BY <2>1, <2>3, <2>4 DEF Changes, IsShift
<1> QED
  BY <1>1, <1>2, <1>3, <1>4, <1>5, <1>6, ApprovalIsSound, EditIsSound, ArchiveIsSound, QuietSteps

\* Shifts are added and reassigned under an approved schedule only, and only
\* while it was not approved yet does an approval add the draft's.
THEOREM OneApproval == Spec => OneApprovalAtATime
<1> DEFINE Once(s, i) ==
              IsShift(s, i)' /\ (~IsShift(s, i) \/ shift'[s][i].emp # shift[s][i].emp) =>
                  /\ status'[s] = "approved"
                  /\ shift'[s][i].born = "approval" /\ ~IsShift(s, i) => status[s] # "approved"
<1>1. ASSUME IInv, [Next]_vars, NEW s \in Schedules, NEW i \in Ids
      PROVE  Once(s, i)
  BY <1>1, ChangeIsSound DEF Changes, Sound
<1>2. IInv /\ [Next]_vars => [\A s \in Schedules, i \in Ids : Once(s, i)]_vars
  BY <1>1
<1> QED
  BY <1>2, Invariant, PTL DEF Spec, OneApprovalAtATime

\* Nobody who has left is given a shift.
THEOREM LeaversGetNothing == Spec => LeaverGetsNothing
<1> DEFINE Kept(s, i, e) == Assigned(s, i, e)' => Assigned(s, i, e)
<1>1. ASSUME IInv, [Next]_vars, NEW s \in Schedules, NEW i \in Ids, NEW e \in left'
      PROVE  Kept(s, i, e)
  <2> SUFFICES ASSUME IsShift(s, i)', shift'[s][i].emp = e, ~ Assigned(s, i, e)
               PROVE  FALSE
    BY DEF Assigned
  <2>1. Changes(s, i)
    BY DEF Changes, Assigned
  <2> QED
    BY <1>1, <2>1, ChangeIsSound DEF Sound
<1>2. IInv /\ [Next]_vars => [\A s \in Schedules, i \in Ids, e \in left' : Kept(s, i, e)]_vars
  BY <1>1
<1> QED
  BY <1>2, Invariant, PTL DEF Spec, LeaverGetsNothing

\* No shift is added at a location in mid-archive: whoever archives it has its
\* row, and whoever adds a shift there waits for that row.
THEOREM ArchiveIsComplete == Spec => NothingSlipsIn
<1> DEFINE Outside(s, i) ==
              IsShift(s, i)' /\ ~IsShift(s, i) =>
                  \A q \in Requests : ~(pc[q] = "discard" /\ job[q].on = shift'[s][i].loc)
<1>1. ASSUME IInv, [Next]_vars, NEW s \in Schedules, NEW i \in Ids
      PROVE  Outside(s, i)
  <2> SUFFICES ASSUME IsShift(s, i)', ~IsShift(s, i), NEW q \in Requests,
                      pc[q] = "discard", job[q].on = shift'[s][i].loc
               PROVE  FALSE
    OBVIOUS
  <2>1. PICK r \in Requests : pc[r] = "write" /\ owner[shift'[s][i].loc] \in {NoOne, r}
    BY <1>1, ChangeIsSound DEF Changes, Sound
  <2>2. owner[shift'[s][i].loc] = q
    BY <1>1 DEF IInv, RInv, HoldInv
  <2> QED
    BY <2>1, <2>2, LifecycleAssumption
<1>2. IInv /\ [Next]_vars => [\A s \in Schedules, i \in Ids : Outside(s, i)]_vars
  BY <1>1
<1> QED
  BY <1>2, Invariant, PTL DEF Spec, NothingSlipsIn
-----------------------------------------------------------------------------
(* Discarded drafts *)

\* r is about to write the schedule s by its id, an edit of the draft or a
\* reject, after it read that it may.
Saving(r, s) == pc[r] = "save" /\ job[r].op \in {"update", "reject"} /\ job[r].on = s

\* No draft is discarded while such a write is on its way.
NotOvertaken ==
    \A s \in Schedules :
        status[s] # "discarded" /\ status'[s] = "discarded" =>
            \A r \in Requests : ~ Saving(r, s)

\* Nobody is about to write a discarded draft.
NoneLate ==
    \A s \in Schedules, r \in Requests : status[s] = "discarded" => ~ Saving(r, s)

\* A step that takes a discarded draft somewhere else is such a write.
LEMMA OnlySavesRevive ==
    ASSUME IInv, [Next]_vars, NEW s \in Schedules, status[s] = "discarded",
           status'[s] # "discarded" \/ entry'[s] # entry[s]
    PROVE  \E r \in Requests : Saving(r, s)
<1>a. TypeOK
  BY DEF IInv
<1>1. CASE UNCHANGED rows
  BY <1>1 DEF rows
<1>2. ASSUME NEW r \in Requests, Save(r)
      PROVE  Saving(r, s)
  BY <1>2, <1>a DEF Save, Saving, TypeOK
<1>3. ASSUME NEW r \in Requests, WriteApprove(r)
      PROVE  FALSE
  <2>1. /\ status[job[r].on] # "discarded"
        /\ status' = [status EXCEPT ![job[r].on] = "approved"]
    BY <1>3, ApprovalWrites
  <2> QED
    BY <2>1, <1>3, <1>a DEF WriteApprove, TypeOK
<1>4. ASSUME NEW r \in Requests, WriteEdit(r) \/ ArchiveEmployee(r)
      PROVE  FALSE
  BY <1>4 DEF WriteEdit, ArchiveEmployee, Abort, rows
<1>5. ASSUME NEW r \in Requests, DiscardDrafts(r)
      PROVE  FALSE
  BY <1>5, <1>a DEF DiscardDrafts, TypeOK
<1>6. ASSUME NEW t \in Schedules, Generate(t)
      PROVE  FALSE
  BY <1>6, <1>a DEF Generate, TypeOK
<1>7. ASSUME NEW t \in Schedules, NEW i \in Ids, Passes(t, i)
      PROVE  FALSE
  BY <1>7 DEF Passes
<1> QED
  BY <1>1, <1>2, <1>3, <1>4, <1>5, <1>6, <1>7, QuietSteps

\* A request that comes to write a schedule by its id has just read that it is
\* not discarded.
LEMMA BeginsToSave ==
    ASSUME IInv, [Next]_vars, NEW r \in Requests, NEW s \in Schedules, Saving(r, s)'
    PROVE  Saving(r, s) \/ (status[s] # "discarded" /\ status' = status)
<1>a. TypeOK
  BY DEF IInv
<1>1. CASE pc'[r] = pc[r] /\ job'[r] = job[r]
  BY <1>1 DEF Saving
<1>2. CASE ~ (pc'[r] = pc[r] /\ job'[r] = job[r])
  <2>1. PICK q \in Requests : Start(q) \/ Step(q) \/ Crash(q)
    BY <1>2 DEF Next, vars, Generate, Passes
  <2>2. ASSUME NEW what, NEW at, Begin(q, what, at)
        PROVE  pc'[r] = at /\ job'[r] = what
    BY <1>2, <2>2, <1>a DEF Begin, Goto, TypeOK
  <2>3. CASE Start(q)
    <3>1. ASSUME NEW t \in Schedules, BeginApprove(q, t)
          PROVE  FALSE
      BY <3>1, <2>2 DEF BeginApprove, Saving
    <3>2. ASSUME NEW t \in Schedules, BeginReject(q, t)
          PROVE  status[s] # "discarded" /\ status' = status
      <4>1. Begin(q, [op |-> "reject", on |-> t], "save") /\ status[t] # "discarded"
        BY <3>2 DEF BeginReject
      <4>2. job'[r] = [op |-> "reject", on |-> t] /\ status' = status
        BY <4>1, <2>2 DEF Begin, rows
      <4> QED
        BY <4>1, <4>2 DEF Saving
    <3>3. ASSUME NEW t \in Schedules, NEW to \in Posted, BeginUpdate(q, t, to)
          PROVE  status[s] # "discarded" /\ status' = status
      <4>1. Begin(q, [op |-> "update", on |-> t, to |-> to], "save") /\ status[t] # "discarded"
        BY <3>3 DEF BeginUpdate
      <4>2. job'[r] = [op |-> "update", on |-> t, to |-> to] /\ status' = status
        BY <4>1, <2>2 DEF Begin, rows
      <4> QED
        BY <4>1, <4>2 DEF Saving
    <3>4. ASSUME NEW t \in Schedules, NEW i, NEW to, BeginEdit(q, t, i, to)
          PROVE  FALSE
      BY <3>4, <2>2 DEF BeginEdit, Saving
    <3>5. ASSUME NEW x, BeginArchive(q, x)
          PROVE  FALSE
      BY <3>5, <2>2 DEF BeginArchive, Saving
    <3>6. ASSUME NEW x, BeginRestore(q, x)
          PROVE  FALSE
      BY <3>6, <2>2 DEF BeginRestore, Saving
    <3>7. CASE \E t \in Schedules : BeginApprove(q, t)
      BY <3>1, <3>7
    <3>8. CASE \E t \in Schedules : BeginReject(q, t)
      BY <3>2, <3>8
    <3>9. CASE \E t \in Schedules, to \in Posted : BeginUpdate(q, t, to)
      BY <3>3, <3>9
    <3>10. CASE \E t \in Schedules, i \in Ids \cup {0}, to \in Employees \cup {Open, Gone} :
                   BeginEdit(q, t, i, to)
      BY <3>4, <3>10
    <3>11. CASE \E x \in Locs \cup Employees : BeginArchive(q, x) \/ BeginRestore(q, x)
      BY <3>5, <3>6, <3>11
    <3> QED
      BY <2>3, <3>7, <3>8, <3>9, <3>10, <3>11 DEF Start
  <2>4. CASE Step(q) \/ Crash(q)
    <3>1. End(q) => pc' = [pc EXCEPT ![q] = "idle"]
      BY DEF End, Goto
    <3>2. \E p \in PCs \ {"save"} : pc' = [pc EXCEPT ![q] = p]
      BY <2>4, <3>1 DEF Step, Crash, Abort, Goto, PCs, Relock, LockLocation, LockEmployee,
         WriteApprove, WriteEdit, Save, ArchiveEmployee, ArchiveLocation, DiscardDrafts
    <3>3. q = r
      BY <2>4, <1>2, <1>a DEF Step, Crash, Abort, End, Goto, TypeOK, Relock, LockLocation,
         LockEmployee, WriteApprove, WriteEdit, Save, ArchiveEmployee, ArchiveLocation,
         DiscardDrafts
    <3> QED
      BY <3>2, <3>3, <1>a DEF Saving, TypeOK
  <2> QED
    BY <2>1, <2>3, <2>4
<1> QED
  BY <1>1, <1>2

\* What takes a discarded draft back is an edit of the draft or a reject, and
\* nothing else: no approval, no edit of shifts, no archive, no restore.
THEOREM DiscardedIsLeftToSaves ==
    Spec => [][\A s \in Schedules :
                  \/ status[s] = "discarded" =>
                        status'[s] = "discarded" /\ entry'[s] = entry[s]
                  \/ \E r \in Requests : Saving(r, s)]_vars
<1>1. IInv /\ [Next]_vars =>
         [\A s \in Schedules :
             \/ status[s] = "discarded" =>
                   status'[s] = "discarded" /\ entry'[s] = entry[s]
             \/ \E r \in Requests : Saving(r, s)]_vars
  BY OnlySavesRevive
<1> QED
  BY <1>1, Invariant, PTL DEF Spec

\* ... and only one whose read an archive has overtaken.  Where no archive
\* discards a draft between another request's read and its write, discarded is
\* final, as it is meant to be.
THEOREM DiscardIsFinalUnlessOvertaken ==
    Spec /\ [][NotOvertaken]_vars => DiscardedIsTerminal
<1> DEFINE Kept(s) == status[s] = "discarded" => status'[s] = "discarded" /\ entry'[s] = entry[s]
<1>1. Init => NoneLate
  BY DEF Init, NoneLate
<1>2. IInv /\ NoneLate /\ [Next]_vars /\ [NotOvertaken]_vars => NoneLate'
  <2> SUFFICES ASSUME IInv, NoneLate, [Next]_vars, [NotOvertaken]_vars,
                      NEW s \in Schedules, NEW r \in Requests,
                      status'[s] = "discarded", Saving(r, s)'
               PROVE  FALSE
    BY DEF NoneLate
  <2>1. CASE status[s] = "discarded"
    BY <2>1, BeginsToSave DEF NoneLate
  <2>2. CASE status[s] # "discarded"
    <3>1. Saving(r, s)
      BY <2>2, BeginsToSave
    <3> QED
      BY <2>2, <3>1 DEF NotOvertaken, vars, rows
  <2> QED
    BY <2>1, <2>2
<1>3. IInv /\ NoneLate /\ [Next]_vars => [\A s \in Schedules : Kept(s)]_vars
  BY OnlySavesRevive DEF NoneLate
<1> QED
  BY <1>1, <1>2, <1>3, Invariant, PTL DEF Spec, DiscardedIsTerminal
=============================================================================
