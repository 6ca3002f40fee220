---------------------------- MODULE PayableHours ----------------------------
(***************************************************************************)
(* From an arrival to the payroll file: the scans of one location's day    *)
(* (backend/services/check_in.py), the payable hours derived from them or  *)
(* confirmed by a manager, their approval                                  *)
(* (backend/services/time_entries.py), and the export that sends them to   *)
(* payroll (backend/services/payroll_export.py).                           *)
(*                                                                         *)
(* A request runs one statement per action, at READ COMMITTED.  The shifts *)
(* are approved and have begun.  A range stands for the dates, and the     *)
(* location, a payroll request is for: the shifts that fall in it.  The    *)
(* rows a request updates, or reads FOR UPDATE, it owns until it ends.     *)
(***************************************************************************)
EXTENDS Naturals, Sequences

CONSTANTS
    Employees,
    Shifts,
    Worker,     \* who each shift is given to
    Ranges,     \* the ranges payroll requests are for, each a set of shifts
    IdOrder,    \* time_entries.id, random: the order in which rows are updated
    PayOrder,   \* pay date and name: the order in which rows are exported
    Requests,   \* database sessions; each serves one request after another
    Exports,    \* bound: rows payroll_exports ever has
    MaxScans,   \* bound: scans of the day
    NoOne,      \* no request
    NoShift,    \* a scan that matched no shift
    NoScan,     \* a request that is not a scan
    NoEntry,    \* a shift without a time entry
    NoFile      \* not exported; an export that was not made

Arrival == [who : Employees, shift : Shifts \cup {NoShift}, first : BOOLEAN]
Entry   == [source : {"checked_in", "manager_attested"}, approved : BOOLEAN,
            file : Exports \cup {NoFile}]
File    == [rows : SUBSET Shifts, again : BOOLEAN]
Scan    == [who : Employees, code : 0..MaxScans, old : BOOLEAN]
Work    == [range : SUBSET Shifts, have : SUBSET Shifts, todo : SUBSET Shifts,
            again : BOOLEAN]

ASSUME PayrollAssumption ==
    /\ Worker \in [Shifts -> Employees]
    /\ Ranges \subseteq SUBSET Shifts
    /\ IdOrder \in [Shifts -> Nat] /\ PayOrder \in [Shifts -> Nat]
    /\ MaxScans \in Nat
    /\ NoOne \notin Requests /\ NoShift \notin Shifts
    /\ NoScan \notin Scan /\ NoEntry \notin Entry /\ NoFile \notin Exports \cup File

VARIABLES
    arrivals,  \* the day's employee_check_ins; the counter of the i-th is i - 1
    entry,     \* time_entries, by shift
    log,       \* payroll_exports, with the rows of their files
    owner,     \* the transaction that has each time entry locked
    at,        \* where each request is
    scan,      \* what a scan has read
    work       \* the shifts a payroll request has dealt with, and has left

vars == <<arrivals, entry, log, owner, at, scan, work>>

Places == {"idle", "look", "admit", "derive", "arrivals", "insert", "requery",
           "told", "check", "attest", "approve", "export"}

Nothing == [range |-> {}, have |-> {}, todo |-> {}, again |-> FALSE]

Entered == {s \in Shifts : entry[s] # NoEntry}

\* A matched scan or a repeated one: both are evidence of arrival.
Scanned == {s \in Shifts : \E i \in 1..Len(arrivals) : arrivals[i].shift = s}

Sendable(s, again) ==
    entry[s] # NoEntry /\ entry[s].approved /\ (again \/ entry[s].file = NoFile)

Foremost(s, S, order) == s \in S /\ \A t \in S : order[s] <= order[t]

Goto(r, to) == at' = [at EXCEPT ![r] = to]

\* The request ends, committed or rolled back, and so do its row locks.
End(r) ==
    /\ Goto(r, "idle")
    /\ owner' = [s \in Shifts |-> IF owner[s] = r THEN NoOne ELSE owner[s]]
    /\ scan' = [scan EXCEPT ![r] = NoScan]
    /\ work' = [work EXCEPT ![r] = Nothing]

Init ==
    /\ arrivals = <<>>
    /\ entry = [s \in Shifts |-> NoEntry]
    /\ log = [x \in Exports |-> NoFile]
    /\ owner = [s \in Shifts |-> NoOne]
    /\ at = [r \in Requests |-> "idle"]
    /\ scan = [r \in Requests |-> NoScan]
    /\ work = [r \in Requests |-> Nothing]

-----------------------------------------------------------------------------
(* record_check_in *)

\* The scanned code is the one that stands for the count just read; any other
\* is refused and leaves nothing.
Count(r, e) ==
    /\ at[r] = "idle" /\ Len(arrivals) < MaxScans
    /\ Goto(r, "look")
    /\ scan' = [scan EXCEPT ![r] = [who |-> e, code |-> Len(arrivals), old |-> FALSE]]
    /\ UNCHANGED <<arrivals, entry, log, owner, work>>

\* Whether this employee has scanned today.
LookBack(r) ==
    /\ at[r] = "look"
    /\ Goto(r, "admit")
    /\ scan' = [scan EXCEPT ![r].old =
                    \E i \in 1..Len(arrivals) : arrivals[i].who = scan[r].who]
    /\ UNCHANGED <<arrivals, entry, log, owner, work>>

\* The scan may match a shift of theirs or none: that depends on the hour.
Arrived(r, s) == [who |-> scan[r].who, shift |-> s, first |-> ~scan[r].old]

\* (Mutant: counts again and inserts, without looking back again.)
Admit_Recounting(r, s) ==
    /\ at[r] = "admit"
    /\ s # NoShift => Worker[s] = scan[r].who
    /\ Len(arrivals) < MaxScans
    /\ arrivals' = Append(arrivals, Arrived(r, s))
    /\ End(r)
    /\ UNCHANGED <<entry, log>>

\* Two scans of one code have one counter, and the second insert fails.
Admit(r, s) ==
    /\ at[r] = "admit"
    /\ s # NoShift => Worker[s] = scan[r].who
    /\ Len(arrivals) = scan[r].code
    /\ arrivals' = Append(arrivals, Arrived(r, s))
    /\ End(r)
    /\ UNCHANGED <<entry, log>>

CodeUsed(r) ==
    /\ at[r] = "admit"
    /\ Len(arrivals) # scan[r].code
    /\ End(r)
    /\ UNCHANGED <<arrivals, entry, log>>

-----------------------------------------------------------------------------
(* derive_time_entries *)

Begin(r, to, range, todo, again) ==
    /\ at[r] = "idle"
    /\ Goto(r, to)
    /\ work' = [work EXCEPT ![r] = [range |-> range, have |-> {}, todo |-> todo,
                                   again |-> again]]
    /\ UNCHANGED <<arrivals, entry, log, owner, scan>>

Step(r, to, have, todo) ==
    /\ Goto(r, to)
    /\ work' = [work EXCEPT ![r].have = have, ![r].todo = todo]
    /\ UNCHANGED <<arrivals, log, owner, scan>>

Derive(r, range) == Begin(r, "derive", range, {}, FALSE)

ReadEntries(r) ==
    /\ at[r] = "derive"
    /\ Step(r, "arrivals", Entered \cap work[r].range, {})
    /\ UNCHANGED entry

ReadArrivals(r) ==
    /\ at[r] = "arrivals"
    /\ Step(r, "insert", work[r].have, (Scanned \cap work[r].range) \ work[r].have)
    /\ UNCHANGED entry

\* (Mutant: exported_at is left out.)
New_Unstamped(source) == [source |-> source, approved |-> FALSE]

New(source) == [source |-> source, approved |-> FALSE, file |-> NoFile]

\* All rows in one commit: none, if another request has inserted one of them.
InsertAll(r) ==
    /\ at[r] = "insert"
    /\ work[r].todo \cap Entered = {}
    /\ entry' = [s \in Shifts |-> IF s \in work[r].todo THEN New("checked_in") ELSE entry[s]]
    /\ Step(r, "told", work[r].have, work[r].todo)

\* (Mutant: the rows rolled back are reported as created.)
Conflict_Swallowed(r) ==
    /\ at[r] = "insert"
    /\ work[r].todo \cap Entered # {}
    /\ Goto(r, "told")
    /\ UNCHANGED <<arrivals, entry, log, owner, scan, work>>

\* IntegrityError: once more from the start, and then no more.
Conflict(r) ==
    /\ at[r] = "insert"
    /\ work[r].todo \cap Entered # {}
    /\ Goto(r, IF work[r].again THEN "requery" ELSE "derive")
    /\ work' = [work EXCEPT ![r].have = {}, ![r].todo = {}, ![r].again = TRUE]
    /\ UNCHANGED <<arrivals, entry, log, owner, scan>>

Requery(r) ==
    /\ at[r] = "requery"
    /\ Step(r, "told", Entered \cap work[r].range, {})
    /\ UNCHANGED entry

\* DeriveResult: have is what it reports as existing, todo as created.
Told(r) ==
    /\ at[r] = "told"
    /\ End(r)
    /\ UNCHANGED <<arrivals, entry, log>>

-----------------------------------------------------------------------------
(* attest_shift *)

Attest(r, s) == s \notin Entered /\ Begin(r, "check", {}, {s}, FALSE)

CheckScan(r) ==
    /\ at[r] = "check"
    /\ work[r].todo \cap Scanned = {}
    /\ Step(r, "attest", {}, work[r].todo)
    /\ UNCHANGED entry

Refuse(r) ==
    /\ \/ at[r] = "check" /\ work[r].todo \cap Scanned # {}
       \/ at[r] = "attest" /\ work[r].todo \cap Entered # {}
    /\ End(r)
    /\ UNCHANGED <<arrivals, entry, log>>

InsertAttested(r) ==
    /\ at[r] = "attest"
    /\ work[r].todo \cap Entered = {}
    /\ entry' = [s \in Shifts |->
                   IF s \in work[r].todo THEN New("manager_attested") ELSE entry[s]]
    /\ End(r)
    /\ UNCHANGED <<arrivals, log>>

-----------------------------------------------------------------------------
(* approve_entries *)

\* Entries picked from a range, or all of it; those it reads as approved it leaves.
Approve(r, S) ==
    /\ S \subseteq Entered
    /\ \E s \in S : ~entry[s].approved
    /\ Begin(r, "approve", {}, {s \in S : ~entry[s].approved}, FALSE)

Take(r, s) ==
    /\ owner[s] = NoOne
    /\ owner' = [owner EXCEPT ![s] = r]
    /\ work' = [work EXCEPT ![r].todo = @ \ {s}, ![r].have = @ \cup {s}]

Update(r, s) ==
    /\ at[r] = "approve"
    /\ Foremost(s, work[r].todo, IdOrder)
    /\ Take(r, s)
    /\ UNCHANGED <<arrivals, entry, log, at, scan>>

CommitApprove(r) ==
    /\ at[r] = "approve" /\ work[r].todo = {}
    /\ entry' = [s \in Shifts |->
                   IF s \in work[r].have THEN [entry[s] EXCEPT !.approved = TRUE]
                   ELSE entry[s]]
    /\ End(r)
    /\ UNCHANGED <<arrivals, log>>

-----------------------------------------------------------------------------
(* export_approved *)

\* The rows its SELECT FOR UPDATE finds; with again (include_exported) also
\* those a file has been made of.
Export(r, range, again) ==
    /\ \E s \in range : Sendable(s, again)
    /\ Begin(r, "export", {}, {s \in range : Sendable(s, again)}, again)

\* (Mutant: a SELECT without FOR UPDATE.)
LockRow_Reading(r, s) ==
    /\ at[r] = "export"
    /\ Foremost(s, work[r].todo, PayOrder)
    /\ work' = [work EXCEPT ![r].todo = @ \ {s}, ![r].have = @ \cup {s}]
    /\ UNCHANGED <<arrivals, entry, log, owner, at, scan>>

\* It waits for each row's owner, and then looks at the row again.
LockRow(r, s) ==
    /\ at[r] = "export"
    /\ Foremost(s, work[r].todo, PayOrder)
    /\ Sendable(s, work[r].again)
    /\ Take(r, s)
    /\ UNCHANGED <<arrivals, entry, log, at, scan>>

SkipRow(r, s) ==
    /\ at[r] = "export"
    /\ Foremost(s, work[r].todo, PayOrder)
    /\ owner[s] = NoOne /\ ~Sendable(s, work[r].again)
    /\ work' = [work EXCEPT ![r].todo = @ \ {s}]
    /\ UNCHANGED <<arrivals, entry, log, owner, at, scan>>

\* (Mutant: a file of exported hours stamps them again.)
CommitExport_Restamping(r, x) ==
    /\ at[r] = "export" /\ work[r].todo = {} /\ work[r].have # {}
    /\ log[x] = NoFile
    /\ log' = [log EXCEPT ![x] = [rows |-> work[r].have, again |-> work[r].again]]
    /\ entry' = [s \in Shifts |->
                   IF s \in work[r].have THEN [entry[s] EXCEPT !.file = x] ELSE entry[s]]
    /\ End(r)
    /\ UNCHANGED arrivals

\* The stamps and the log in one commit. A row that has its stamp keeps it.
CommitExport(r, x) ==
    /\ at[r] = "export" /\ work[r].todo = {} /\ work[r].have # {}
    /\ log[x] = NoFile
    /\ log' = [log EXCEPT ![x] = [rows |-> work[r].have, again |-> work[r].again]]
    /\ entry' = [s \in Shifts |->
                   IF s \in work[r].have /\ entry[s].file = NoFile
                   THEN [entry[s] EXCEPT !.file = x] ELSE entry[s]]
    /\ End(r)
    /\ UNCHANGED arrivals

NothingToExport(r) ==
    /\ at[r] = "export" /\ work[r].todo = {} /\ work[r].have = {}
    /\ End(r)
    /\ UNCHANGED <<arrivals, entry, log>>

\* A server dies, a statement fails, or PostgreSQL breaks a circle of waits.
Crash(r) ==
    /\ at[r] # "idle"
    /\ End(r)
    /\ UNCHANGED <<arrivals, entry, log>>

-----------------------------------------------------------------------------
ScanNext(r) ==
    \/ \E e \in Employees : Count(r, e)
    \/ LookBack(r)
    \/ \E s \in Shifts \cup {NoShift} : Admit(r, s)
    \/ CodeUsed(r)

DeriveNext(r) ==
    \/ \E range \in Ranges : Derive(r, range)
    \/ ReadEntries(r) \/ ReadArrivals(r) \/ InsertAll(r)
    \/ Conflict(r) \/ Requery(r) \/ Told(r)

AttestNext(r) ==
    \/ \E s \in Shifts : Attest(r, s)
    \/ CheckScan(r) \/ Refuse(r) \/ InsertAttested(r)

ApproveNext(r) ==
    \/ \E S \in SUBSET Shifts : Approve(r, S)
    \/ \E s \in Shifts : Update(r, s)
    \/ CommitApprove(r)

ExportNext(r) ==
    \/ \E range \in Ranges, again \in BOOLEAN : Export(r, range, again)
    \/ \E s \in Shifts : LockRow(r, s) \/ SkipRow(r, s)
    \/ \E x \in Exports : CommitExport(r, x)
    \/ NothingToExport(r)

Next ==
    \E r \in Requests :
        ScanNext(r) \/ DeriveNext(r) \/ AttestNext(r) \/ ApproveNext(r) \/ ExportNext(r)
        \/ Crash(r)

Spec == Init /\ [][Next]_vars

-----------------------------------------------------------------------------
(* Properties *)

\* Types, and the bound on scans.
TypeOK ==
    /\ arrivals \in Seq(Arrival) /\ Len(arrivals) <= MaxScans
    /\ entry \in [Shifts -> Entry \cup {NoEntry}]
    /\ log \in [Exports -> File \cup {NoFile}]
    /\ owner \in [Shifts -> Requests \cup {NoOne}]
    /\ at \in [Requests -> Places]
    /\ scan \in [Requests -> Scan \cup {NoScan}]
    /\ work \in [Requests -> Work]

\* Of an employee's scans of the day the earliest is the one that counts for
\* punctuality, and it alone: however two devices' scans interleave, a repeat is
\* recorded as a duplicate, since who inserts after another scan has counted
\* again after it, and looks back only then (check_in.py:170-237).
FirstScanKeepsTheNumber ==
    \A i \in 1..Len(arrivals) :
        arrivals[i].first <=> \A j \in 1..(i - 1) : arrivals[j].who # arrivals[i].who

\* What derive reports as created or as existing is in the database, and nothing
\* is both, also when it lost its insert twice (time_entries.py:305-391).
ReportedRowsExist ==
    \A r \in Requests : at[r] = "told" =>
        /\ work[r].have \cup work[r].todo \subseteq Entered
        /\ work[r].have \cap work[r].todo = {}

Plain(x) == log[x] # NoFile /\ ~log[x].again

\* No two exports send the same hours, unless one was asked to repeat what has
\* been exported: a double click pays nobody twice (payroll_export.py:169-174).
NoHoursSentTwice ==
    \A x, y \in Exports :
        Plain(x) /\ Plain(y) /\ x # y => log[x].rows \cap log[y].rows = {}

\* The audit rows and the stamps cannot disagree: an export stamps no row that is
\* not in its file, a plain one all of them, and every row in a file is approved
\* (payroll_export.py:148-156).
LogAgreesWithStamps ==
    \A x \in Exports :
        LET stamped == {s \in Entered : entry[s].file = x} IN
        /\ log[x] = NoFile => stamped = {}
        /\ log[x] # NoFile => /\ stamped \subseteq log[x].rows
                              /\ log[x].rows \subseteq {s \in Entered : entry[s].approved}
        /\ Plain(x) => stamped = log[x].rows
=============================================================================
