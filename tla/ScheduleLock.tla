---------------------------- MODULE ScheduleLock ----------------------------
(***************************************************************************)
(* The location-scoped schedule lock: backend/services/schedule_lock.py    *)
(* and the three routes that take it in backend/routers/schedules.py.      *)
(*                                                                         *)
(* The lock is a database table with one row per locked location.  A       *)
(* request locks a SET of locations by walking it in ascending id order    *)
(* inside one savepoint: it sweeps the expired row at each key and inserts *)
(* its own.  Rows carry the request's lock group and an expiry, so a row   *)
(* is a lease: the next request may take an expired one over.              *)
(*                                                                         *)
(* PostgreSQL runs the requests at READ COMMITTED.  `row` is what          *)
(* everybody reads, `temp` holds what the transaction owning `key[l]` has  *)
(* done to key l and not committed yet, and a statement that must lock a   *)
(* key another transaction owns waits.  Each action below is one SQL       *)
(* statement or one commit, so every interleaving of two requests'         *)
(* statements is a behaviour of the model.                                 *)
(***************************************************************************)
EXTENDS Integers, FiniteSets

CONSTANTS
    Requests,    \* requests that take the lock; a request is its lock group
    Generators,  \* those that generate schedules; the rest approve or edit
    NumLocs,     \* the company's locations are 1..NumLocs, in id order
    Employees,   \* active employees, who tie locations together
    TTL,         \* seconds a lease lasts, in ticks of the clock
    MaxClock,    \* bound: the clock stops here
    MaxChunks,   \* bound: locations one generate run writes
    NoRow,       \* no row at this key
    NoOne        \* no transaction owns this key

ASSUME ConstantsAssumption ==
    /\ Generators \subseteq Requests
    /\ NumLocs \in Nat \ {0}
    /\ TTL \in Nat
    /\ MaxClock \in Nat
    /\ MaxChunks \in Nat
    /\ NoOne \notin Requests
    /\ NoRow \notin [grp : Requests, exp : Nat]

VARIABLES
    clock,    \* wall clock, shared by the application servers
    staff,    \* Employee.location_ids
    row,      \* schedule_locks as committed
    temp,     \* schedule_locks as its writers see it
    key,      \* which transaction owns the row lock of a key
    pc,       \* where each request is
    now,      \* acquire's `now`, read once when the call begins
    wanted,   \* acquire's `wanted`, and then what the write relies on
    held,     \* acquire's `held_by_group`
    todo,     \* the keys the walk, or release, has not reached yet
    attempt,  \* _insert_one's `attempt` at the key being inserted
    chunks    \* relocks a generate run has begun

table == <<row, temp, key>>
call  == <<now, wanted, held>>
vars  == <<clock, staff, table, pc, call, todo, attempt, chunks>>

Locs == 1..NumLocs
Row  == [grp : Requests, exp : Nat]

PCs == {"idle", "group", "check", "walk", "insert", "reread", "write", "pause",
        "release", "deleted", "done", "refused", "crashed"}

Ended == {"done", "refused", "crashed"}

-----------------------------------------------------------------------------
(* Rows and keys *)

Mine(r, l) == row[l] # NoRow /\ row[l].grp = r
Live(l, t) == row[l] # NoRow /\ row[l].exp >= t

\* (Mutant: the sweep forgets the expiry.)
Expired_Always(l, t) == row[l] # NoRow

Expired(l, t) == row[l] # NoRow /\ row[l].exp < t

LeaseOf(r) == [grp |-> r, exp |-> now[r] + TTL]

\* The seed plus every location of every active employee who works at one of
\* the seed's locations: one hop, not transitive.
ExpandLockSet(seed) ==
    seed \cup UNION {staff[e] : e \in {x \in Employees : staff[x] \cap seed # {}}}

First(S) == CHOOSE l \in S : \A m \in S : l <= m

\* Keys are visited in ascending location order, by acquire and by release.
\* (Mutant: release deletes them in the order they lie on disk.)
NextKey_Bare(r) ==
    IF pc[r] = "release"
    THEN CHOOSE l \in todo[r] : \A m \in todo[r] : l >= m
    ELSE First(todo[r])

NextKey(r) == First(todo[r])

\* The key of the statement r runs next, when it has to lock that key.
NeedsKey(r, l) ==
    /\ todo[r] # {} /\ l = NextKey(r)
    /\ \/ pc[r] = "walk" /\ l \in held[r] /\ Mine(r, l)
       \/ pc[r] = "walk" /\ l \notin held[r] /\ Expired(l, now[r])
       \/ pc[r] = "insert" /\ (row[l] = NoRow \/ temp[l] # row[l])
       \/ pc[r] = "release" /\ Mine(r, l)

MayLock(r, l) == key[l] \in {NoOne, r}

WaitsOn(r, q) ==
    \E l \in Locs : NeedsKey(r, l) /\ ~MayLock(r, l) /\ key[l] = q

Write(r, l, value) ==
    /\ temp' = [temp EXCEPT ![l] = value]
    /\ key' = [key EXCEPT ![l] = r]
    /\ UNCHANGED row

PublishKeys(r) ==
    /\ row' = [l \in Locs |-> IF key[l] = r THEN temp[l] ELSE row[l]]
    /\ key' = [l \in Locs |-> IF key[l] = r THEN NoOne ELSE key[l]]
    /\ UNCHANGED temp

RollbackKeys(r) ==
    /\ temp' = [l \in Locs |-> IF key[l] = r THEN row[l] ELSE temp[l]]
    /\ key' = [l \in Locs |-> IF key[l] = r THEN NoOne ELSE key[l]]
    /\ UNCHANGED row

Goto(r, to) == pc' = [pc EXCEPT ![r] = to]

-----------------------------------------------------------------------------
Init ==
    /\ clock = 0
    /\ staff \in [Employees -> SUBSET Locs]
    /\ row = [l \in Locs |-> NoRow]
    /\ temp = row
    /\ key = [l \in Locs |-> NoOne]
    /\ pc = [r \in Requests |-> "idle"]
    /\ now = [r \in Requests |-> 0]
    /\ wanted = [r \in Requests |-> {}]
    /\ held = [r \in Requests |-> {}]
    /\ todo = [r \in Requests |-> {}]
    /\ attempt = [r \in Requests |-> 0]
    /\ chunks = [r \in Requests |-> 0]

-----------------------------------------------------------------------------
(* acquire *)

\* LockHeld: the savepoint rolls back what this call inserted and refreshed.
\* It ends the request with a 409, except that a generate run that already
\* has its lock skips the location it was about to write and goes on.
Refuse(r) ==
    /\ RollbackKeys(r)
    /\ Goto(r, IF chunks[r] > 0 THEN "pause" ELSE "refused")
    /\ todo' = [todo EXCEPT ![r] = {}]
    /\ attempt' = [attempt EXCEPT ![r] = 0]

\* acquire begins: `now` and the lock set are fixed.
BeginCall(r, seed) ==
    /\ now' = [now EXCEPT ![r] = clock]
    /\ wanted' = [wanted EXCEPT ![r] = ExpandLockSet(seed)]
    /\ held' = [held EXCEPT ![r] = {}]
    /\ UNCHANGED <<clock, staff, table, todo, attempt>>

\* _lock_locations: approve and edit name several locations, generate the
\* locations it will schedule.
Begin(r) ==
    /\ pc[r] = "idle"
    /\ \E seed \in SUBSET Locs \ {{}} : BeginCall(r, seed)
    /\ Goto(r, "check")
    /\ UNCHANGED chunks

\* _relock_for_write: before each location it writes, a generate run
\* recomputes the lock set for that location and extends its own group.
Relock(r) ==
    /\ pc[r] = "pause"
    /\ chunks[r] < MaxChunks
    /\ \E l \in Locs : BeginCall(r, {l})
    /\ Goto(r, "group")
    /\ chunks' = [chunks EXCEPT ![r] = @ + 1]

\* A call that extends a group reads which rows the group still holds.
ReadGroup(r) ==
    /\ pc[r] = "group"
    /\ held' = [held EXCEPT ![r] = {l \in Locs : Mine(r, l)}]
    /\ Goto(r, "check")
    /\ UNCHANGED <<clock, staff, table, now, wanted, todo, attempt, chunks>>

\* _first_live_conflict, the fast path.
Check(r) ==
    /\ pc[r] = "check"
    /\ \/ /\ \E l \in wanted[r] \ held[r] : Live(l, now[r])
          /\ Refuse(r)
       \/ /\ \A l \in wanted[r] \ held[r] : ~Live(l, now[r])
          /\ Goto(r, "walk")
          /\ todo' = [todo EXCEPT ![r] = wanted[r] \cup held[r]]
          /\ UNCHANGED <<table, attempt>>
    /\ UNCHANGED <<clock, staff, call, chunks>>

\* (Mutant: the UPDATE forgets the group.)
Refresh_AnyGroup(r, l) ==
    /\ l \in held[r]
    /\ row[l] # NoRow /\ MayLock(r, l)
    /\ Write(r, l, LeaseOf(r))
    /\ todo' = [todo EXCEPT ![r] = @ \ {l}]
    /\ UNCHANGED <<pc, attempt>>

\* The walk reaches a key the group held when the call began: refresh it.  A
\* wanted row that vanished since is lost; another one is just dropped.
Refresh(r, l) ==
    /\ l \in held[r]
    /\ \/ /\ Mine(r, l) /\ MayLock(r, l)
          /\ Write(r, l, LeaseOf(r))
          /\ todo' = [todo EXCEPT ![r] = @ \ {l}]
          /\ UNCHANGED <<pc, attempt>>
       \/ /\ ~Mine(r, l) /\ l \in wanted[r]
          /\ Refuse(r)
       \/ /\ ~Mine(r, l) /\ l \notin wanted[r]
          /\ todo' = [todo EXCEPT ![r] = @ \ {l}]
          /\ UNCHANGED <<table, pc, attempt>>

\* _insert_one deletes the row at the key if it has expired.
Sweep(r, l) ==
    /\ l \notin held[r]
    /\ \/ /\ Expired(l, now[r]) /\ MayLock(r, l)
          /\ Write(r, l, NoRow)
       \/ /\ ~Expired(l, now[r])
          /\ UNCHANGED table
    /\ Goto(r, "insert")
    /\ UNCHANGED <<todo, attempt>>

Walk(r) ==
    /\ pc[r] = "walk"
    /\ todo[r] # {}
    /\ Refresh(r, NextKey(r)) \/ Sweep(r, NextKey(r))
    /\ UNCHANGED <<clock, staff, call, chunks>>

\* ... and inserts its own.  The unique index makes it wait for a writer of
\* the key and fail on a committed row nobody is changing.
Insert(r) ==
    /\ pc[r] = "insert"
    /\ LET l == NextKey(r) IN
       \/ /\ row[l] = NoRow \/ temp[l] = NoRow
          /\ MayLock(r, l)
          /\ Write(r, l, LeaseOf(r))
          /\ todo' = [todo EXCEPT ![r] = @ \ {l}]
          /\ attempt' = [attempt EXCEPT ![r] = 0]
          /\ Goto(r, "walk")
       \/ /\ row[l] # NoRow /\ temp[l] = row[l]
          /\ Goto(r, "reread")
          /\ UNCHANGED <<table, todo, attempt>>
    /\ UNCHANGED <<clock, staff, call, chunks>>

\* (Mutant: retried for as long as the holder is not live.)
Reread_Unbounded(r) ==
    /\ pc[r] = "reread"
    /\ LET l == NextKey(r) IN
       \/ Live(l, now[r]) /\ Refuse(r)
       \/ /\ ~Live(l, now[r])
          /\ attempt' = [attempt EXCEPT ![r] = @ + 1]
          /\ Goto(r, "walk")
          /\ UNCHANGED <<table, todo>>
    /\ UNCHANGED <<clock, staff, call, chunks>>

\* (Mutant: the retry is not counted, `while True` for `range(2)`.)
Reread_Uncounted(r) ==
    /\ pc[r] = "reread"
    /\ LET l == NextKey(r) IN
       \/ Live(l, now[r]) /\ Refuse(r)
       \/ /\ ~Live(l, now[r])
          /\ Goto(r, "walk")
          /\ UNCHANGED <<table, todo, attempt>>
    /\ UNCHANGED <<clock, staff, call, chunks>>

\* The insert failed: a live holder refuses the call, a vanished or expired
\* one is retried, once.
Reread(r) ==
    /\ pc[r] = "reread"
    /\ LET l == NextKey(r) IN
       \/ /\ Live(l, now[r]) \/ attempt[r] = 1
          /\ Refuse(r)
       \/ /\ ~Live(l, now[r]) /\ attempt[r] = 0
          /\ attempt' = [attempt EXCEPT ![r] = 1]
          /\ Goto(r, "walk")
          /\ UNCHANGED <<table, todo>>
    /\ UNCHANGED <<clock, staff, call, chunks>>

\* The caller commits the rows at once, then writes under them.  A generate
\* run first runs its pipeline and comes back through Relock.
CommitLock(r) ==
    /\ pc[r] = "walk"
    /\ todo[r] = {}
    /\ PublishKeys(r)
    /\ Goto(r, IF r \in Generators /\ chunks[r] = 0 THEN "pause" ELSE "write")
    /\ UNCHANGED <<clock, staff, call, todo, attempt, chunks>>

-----------------------------------------------------------------------------
(* The write, and release *)

EnterRelease(r) ==
    /\ Goto(r, "release")
    /\ todo' = [todo EXCEPT ![r] = {l \in Locs : Mine(r, l)}]

\* approve and edit commit, or roll back, and release in their finally; a
\* generate run goes on with the next location.
EndWrite(r) ==
    /\ pc[r] = "write"
    /\ \/ r \in Generators /\ Goto(r, "pause") /\ UNCHANGED todo
       \/ r \notin Generators /\ EnterRelease(r)
    /\ UNCHANGED <<clock, staff, table, call, attempt, chunks>>

EndStream(r) ==
    /\ pc[r] = "pause"
    /\ EnterRelease(r)
    /\ UNCHANGED <<clock, staff, table, call, attempt, chunks>>

\* release: SELECT ... FOR UPDATE of the group's rows in location order ...
LockGroupRow(r) ==
    /\ pc[r] = "release"
    /\ todo[r] # {}
    /\ LET l == NextKey(r) IN
       /\ \/ Mine(r, l) /\ MayLock(r, l) /\ Write(r, l, row[l])
          \/ ~Mine(r, l) /\ UNCHANGED table
       /\ todo' = [todo EXCEPT ![r] = @ \ {l}]
    /\ UNCHANGED <<clock, staff, pc, call, attempt, chunks>>

\* (Mutant: only the locations of the last call are deleted.)
DeleteGroup_LastCall(r) ==
    /\ pc[r] = "release"
    /\ todo[r] = {}
    /\ temp' = [l \in Locs |->
                   IF key[l] = r /\ l \in wanted[r] THEN NoRow ELSE temp[l]]
    /\ Goto(r, "deleted")
    /\ UNCHANGED <<clock, staff, row, key, call, todo, attempt, chunks>>

\* ... then DELETE the group ...
DeleteGroup(r) ==
    /\ pc[r] = "release"
    /\ todo[r] = {}
    /\ temp' = [l \in Locs |-> IF key[l] = r THEN NoRow ELSE temp[l]]
    /\ Goto(r, "deleted")
    /\ UNCHANGED <<clock, staff, row, key, call, todo, attempt, chunks>>

\* ... and the caller commits.
Released(r) ==
    /\ pc[r] = "deleted"
    /\ PublishKeys(r)
    /\ Goto(r, "done")
    /\ UNCHANGED <<clock, staff, call, todo, attempt, chunks>>

\* The server dies, the session is lost, a release fails, or the client is
\* gone before the stream starts: the transaction rolls back and committed
\* rows stay until they expire.
Crash(r) ==
    /\ pc[r] \notin Ended \cup {"idle"}
    /\ RollbackKeys(r)
    /\ Goto(r, "crashed")
    /\ todo' = [todo EXCEPT ![r] = {}]
    /\ attempt' = [attempt EXCEPT ![r] = 0]
    /\ UNCHANGED <<clock, staff, call, chunks>>

-----------------------------------------------------------------------------
(* The environment *)

Tick ==
    /\ clock < MaxClock
    /\ clock' = clock + 1
    /\ UNCHANGED <<staff, table, pc, call, todo, attempt, chunks>>

\* A manager changes an employee's locations while requests run.
Reassign(e) ==
    /\ \E S \in SUBSET Locs : staff' = [staff EXCEPT ![e] = S]
    /\ UNCHANGED <<clock, table, pc, call, todo, attempt, chunks>>

Step(r) ==
    \/ Check(r) \/ Walk(r) \/ Insert(r) \/ Reread(r) \/ CommitLock(r)
    \/ Relock(r) \/ ReadGroup(r) \/ EndWrite(r) \/ EndStream(r)
    \/ LockGroupRow(r) \/ DeleteGroup(r) \/ Released(r)

Next ==
    \/ Tick
    \/ \E e \in Employees : Reassign(e)
    \/ \E r \in Requests : Begin(r) \/ Step(r) \/ Crash(r)

Spec == Init /\ [][Next]_vars

\* The event loop runs every request that can run, and the database wakes a
\* waiting statement once the key is free.  Nothing forces a request to
\* arrive, a server to crash, or time to pass.
FairSpec == Spec /\ \A r \in Requests : WF_vars(Step(r))

-----------------------------------------------------------------------------
(* Properties *)

\* Every variable has its type.
TypeOK ==
    /\ clock \in 0..MaxClock
    /\ staff \in [Employees -> SUBSET Locs]
    /\ row \in [Locs -> Row \cup {NoRow}]
    /\ temp \in [Locs -> Row \cup {NoRow}]
    /\ key \in [Locs -> Requests \cup {NoOne}]
    /\ pc \in [Requests -> PCs]
    /\ now \in [Requests -> 0..MaxClock]
    /\ wanted \in [Requests -> SUBSET Locs]
    /\ held \in [Requests -> SUBSET Locs]
    /\ todo \in [Requests -> SUBSET Locs]
    /\ attempt \in [Requests -> 0..1]
    /\ chunks \in [Requests -> 0..MaxChunks]

\* Two requests never write schedules at the same time under lock sets that
\* share a location, unless one of them has outlived its lease: this is what
\* approve, edit and generate take the lock for (#180).
InLease(r) == pc[r] = "write" /\ clock <= now[r] + TTL

ClaimExclusion ==
    \A r, q \in Requests :
        r # q /\ InLease(r) /\ InLease(q) => wanted[r] \cap wanted[q] = {}

\* A request that got a 409, and one that ran its release, leaves no row
\* behind: nobody has to wait for a lease of a finished request to run out.
LeavesNothing ==
    \A r \in Requests : pc[r] \in {"done", "refused"} => \A l \in Locs : ~Mine(r, l)

\* Requests never wait for one another in a circle: among any of them that
\* wait, one waits for a request outside (schedule_lock.py, "no wait cycle
\* can form").  release is included, which the docstring of release is about.
NoWaitCycle ==
    \A S \in SUBSET Requests :
        S # {} => \E r \in S : \A q \in S : ~WaitsOn(r, q)

\* As its callers see it, the lock is a table of leases: what one request
\* does in many statements takes effect as one grant or one return.
Lease == INSTANCE LocationLease
             WITH Groups <- Requests, Term <- TTL, NoLease <- NoRow, lease <- row

LeaseTable == Lease!Spec

\* At most so many statements are left to r.  A key costs a walk up to six: a
\* sweep, an insert and a look at whoever was faster, each of them twice.
KeyWork(r) ==
    6 * Cardinality(todo[r]) + 3 * (1 - attempt[r])
        + CASE pc[r] = "walk"   -> 3
            [] pc[r] = "insert" -> 2
            [] OTHER            -> 1

CallsLeft(r) == (MaxChunks - chunks[r]) * (6 * NumLocs + 10)

StepsLeft(r) ==
    CASE pc[r] \in {"idle", "group"} -> CallsLeft(r) + 7 * NumLocs + 12
      [] pc[r] = "check"             -> CallsLeft(r) + 7 * NumLocs + 11
      [] pc[r] \in {"walk", "insert", "reread"} ->
                                        CallsLeft(r) + NumLocs + 4 + KeyWork(r)
      [] pc[r] = "write"             -> CallsLeft(r) + NumLocs + 4
      [] pc[r] = "pause"             -> CallsLeft(r) + NumLocs + 3
      [] pc[r] = "release"           -> Cardinality(todo[r]) + 2
      [] pc[r] = "deleted"           -> 1
      [] pc[r] \in Ended             -> 0

\* A request does a bounded amount of work: whatever moves it takes one off a
\* number that no other request, no change of staff and no passing of time
\* adds to.  The retry of a lost insert, and the relock of each location of a
\* generate run, are where it could go round.
WorkRunsOut ==
    [][\A r \in Requests :
           \/ StepsLeft(r)' < StepsLeft(r)
           \/ UNCHANGED <<pc[r], now[r], wanted[r], held[r], todo[r], attempt[r],
                          chunks[r]>>]_vars

\* Every request that arrives ends: no statement waits forever, and the
\* retry of a lost insert does not go round and round.
EveryRequestEnds ==
    \A r \in Requests : pc[r] = "check" ~> pc[r] \in Ended
=============================================================================
