----------------------- MODULE CancellationLifecycle -----------------------
(***************************************************************************)
(* The end of one ownership group's subscription: the daily loop that      *)
(* reminds a canceled group and deletes it when its grace period is over,  *)
(* the reactivation that may come in between, and the payroll archive such *)
(* a group may buy, to be written before the deletion                      *)
(* (backend/services/billing.py, backend/services/payroll_archive.py,      *)
(* backend/routers/billing.py, backend/routers/webhooks.py).               *)
(*                                                                         *)
(* Every server process runs the loop, and no lock keeps two of them from  *)
(* walking the groups at once.  PostgreSQL runs all of this at READ        *)
(* COMMITTED: a read sees what is committed; an UPDATE of the group's row, *)
(* and a SELECT ... FOR UPDATE, wait for whoever has it locked.  What is   *)
(* done at Stripe (a payment, a refund) stays done when a transaction      *)
(* rolls back.  Each action is one statement, call or commit, or several   *)
(* between which nobody else can see or change what they touch.            *)
(***************************************************************************)
EXTENDS Naturals, FiniteSets

CONSTANTS
    Workers,      \* server processes, each with its daily loop
    Requests,     \* requests being served; each serves one after another
    NumSessions,  \* bound: Checkout sessions for the archive, in their order
    RemindAfter,  \* days after which a canceled group is reminded
    Grace,        \* SUBSCRIPTION_GRACE_DAYS
    MaxDay,       \* bound: the calendar ends here
    NoOne         \* nobody has the row locked

ASSUME LifecycleAssumption ==
    /\ NumSessions \in Nat /\ MaxDay \in Nat
    /\ RemindAfter \in Nat /\ Grace \in Nat /\ RemindAfter <= Grace
    /\ Workers \cap Requests = {}
    /\ NoOne \notin Workers \cup Requests

VARIABLES
    day,       \* the date
    \* The database
    group,     \* the ownership_groups row
    archive,   \* the payroll_archives row
    lock,      \* the worker that has the group's row FOR UPDATE
    \* Outside
    opened,    \* Checkout sessions created so far
    paid,      \* those that were paid
    refunded,  \* payments given back, or handed to the operator to give back
    reported,  \* payments some report of which was answered
    warned,    \* the loop sent a reminder since the group was canceled
    \* The workers and the requests
    pc,        \* where each is
    now,       \* the loop's `now`
    seen,      \* the group as it read it
    sessions,  \* Checkout sessions it knows of and has yet to deal with
    pending,   \* the loop's archive_pending
    draft      \* the archive row it has written and not committed

stripe  == <<opened, paid, refunded, reported>>
world   == <<day, group, archive, lock, stripe, warned>>
carried == <<seen, sessions>>
run     == <<now, pending, draft>>
vars    == <<world, pc, carried, run>>

Days     == 0..MaxDay
Sessions == 1..NumSessions
Actors   == Workers \cup Requests
Notices  == {"reminder", "deleted"}

\* `told` holds the notices that are stamped in the row.
Group  == [there : BOOLEAN, canceled : BOOLEAN, at : Days, told : SUBSET Notices]
Gone   == [there |-> FALSE, canceled |-> FALSE, at |-> 0, told |-> {}]
Active == [Gone EXCEPT !.there = TRUE]

\* A row's session, 0 while there is no row, and whether it is written.
Archive   == [session : 0..NumSessions, written : BOOLEAN]
NoArchive == [session |-> 0, written |-> FALSE]

WorkerPCs  == {"idle", "get", "remind", "stamp", "purchase", "list", "row", "notice",
               "lock", "reconcile", "write", "delete"}
RequestPCs == {"idle", "list", "create", "known", "record", "refund",
               "reactivate", "cancel"}

-----------------------------------------------------------------------------
(* The row, and who may change it *)

Goto(a, to) == pc' = [pc EXCEPT ![a] = to]

\* An UPDATE of the group's row goes ahead.
MayUpdate == lock = NoOne

Bought == archive # NoArchive

InGrace(g, d)     == g.there /\ g.canceled /\ d < g.at + Grace
DeletionDue(g, d) == g.there /\ g.canceled /\ g.at + Grace <= d
ReminderDue(g, d) == g.canceled /\ g.at + RemindAfter <= d

\* What paid_archive_sessions may answer: the payments that were not refunded.
\* One whose refund failed is the operator's, and listed all the same.
PaidSessions == {paid \ R : R \in SUBSET refunded}

Oldest(S) == CHOOSE s \in S : \A t \in S : s <= t

\* What an actor carries is dropped when it is done.
Forget(a) ==
    /\ Goto(a, "idle")
    /\ seen' = [seen EXCEPT ![a] = Gone]
    /\ sessions' = [sessions EXCEPT ![a] = {}]

Leave(w) ==
    /\ Forget(w)
    /\ now' = [now EXCEPT ![w] = 0]
    /\ pending' = [pending EXCEPT ![w] = FALSE]
    /\ draft' = [draft EXCEPT ![w] = NoArchive]

Init ==
    /\ day = 0
    /\ group = Active
    /\ archive = NoArchive
    /\ lock = NoOne
    /\ opened = 0
    /\ paid = {} /\ refunded = {} /\ reported = {}
    /\ warned = FALSE
    /\ pc = [a \in Actors |-> "idle"]
    /\ now = [w \in Workers |-> 0]
    /\ seen = [a \in Actors |-> Gone]
    /\ sessions = [a \in Actors |-> {}]
    /\ pending = [w \in Workers |-> FALSE]
    /\ draft = [w \in Workers |-> NoArchive]

-----------------------------------------------------------------------------
(* process_cancellation_lifecycle *)

\* A run takes the time and the ids of the canceled groups.
StartRun(w) ==
    /\ pc[w] = "idle"
    /\ group.canceled
    /\ now' = [now EXCEPT ![w] = day]
    /\ Goto(w, "get")
    /\ UNCHANGED <<world, seen, sessions, pending, draft>>

\* When it comes to this group, it reads it.  The session keeps the object:
\* until the row is locked, `seen` is all the run knows of the group.
GetGroup(w) ==
    /\ pc[w] = "get"
    /\ \/ /\ group.canceled
          /\ seen' = [seen EXCEPT ![w] = group]
          /\ Goto(w, "remind")
          /\ UNCHANGED <<sessions, run>>
       \/ ~group.canceled /\ Leave(w)
    /\ UNCHANGED world

\* The reminder goes out in a session of its own, whose log entry refers to the
\* group's row and waits for who has it locked, and which finds nobody to
\* write to once the group is gone ...
Remind(w) ==
    /\ pc[w] = "remind"
    /\ \/ /\ ReminderDue(seen[w], now[w]) /\ "reminder" \notin seen[w].told
          /\ MayUpdate
          /\ warned' = (warned \/ group.there)
          /\ Goto(w, "stamp")
       \/ /\ ~ReminderDue(seen[w], now[w]) \/ "reminder" \in seen[w].told
          /\ Goto(w, "purchase")
          /\ UNCHANGED warned
    /\ UNCHANGED <<day, group, archive, lock, stripe, carried, run>>

\* An UPDATE of a row that is gone fails the run.
Stamp(w, notice, next) ==
    /\ MayUpdate
    /\ \/ /\ group.there
          /\ group' = [group EXCEPT !.told = @ \cup {notice}]
          /\ Goto(w, next)
          /\ UNCHANGED <<carried, run>>
       \/ ~group.there /\ Leave(w) /\ UNCHANGED group

\* ... and is stamped after.
StampReminder(w) ==
    /\ pc[w] = "stamp"
    /\ Stamp(w, "reminder", "purchase")
    /\ UNCHANGED <<day, archive, lock, stripe, warned>>

\* A group that is due: is there a purchase to be written?
FindPurchase(w) ==
    /\ pc[w] = "purchase"
    /\ \/ /\ DeletionDue(seen[w], now[w])
          /\ pending' = [pending EXCEPT ![w] = Bought /\ ~archive.written]
          /\ Goto(w, "list")
          /\ UNCHANGED <<now, seen, sessions, draft>>
       \/ ~DeletionDue(seen[w], now[w]) /\ Leave(w)
    /\ UNCHANGED world

\* ... or a payment that nobody recorded?
ListPayments(w) ==
    /\ pc[w] = "list"
    /\ \E S \in PaidSessions : sessions' = [sessions EXCEPT ![w] = S]
    /\ Goto(w, "row")
    /\ UNCHANGED <<world, seen, run>>

FindRow(w) ==
    /\ pc[w] = "row"
    /\ pending' = [pending EXCEPT ![w] = @ \/ (sessions[w] # {} /\ ~Bought)]
    /\ Goto(w, "notice")
    /\ UNCHANGED <<world, now, seen, sessions, draft>>

\* Without a purchase to write, the managers are told now, and once.
Notice(w) ==
    /\ pc[w] = "notice"
    /\ \/ /\ "deleted" \notin seen[w].told /\ ~pending[w]
          /\ Stamp(w, "deleted", "lock")
       \/ /\ "deleted" \in seen[w].told \/ pending[w]
          /\ Goto(w, "lock")
          /\ UNCHANGED <<group, carried, run>>
    /\ UNCHANGED <<day, archive, lock, stripe, warned>>

\* (Mutant: the row is locked and not read again.)
LockGroup_NoReread(w) ==
    /\ pc[w] = "lock"
    /\ MayUpdate
    /\ \/ group.there /\ lock' = w /\ Goto(w, "reconcile") /\ UNCHANGED <<carried, run>>
       \/ ~group.there /\ Leave(w) /\ UNCHANGED lock
    /\ UNCHANGED <<day, group, archive, stripe, warned>>

\* The row is locked and read again: a reactivation may have come first.
LockGroup(w) ==
    /\ pc[w] = "lock"
    /\ MayUpdate
    /\ \/ /\ DeletionDue(group, now[w])
          /\ lock' = w
          /\ Goto(w, "reconcile")
          /\ UNCHANGED <<carried, run>>
       \/ ~DeletionDue(group, now[w]) /\ Leave(w) /\ UNCHANGED lock
    /\ UNCHANGED <<day, group, archive, stripe, warned>>

\* (Mutant: the payments are taken for recorded ones.)
Reconcile_NoInsert(w) ==
    /\ pc[w] = "reconcile"
    /\ draft' = [draft EXCEPT ![w] = archive]
    /\ refunded' = refunded \cup (IF Bought THEN sessions[w] \ {archive.session} ELSE {})
    /\ Goto(w, "write")
    /\ UNCHANGED <<day, group, archive, lock, opened, paid, reported, warned,
                   now, seen, sessions, pending>>

\* reconcile_sessions_locked: the oldest payment nobody recorded becomes the
\* purchase, if there is none, and the others are refunded.
Reconcile(w) ==
    /\ pc[w] = "reconcile"
    /\ LET kept == IF Bought \/ sessions[w] = {} THEN archive
                   ELSE [session |-> Oldest(sessions[w]), written |-> FALSE]
       IN /\ draft' = [draft EXCEPT ![w] = kept]
          /\ refunded' = refunded \cup (sessions[w] \ {kept.session})
    /\ Goto(w, "write")
    /\ UNCHANGED <<day, group, archive, lock, opened, paid, reported, warned,
                   now, seen, sessions, pending>>

\* _write_paid_archive: what was bought goes to storage.
WriteArchive(w) ==
    /\ pc[w] = "write"
    /\ draft' = [draft EXCEPT ![w].written = draft[w].session # 0]
    /\ Goto(w, "delete")
    /\ UNCHANGED <<world, now, seen, sessions, pending>>

\* delete_og_and_dependents, and the commit.
DeleteGroup(w) ==
    /\ pc[w] = "delete"
    /\ group' = Gone
    /\ archive' = IF draft[w] = NoArchive THEN archive ELSE draft[w]
    /\ lock' = NoOne
    /\ Leave(w)
    /\ UNCHANGED <<day, stripe, warned>>

\* The process dies, Stripe cannot answer, the archive cannot be stored, or
\* the delete hits a row that still refers to the group.
GiveUp(w) ==
    /\ pc[w] # "idle"
    /\ lock' = IF lock = w THEN NoOne ELSE lock
    /\ Leave(w)
    /\ UNCHANGED <<day, group, archive, stripe, warned>>

Loop(w) ==
    \/ StartRun(w) \/ GetGroup(w) \/ Remind(w) \/ StampReminder(w)
    \/ FindPurchase(w) \/ ListPayments(w) \/ FindRow(w) \/ Notice(w)
    \/ LockGroup(w) \/ Reconcile(w) \/ WriteArchive(w) \/ DeleteGroup(w)

-----------------------------------------------------------------------------
(* The archive is offered, sold and reported *)

\* The status of the offer, and the checkout, of a group in its grace period.
Offer(p) ==
    /\ pc[p] = "idle"
    /\ ~Bought /\ InGrace(group, day)
    /\ Goto(p, "list")
    /\ UNCHANGED <<world, carried, run>>

\* sync_unrecorded_purchase: a payment that was never recorded is recorded
\* before another one is asked for.  The purchase is looked for first, at any
\* time since the offer was.
AskStripe(p) ==
    /\ pc[p] = "list"
    /\ \/ Bought /\ Forget(p)
       \/ \E S \in PaidSessions :
             /\ sessions' = [sessions EXCEPT ![p] = S]
             /\ Goto(p, IF S = {} THEN "create" ELSE "known")
             /\ UNCHANGED seen
    /\ UNCHANGED <<world, run>>

\* The checkout creates a session; the status page only shows the offer.
Create(p) ==
    /\ pc[p] = "create"
    /\ opened' \in {opened, opened + 1} /\ opened' <= NumSessions
    /\ Forget(p)
    /\ UNCHANGED <<day, group, archive, lock, paid, refunded, reported, warned, run>>

\* The customer pays, in any tab, as long as the session is open.
Pay(s) ==
    /\ s <= opened /\ s \notin paid
    /\ paid' = paid \cup {s}
    /\ UNCHANGED <<day, group, archive, lock, opened, refunded, reported, warned, pc,
                   carried, run>>

\* The return page and the webhook report a payment: together, more than
\* once, or late.
Report(p, s) ==
    /\ pc[p] = "idle"
    /\ s \in paid
    /\ sessions' = [sessions EXCEPT ![p] = {s}]
    /\ Goto(p, "known")
    /\ UNCHANGED <<world, seen, run>>

Current(p) == Oldest(sessions[p])

\* (Mutant: the caller goes on after the last payment it listed.)
Settle_Again(p) ==
    /\ reported' = reported \cup {Current(p)}
    /\ sessions' = [sessions EXCEPT ![p] = @ \ {Current(p)}]
    /\ Goto(p, "known")

\* record_archive_purchase is through with a payment; what the caller listed
\* after it comes next.
Settle(p) ==
    /\ reported' = reported \cup {Current(p)}
    /\ sessions' = [sessions EXCEPT ![p] = @ \ {Current(p)}]
    /\ Goto(p, IF sessions[p] = {Current(p)} THEN "idle" ELSE "known")

\* (Mutant: any purchase of the group will do.)
LookUp_AnyPurchase(p) ==
    /\ pc[p] = "known"
    /\ \/ Bought /\ Settle(p)
       \/ ~Bought /\ Goto(p, "record") /\ UNCHANGED <<reported, sessions>>
    /\ UNCHANGED <<day, group, archive, lock, opened, paid, refunded, warned, seen, run>>

\* record_archive_purchase: a payment that is stored needs no lock.
LookUp(p) ==
    /\ pc[p] = "known"
    /\ \/ archive.session = Current(p) /\ Settle(p)
       \/ /\ archive.session # Current(p)
          /\ Goto(p, "record")
          /\ UNCHANGED <<reported, sessions>>
    /\ UNCHANGED <<day, group, archive, lock, opened, paid, refunded, warned, seen, run>>

\* (Mutant: the purchase is stored without the group's lock.)
Record_Unlocked(p) ==
    /\ pc[p] = "record"
    /\ \/ /\ group.there /\ ~Bought
          /\ archive' = [session |-> Current(p), written |-> FALSE]
          /\ Settle(p)
       \/ /\ group.there /\ archive.session = Current(p)
          /\ Settle(p)
          /\ UNCHANGED archive
       \/ /\ ~group.there \/ (Bought /\ archive.session # Current(p))
          /\ Goto(p, "refund")
          /\ UNCHANGED <<archive, reported, sessions>>
    /\ UNCHANGED <<day, group, lock, opened, paid, refunded, warned, seen, run>>

\* The others wait for the lock, look again, and store the payment unless
\* the group has a purchase or is gone.
Record(p) ==
    /\ pc[p] = "record"
    /\ MayUpdate
    /\ \/ /\ group.there /\ ~Bought
          /\ archive' = [session |-> Current(p), written |-> FALSE]
          /\ Settle(p)
       \/ /\ group.there /\ archive.session = Current(p)
          /\ Settle(p)
          /\ UNCHANGED archive
       \/ /\ ~group.there \/ (Bought /\ archive.session # Current(p))
          /\ Goto(p, "refund")
          /\ UNCHANGED <<archive, reported, sessions>>
    /\ UNCHANGED <<day, group, lock, opened, paid, refunded, warned, seen, run>>

\* _refund, once that transaction is over.
Refund(p) ==
    /\ pc[p] = "refund"
    /\ refunded' = refunded \cup {Current(p)}
    /\ Settle(p)
    /\ UNCHANGED <<day, group, archive, lock, opened, paid, warned, seen, run>>

-----------------------------------------------------------------------------
(* Reactivation and cancellation *)

\* confirm_reactivation, and confirm_upgrade: the group is read, and Stripe
\* is asked about the new subscription ...
OpenReactivation(p) ==
    /\ pc[p] = "idle"
    /\ group.there
    /\ seen' = [seen EXCEPT ![p] = group]
    /\ Goto(p, "reactivate")
    /\ UNCHANGED <<world, sessions, run>>

\* ... and what is set in the row as it was read is cleared.  An attribute
\* that is set to the value it was read with is not part of the UPDATE.
Reactivate(p) ==
    /\ pc[p] = "reactivate"
    /\ MayUpdate /\ group.there
    /\ group' = [group EXCEPT
                    !.canceled = @ /\ ~seen[p].canceled,
                    !.at = IF seen[p].canceled THEN 0 ELSE @,
                    !.told = @ \ seen[p].told]
    /\ Forget(p)
    /\ UNCHANGED <<day, archive, lock, stripe, warned, run>>

\* customer.subscription.deleted
SubscriptionDeleted(p) ==
    /\ pc[p] = "idle"
    /\ group.there /\ ~group.canceled
    /\ Goto(p, "cancel")
    /\ UNCHANGED <<world, carried, run>>

Cancel(p) ==
    /\ pc[p] = "cancel"
    /\ MayUpdate /\ group.there
    /\ group' = [group EXCEPT !.canceled = TRUE, !.at = day]
    /\ warned' = (warned /\ group.canceled)
    /\ Forget(p)
    /\ UNCHANGED <<day, archive, lock, stripe, run>>

\* A request fails: its process dies, Stripe cannot answer, or the row it
\* wants to update is gone.
Fail(p) ==
    /\ pc[p] # "idle"
    /\ Forget(p)
    /\ UNCHANGED <<world, run>>

Tick ==
    /\ day < MaxDay
    /\ day' = day + 1
    /\ UNCHANGED <<group, archive, lock, stripe, warned, pc, carried, run>>

Serve(p) ==
    \/ AskStripe(p) \/ Create(p) \/ LookUp(p) \/ Record(p) \/ Refund(p)
    \/ Reactivate(p) \/ Cancel(p)

Arrive(p) ==
    \/ Offer(p) \/ OpenReactivation(p) \/ SubscriptionDeleted(p)
    \/ \E s \in Sessions : Report(p, s)

Next ==
    \/ Tick
    \/ \E w \in Workers : Loop(w) \/ GiveUp(w)
    \/ \E p \in Requests : Arrive(p) \/ Serve(p) \/ Fail(p)
    \/ \E s \in Sessions : Pay(s)

Spec == Init /\ [][Next]_vars

-----------------------------------------------------------------------------
(* Properties *)

\* Every variable has its type.
TypeOK ==
    /\ day \in Days
    /\ group \in Group /\ archive \in Archive
    /\ lock \in Workers \cup {NoOne}
    /\ opened \in 0..NumSessions
    /\ paid \subseteq Sessions /\ refunded \subseteq Sessions /\ reported \subseteq Sessions
    /\ warned \in BOOLEAN
    /\ pc \in [Actors -> WorkerPCs \cup RequestPCs]
    /\ now \in [Workers -> Days]
    /\ seen \in [Actors -> Group]
    /\ sessions \in [Actors -> SUBSET Sessions]
    /\ pending \in [Workers -> BOOLEAN]
    /\ draft \in [Workers -> Archive]
    /\ \A p \in Requests : pc[p] \in {"known", "record", "refund"} => sessions[p] # {}

\* A purchase is written when its group is deleted, and not before: a paid
\* group is never deleted without its archive, and a deletion that fails
\* leaves the row 'paid'.
WrittenWithTheDeletion == Bought => (archive.written <=> ~group.there)

\* A payment somebody reported and got an answer for is the purchase the
\* group has, or it was given back.
ReportedIsSettled ==
    \A s \in reported : s = archive.session \/ s \in refunded

\* A run that Stripe told of a payment does not delete the group without an
\* archive.
KnownPaymentIsHonoured ==
    [][\A w \in Workers :
          /\ lock = w /\ sessions[w] # {}
          /\ group.there /\ ~group'.there
          => archive'.written]_vars

\* Only a group that is canceled, and past its grace period, is deleted: a
\* reactivation that commits in time saves it.
DeletedWhenDue ==
    [][group.there /\ ~group'.there => DeletionDue(group, day)]_vars

\* No group is deleted that was not reminded since it was canceled.
WarnedBeforeDeletion == ~group.there => warned
=============================================================================
