# Verification of wiz_scheduler

TLA+ models, TLC configurations and TLAPS proofs for wiz_scheduler, a
multi-tenant shift scheduler: its backend (FastAPI, SQLAlchemy async, PostgreSQL,
LangGraph, Stripe), and the page of its React frontend on which managers review
schedules. Everything is translated from the code under `src/backend` and
`src/frontend/src`; `PROJECT.json` maps each definition to the lines it stands
for.

The product is a set of request handlers that share nothing but the database.
Each handler is a short sequential program of SQL statements; several servers
run many of them at once, each may die between two statements, and a few run
for minutes (schedule generation streams a language-model pipeline). What is
hard to get right, and hard to test, is what happens *between* the statements
of one handler. That is what is modelled. The Schedule page has the same trouble
in one browser tab: a handler that awaits an answer goes on with what it had when
it was called, while the manager, a stream and other answers move the page on.

Contents: [inventory](#inventory), [modules](#modules),
[how a request is modelled](#how-a-request-is-modelled), [runs](#runs),
[fairness](#fairness), [proofs](#proofs), [findings](#findings),
[plan](#plan), [not modelled](#what-is-not-modelled).

## Inventory

### Schedules and people

| component | state it keeps | operations | interacts with | hard behaviour | what makes it correct |
|---|---|---|---|---|---|
| schedule lock (`services/schedule_lock.py`) | `schedule_locks`: one row per locked location, with a group and an expiry | `acquire`, `release`, `expand_lock_set` | the three routes that write schedules; employees' locations | leases that run out under a slow holder, sweeps, insert races, refresh of a group, lock order, crash between commit and release | writers within their leases have disjoint lock sets; nothing is left by a finished request; no wait cycle; every request ends |
| schedules API (`routers/schedules.py`) | `shift_schedules` (status, entries), `shifts` | generate, approve, edit, save, reject | schedule lock, archive, quota, billing, pipeline | status read before a lock is waited for; write by primary key; minutes-long streams | approvals act on fresh rows, once; discarded is terminal |
| archive (`services/archive.py`) | `archived_at` of employees, locations, roles; the future shifts they touch | archive and restore, erase | schedules (row locks), invites, location quota | racing approve and edit; the two phases of archive_location | nobody who left is given a shift; no future shift survives at an archived location |
| pipeline (`scheduling/`) | graph state of one run: windows, drafts of hours, rest and caps, the shifts at hand, the retry | load a location, ask the model or walk the template, validate, reconcile, emit | lock seed, preferences, the model | answers nobody can trust; drafts carried from location to location; a retry decided by fields of an earlier turn | over all locations nobody is in two places, above their hours or caps, short of rest, or with whom they are kept apart; a run ends |
| location quota, plan limits (`services/location_quota.py`, `plan.py`) | counts of schedules, locations, employees, managers per ownership group; the group row lock | check, re-check under lock, insert | generate, archive (a discarded draft still counts), billing | count-then-insert, several companies in a group, plan read before the lock | allowance never exceeded |
| check-in, time entries, payroll export (`services/check_in.py`, `time_entries.py`, `payroll_export.py`) | `employee_check_ins` with their counters, `time_entries`, `payroll_exports` | scan, derive, attest, approve, export | shifts, archive | two scans of one code, derive while attesting, a double export | the earliest scan alone counts; a report is true; no hours are sent twice; stamps and log agree |
| Schedule page (`frontend/src/pages/manager/Schedule.tsx`, `hooks/useScheduleStream.ts`) | cards and their edited lists, marks, one number per save, three flags | generate, edit and save, approve, reject, reset | schedules API, credits | several requests in flight, answers in any order or never, closures that read old state | no answer takes an edit back; what is approved is what was shown; no button is stuck |
| invites (`routers/invites.py`) | `employee_invites`, user accounts | create, accept, revoke | archive, erasure | accept racing accept and archive | an archived employee gets no account |

### Money

| component | state | operations | hard behaviour | what makes it correct |
|---|---|---|---|---|
| credits (`services/billing.py`, `routers/billing.py`) | group balance, auto-reload settings and hold, charges | buy, debit with auto-reload, retry, settings | read-modify-write, charge at Stripe before the commit, resent purchases | every charge credited once; a hold stops charges |
| monthly invoice | pending charges | invoice.upcoming webhook and weekly loop | both at once | one charge per group and month |
| cancellation, payroll archive sale (`services/billing.py`, `services/payroll_archive.py`) | a group's `canceled_at` and its notices, `payroll_archives`; payments at Stripe | daily loop, reactivate, purchase reported by the return page, the webhook, the status page and the loop | deletion racing reactivation, payment, or another server's loop | a paid group is never deleted without its archive, a payment is kept or given back, a reactivated group not deleted |
| Stripe webhooks | none of its own | duplicate and reorder events | idempotence | |

### The rest

Accounts, managers' invites and email verification (single-row writes),
preference submissions (a review under one row lock), imports from 7shifts and
Deputy (I/O and mapping), rate limiters, retention and GDPR jobs, tenancy and
location scope (a filter on every query), the background loops of `main.py`,
the other pages of the frontend, and the repository's own `factory` tooling. `PROJECT.json`
lists each with its status.

The hazards of this code, each at the line where it bites and with the
properties that cover it, are in `PROJECT.json` under `hazards`.

## Modules

| module | what it is |
|---|---|
| `ScheduleLock` | the lock table and its callers, one action per SQL statement |
| `LocationLease` | what that lock promises: an abstract table of leases |
| `ScheduleLockProofs` | theorems of `ScheduleLock` |
| `ScheduleLifecycle` | a schedule from draft to approved shifts, against archives of its location and people |
| `ScheduleLifecycleProofs` | theorems of `ScheduleLifecycle` |
| `LocationQuota` | the free plan's monthly allowance: a generate run's gate, batch verdict, and re-check under the group's row lock |
| `MonthlyAllowance` | what that quota promises: an abstract tally of each location's month |
| `LocationQuotaProofs` | theorems of `LocationQuota` |
| `CreditBilling` | purchased credits: the purchase dialog, the billing routes, debits with auto-reload, and the saved card at Stripe |
| `CreditBillingProofs` | theorems of `CreditBilling` |
| `DraftReview` | the Schedule page against the routes it calls, over a network that reorders and loses answers |
| `DraftReviewProofs` | theorems of `DraftReview` |
| `PayableHours` | from a scan to the payroll file: check-ins, time entries, approvals, exports |
| `PayableHoursProofs` | theorems of `PayableHours` |
| `CancellationLifecycle` | the end of a subscription: reminder, deletion, reactivation, and the sale of the payroll archive |
| `CancellationLifecycleProofs` | theorems of `CancellationLifecycle` |
| `SchedulingPipeline` | the scheduling graph: each location's shifts proposed, checked, reconciled with those before it, and emitted |
| `SchedulingPipelineProofs` | theorems of `SchedulingPipeline` |
| `MCScheduleLock`, `MCScheduleLifecycle`, `MCLocationQuota`, `MCCreditBilling`, `MCDraftReview`, `MCPayableHours`, `MCCancellationLifecycle`, `MCSchedulingPipeline` | model values, and the definitions the configurations give to constants |

### ScheduleLock

| model | code |
|---|---|
| `row` / `temp`, `key` | committed rows of `schedule_locks` / uncommitted row versions and the transaction that owns each key |
| `now`, `wanted`, `held`, `todo`, `attempt` | the locals of `acquire`: `now`, the expanded lock set, `held_by_group`, what the walk has left, the attempt of `_insert_one` |
| `chunks` | how many times a generate run has relocked for a location it is about to write |
| `staff` | `Employee.location_ids`, which `expand_lock_set` reads and a manager may change at any time |
| `Begin` | `_lock_locations` as approve, edit and generate call it: any non-empty seed |
| `Relock`, `ReadGroup` | `_relock_for_write`: the run extends its own group, and reads which rows the group still holds |
| `Check` | `_first_live_conflict` |
| `Walk` = `Refresh`, `Sweep`; `Insert`; `Reread` | the loop over the ascending ids inside the savepoint, and `_insert_one` |
| `Refuse` | `LockHeld`: the savepoint goes; a 409, or a location a running stream skips |
| `CommitLock` | the caller's commit right after `acquire` |
| `EndWrite`, `EndStream`, `LockGroupRow`, `DeleteGroup`, `Released` | the `finally` of the routes and `release` |
| `Crash` | a dead server, a lost session, a failed release, a client gone before its stream starts |

A request is its lock group and is served once. The clock is one for all
servers, so clock skew is not modelled.

`LocationLease` keeps one lease per location and has three steps: a group is
granted a set of locations at once, gives back all it has at once, or time
passes. `ScheduleLock` implements it with `lease <- row`: only the commit steps
move `row`, however many statements led to them.

### ScheduleLifecycle

| model | code |
|---|---|
| `status`, `entry` | `ShiftSchedule.status`, and its `raw_llm_output` (one entry: a place and a person, or open) |
| `shift` | the `shifts` rows of each schedule, with where they came from, and `past`: started, checked in to, or paid, which archives leave alone (`_untouchable`) |
| `closed`, `left` | locations and employees with `archived_at` |
| `owner` | who holds each row FOR UPDATE |
| `gone` | `locked_archived`: who of the locked people had left, as the statement that locked them read it |
| `cut` | the shifts an archive has deleted and not committed |
| `Begin...` | the unlocked read at the top of each handler and the 4xx it may give |
| `Relock`, `LockLocation`, `LockEmployee` | `_relock_schedule`, the location FOR UPDATE, `lock_employees` |
| `WriteApprove`, `WriteEdit` | the inserts and updates, and the commit |
| `Save` | the write by primary key of update, reject and restore |
| `ArchiveEmployee` | `archive_employee`: the row lock, the UPDATE and the commit in one step, since it takes no second row lock |
| `ArchiveLocation`, `DiscardDrafts` | `archive_location`: location row and deleted shifts, then the drafts, where it may wait for an approval |
| `Generate` | the insert of a draft |
| `Crash` | a death, a failed statement, or a 409 of the schedule lock anywhere |

The schedule lock itself is not in this module: its leases can run out under a
slow request, so what is stated here rests on the row locks alone, which is the
stronger claim.

### LocationQuota

| model | code |
|---|---|
| `month` | the UTC month, which `_month_start` and `utc_month_start` cut at |
| `paid` | a subscription that has not been cancelled (`_is_unlimited`) |
| `shut` | the month a location's `archived_at` is in |
| `sched` | rows of `shift_schedules`: location, week, month of `created_at`, status |
| `owner` | who holds the ownership group's row FOR UPDATE |
| `week`, `todo` | the week a request asks for, and what is left of the locations its run resolved and the batch verdict kept |
| `txn` | the location being written, and the month its transaction began in: `created_at` defaults to `now()`, the time a transaction began |
| `Allowed`, `Batch` | `resolve_location_quota` for one location, and for a list, in which each location that starts its month reserves a start from those after it |
| `Gate`, `Resolve`, `Recheck` | the three places that ask it: `check_can_generate`, `run_scheduling_pipeline`, `lock_group_and_recheck` |
| `Relock`, `Skip` | `_relock_for_write` as it matters here: it commits, or the location is skipped |
| `LockGroup`, `Insert` | the FOR UPDATE, and the insert with its commit |
| `EndRun` | the end of the stream, or of the server, the client or the pipeline, at any point |
| `Approve`, `Reject`, `Archive`, `Restore`, `ChangePlan`, `Retention`, `Tick` | what else changes the rows the verdict counts, or the plan |

The locations are those of one ownership group and the runs those of any of its
companies. Runs of two companies do not share a schedule lock, so none is
modelled: what is stated rests on the group's row alone. `_is_unlimited` reads the
group with `db.get`; no statement of the stream keeps that object, so the
session's identity map has let go of it and each verdict reads it anew. The list
a run resolves is any set of active locations in any order, which is why `Batch`
gives every set that some order would keep.

`MonthlyAllowance` keeps, for each location, a number of attempts and the weeks
they were for. It has three steps: a location generates, within the allowance;
the plan changes; a month begins, and all are empty. `LocationQuota` implements it
with counts over `sched`. Reject, archive, restore, retention and crashes are
therefore stutters of it: none of them may give an attempt back.

### CreditBilling

| model | code |
|---|---|
| `key`, `waiting` | `purchaseKey` and `purchasingPack` of the page |
| `intent` | PaymentIntents at Stripe: the idempotency key each was made with, its amount, whether it was paid |
| `balance`, `hold`, `enabled`, `refill` | the `ownership_groups` row: `ai_credits_usd`, `autoreload_failed_at`, `autoreload_enabled`, `autoreload_amount_usd` |
| `credited` | intents with a 'succeeded' row in `billing_charges` |
| `owner` | who has the group's row locked |
| `job`, `snap`, `won` | what a session was asked, the row as it read it, the intent Stripe told it of |
| `ClickPack`, `Bought`, `Refused`, `Disconnected`, `Close`, `Abandon` | `handlePurchasePack` and its three ends, the tab, and the connection |
| `ClickRetry`, `SaveSettings`, `Generated`, `PaymentFailed` | the other requests that write the row: `retry_autoreload`, `update_autoreload`, a finished generation, `invoice.payment_failed` |
| `Lock` | the SELECT FOR UPDATE of a purchase or a debit, and what it decides by it |
| `RetryCharges`, `Flush` | the plain SELECT of a retry, and its flush, which is where it first waits |
| `Charge` | `charge_saved_card`, or the charge of an auto-reload: Stripe charges, declines, replays a key it knows, or charges and does not say so |
| `CommitPurchase`, `CommitDebit`, `CommitRetry`, `Save` | the commits |
| `Crash` | a session that is lost anywhere; what Stripe did stays done |

Amounts are whole units. The object the plan check of a request reads is local
to it and released, so the FOR UPDATE reads the row anew. A timeout at Stripe is
a decline to the code that waits, whether or not the card was charged.

### DraftReview

| model | code |
|---|---|
| `run`, `streaming`, `results` | `useScheduleStream`: which run, `isStreaming`, and whose result each card has |
| `edited`, `approved`, `rejected`, `seq`, `saving`, `locked`, `editing` | the page's state of these names (`editedShifts`, `approvedLocations`, `saveSeq` and so on) |
| `req` | the requests in flight: what for, the list they were clicked on with, their number, whether the page still waits |
| `status`, `draft` | the server's schedule of each location and run |
| `Generate`, `Result`, `EndStream`, `Reset`, `Reload`, `LockExpires` | `handleConfirmGenerate`, the stream's events, "Generate again", F5, the lock toast |
| `OpenEditor`, `Edit`, `CloseEditor` | the shift editor, with `persistDraft` |
| `Approve`, `Reject` | the first request of `handleApprove`, and that of `handleReject` |
| `ReadStatus`, `WriteDraft`; `Materialise`; `SetRejected`; `Drop` | `update_shifts`, which reads and writes in separate statements; approve; reject; a refusal or a lost request |
| `Saved`, `SavedFirst`, `Approved`, `Rejected`, `ShowLock`, `ShowError` | how each handler goes on when its answer comes |

A list of shifts is the run that drafted it and the edits made to it, so that
"the list is older" can be said. An answer nobody waits for is forgotten, with
its number. A save whose list is word for word what it reads writes nothing.

### PayableHours

| model | code |
|---|---|
| `arrivals` | the day's `employee_check_ins` of a location, in order: the counter of the i-th is i - 1 |
| `entry` | `time_entries`, one per shift by `uq_time_entries_shift`: source, approved, the export that stamped it |
| `log` | `payroll_exports`, with the rows of each file, and whether it was asked to repeat exported hours (`include_exported`) |
| `owner` | who has a time entry locked |
| `scan`, `work` | the locals of a scan; of a payroll request, the shifts it has dealt with and has left |
| `Count`, `LookBack`, `Admit`, `CodeUsed` | `record_check_in`: the counter it verifies the code against, `already`, the insert, and the insert that collides |
| `Derive`, `ReadEntries`, `ReadArrivals`, `InsertAll`, `Conflict`, `Requery`, `Told` | `derive_time_entries` with its one retry, and its report |
| `Attest`, `CheckScan`, `InsertAttested`, `Refuse` | `attest_shift` |
| `Approve`, `Update`, `CommitApprove` | `approve_entries`: what it reads, the UPDATEs in the order of the ids, the commit |
| `Export`, `LockRow`, `SkipRow`, `CommitExport`, `NothingToExport` | `export_approved`: a SELECT FOR UPDATE that locks rows in its ORDER BY, and looks at each again once it has it; stamps and log in one commit |

A code is the count it stands for: a scan of any other is refused and leaves
nothing, so it is left out. The shifts are approved and have begun.

### CancellationLifecycle

| model | code |
|---|---|
| `day`, `now` | the date, and the `now` a run of the loop took when it began |
| `group` | the `ownership_groups` row: subscription canceled, `canceled_at`, and in `told` the notices that are stamped (`notified_canceled_reminder_at`, `notified_deletion_at`) |
| `archive` | the group's `payroll_archives` row: its Checkout session, `paid` or written |
| `lock` | the run that has the group's row FOR UPDATE |
| `opened`, `paid`, `refunded` | Checkout sessions and payments at Stripe |
| `reported` | history: payments whose report was answered |
| `warned` | history: a reminder went out since the group was canceled |
| `seen`, `sessions`, `pending`, `draft` | the object a session keeps of the group; the payments it has listed; `archive_pending`; the archive row it has written and not committed |
| `StartRun`, `GetGroup`, `Remind`, `StampReminder` | `process_cancellation_lifecycle`, up to the stamp of the reminder |
| `FindPurchase`, `ListPayments`, `FindRow`, `Notice` | a group that is due: what it bought, what Stripe knows of, and the notice |
| `LockGroup`, `Reconcile`, `WriteArchive`, `DeleteGroup`, `GiveUp` | the lock and second read, `reconcile_sessions_locked`, `_write_paid_archive`, `delete_og_and_dependents` and the commit, and every way not to get there |
| `Offer`, `AskStripe`, `Create` | the status and checkout routes, with `sync_unrecorded_purchase` |
| `Pay`, `Report` | the customer; the return page and `checkout.session.completed` |
| `LookUp`, `Record`, `Refund`, `Settle` | `record_archive_purchase`: the look without the lock, the one with it, the refund after that transaction |
| `OpenReactivation`, `Reactivate` | `confirm_reactivation`, `confirm_upgrade`: the read, and an UPDATE of what differs from it |
| `SubscriptionDeleted`, `Cancel` | `customer.subscription.deleted` |

A list of payments is what Stripe answers at that moment. One whose refund failed
is left for the operator and listed again, so a list may have any of the refunded
ones in it (`PaidSessions`).

### SchedulingPipeline

| model | code |
|---|---|
| `path` | `use_local`, which builds one graph or the other |
| `zone` | the locations' offsets from each other; hours are on the wall clock of their location |
| `pc` | the node that is next; `left`, `here`: the locations still to do, `current_location` |
| `free` | `available_windows` of the employees, as hours: less blackouts, approved shifts, and what the run has taken |
| `answer`, `valid`, `kept` | `current_parsed_shifts` before validation, after it, and of those the ones that stay "ok" |
| `retries`, `notes`, `clashed`, `failed` | `retry_count`, whether `conflict_notes` is empty, the shifts marked CONFLICT, a PARSE_ERROR of the location |
| `draft` | `availability_draft`, and by it `employee_weekly_hours_draft` and `range_counts_draft`, which grow in the same turns of the same loops (`Worked`, `Counted`) |
| `emitted`, `outcome` | the "ok" shifts of `draft_schedules`, and each result's status |
| `Load` | `load_location_context`, with `_filter_availability_against_draft` |
| `Ask`, `AskInVain` | `build_prompt`, `call_llm`, `parse_schedule`: any list of shifts, or nothing that can be read |
| `Assign`, `LeaveOpen`, `Walked` | `local_schedule`, seat by seat, with `_build_eligible_map` |
| `Check`, `Legal` | `validate_schedule`, shift by shift, in the order of the list |
| `Reconsider`, `Commit`, `Trimmed` | `validate_and_update_availability`: the first conflict; and otherwise, with `_trim_cap_violations` and `_trim_hard_preference_violations` |
| `WantsRetry`, `AskAgain`, `Overrun` | `_should_retry_or_emit`, and LangGraph's limit on steps |
| `EmitResult` | `annotate_preferences`, which changes nothing that counts here, and `emit_result` |

The code compares availability by the face of the clock and overlap and rest by the
moment, and so does the model: that is what makes a conflict possible. In one zone,
and within a day,
`validate_schedule` drops what `validate_and_update_availability` would find, as the
windows have lost the hours that were taken. An answer names the location's own
zone, dates of the week, and no shift twice. There is one role, so each day has one
list of eligible people, made for its last slot. The strategies differ in whom they
prefer, so the model lets any candidate be taken.

## How a request is modelled

- A request runs one statement per action. Between two of them every other
  request may run. Statements are atomic, as they are for the row sets these
  read at READ COMMITTED.
- A statement sees what is committed when it runs. What a transaction writes is
  seen by others when it commits.
- `SELECT ... FOR UPDATE`, `UPDATE` and `DELETE` own their row until the
  transaction ends; others who need it wait (the action is not enabled). After
  the wait the statement sees the new row, so the guard reads current state.
- An insert with a foreign key shares the referenced row, which conflicts with
  its FOR UPDATE owner only. The share lasts from the insert to the commit; both
  are one step here, so the step waits for the owner and no owner is recorded.
- A transaction that ends in a 4xx, an exception or a crash writes nothing.
  PostgreSQL's own answer to a deadlock is to abort one waiter; that is a
  `Crash`, a `GiveUp` or a `Fail` here. `NoWaitCycle` of `ScheduleLock` says that
  its keys never need it.

## Runs

Bounds are given in the `.cfg` and are constants of the modules.

| run | question | bounds | size |
|---|---|---|---|
| `lock` | Is the lock a table of leases: exclusive while leases last, empty when requests have ended, and step by step the abstract table? Can requests wait for one another, does each statement bring one nearer to its end, and does each end? | one generate run with one relock, one manager, 2 locations, one employee, lease of 1 tick, clock to 2 | 345,512 states |
| `lifecycle` | Do approvals and edits act on fresh rows, whatever archives and other requests do meanwhile? | two sessions, one schedule, two locations, one employee, 2 shift ids | 803,984 states |
| `discarded` | Is a discarded draft terminal (violated) | as `lifecycle` | |
| `quota` | Do runs stay within a location's attempts and the group's starts, can these be moved to another location or month, and does a refusal last? | two runs, two locations on a plan for one, one week, two months, 1 schedule and 2 attempts, 2 rows | 517,038 states |
| `credits` | Does every commit under the row's lock change the balance by what it credits, does a hold stop charges, and can a purchase that was paid always be resent? | one page, two sessions, packs of 1 and 2, threshold and cost of 1, 2 intents, 2 keys | 513,957 states |
| `credits_retry` | Does every charge come with its credit (violated) | as `credits` | |
| `draft` | Does the page keep every edit, approve what it shows, and leave no button stuck? | one location, two requests in flight, two runs, two edits | 1,469,448 states |
| `payroll` | Does the earliest scan alone count, is a derive's report true, and are hours sent once? | two sessions, two employees with a shift each, ranges of one shift and of both, 2 scans, 2 exports | 1,266,927 states |
| `cancellation` | Is a paid archive written with the deletion and never lost, a payment kept or given back, and a group in time spared? | one server, two requests, 2 Checkout sessions, reminder at once, grace of 1 day, calendar to day 1 | 1,824,573 states |
| `warned` | Is a group always reminded before it is deleted (violated) | as `cancellation`, with one request and nothing sold | |
| `pipeline` | Do the shifts a run emits keep hours, caps, rest, affinities and places over all its locations, whatever was proposed, and does the run end? | two locations and two employees of both, in one zone and in two, two days of six hours with five spans, answers of two shifts, 3 answers | 45,975 states |
| `retried` | Is a location asked for at most twice (violated) | as `pipeline` | |

Why these bounds are enough to show something:

- `lock` has the smallest instance in which every branch of `acquire` runs. A
  lease of 1 tick and a clock to 2 let a row of the first call be live, on its last
  tick, and expired; one employee over two locations makes the lock sets of two
  requests overlap where their seeds do not, and can be moved between a run's two
  calls. With one manager the sweep, the lost insert and its retry all happen,
  because the generate run and the manager may each be the sweeper. Two requests
  on two keys are enough for a circle: walked in any other order than the
  ascending one, they make it. A relock that expires, and more locations and
  requests, are covered by the theorems `Exclusion`, `DeadlockFree`,
  `Refinement` and `WorkIsBounded`; that requests end, which needs fairness too, is
  model-checked on this instance only.
- `lifecycle` has two sessions because each hazard of that module is a race of
  two transactions, and since a session serves any number of requests one after
  another it also reaches long sequences (approve, reject, approve). The second
  location is there for an entry that names a place other than the schedule's.
  The sessions are symmetric, and no property tells them apart.
- `quota` has two locations where the plan has one, and two months, which is what
  it takes to move an allowance by archiving or by waiting; two runs, because the
  race is of two inserts, and each serves any number of requests; two rows, so
  that a location can retry, or both can start. The group may have paid or not in
  the first state: with more locations than the plan has it has got there by
  paying. That a retry is for the same week, and that a third attempt is refused,
  takes instances TLC does not finish; the theorems of `LocationQuotaProofs` cover
  them for every value.
- `credits` has two sessions because each hazard is a race for one row, and
  two intents, so that a charge can come after one that was lost; the session of a
  closed page goes on, so one page has several purchases under way. Packs of two
  sizes tell a stale balance from the right one. The cost is at the threshold, so
  a debit reloads or not.
- `draft` needs one card only, since nothing but `saving` and `locked` is shared
  between cards, and those are shown by two requests of one card; the proofs have
  any number. Two requests and two edits put an older save behind a newer one;
  the second run makes old answers meet a new card.
- `payroll`: the races are of two requests. Ranges that overlap in one shift of two
  make a derive lose its insert for a shift while it has another; two scans are a
  collision, or a repeat. PayOrder and IdOrder are opposite, so that an export and
  an approval can wait for one another.
- `cancellation` has two requests, since a payment or a reactivation races a run
  while another report of the same payment is under way; two sessions are a
  purchase and a second payment for it; a request serves any number of times. The
  reminder is due when the group is canceled and the deletion a day later, so that
  each can be due with the other or alone. Two servers that walk the groups at the
  same time are covered by the theorems.
- `pipeline` has two locations, as what can go wrong is between one and those before
  it, in either order, an hour apart or not. The spans of a day overlap, follow one
  another, or leave a gap, and the first of the next day is near enough to the last
  of this one for the rest of one location and not of the other. Each rule has
  somebody it stops: one who may work three hours, one with a cap of one a week, one
  who refuses a span, one who is kept apart from the other. An answer of two shifts
  has both orders of a pair; a third shift makes the run too long for TLC, and the
  local walk, which has up to four, is longer anyway. Three answers are one more
  than the retry allows; a limit further off only repeats the third.

What TLC shows on these, the eight modules of proofs show for every value of the
constants, except the two liveness properties (see [Proofs](#proofs)).

`CHECK_DEADLOCK FALSE` is said for the runs of three modules. The requests of
`ScheduleLock` are served once, so when all have ended and the clock is at its
bound nothing is left to do. In `CancellationLifecycle` the group may be deleted,
every session paid and every payment refunded, and then nobody has to come. A run
of `SchedulingPipeline` is over when the last location is emitted. All
other modules are checked for deadlock; a session can always give up, which is a
request that times out.

## Fairness

`FairSpec` of `ScheduleLock` has weak fairness of each request's `Step`: the
event loop runs a coroutine that can run, and the database wakes a statement
once its row is free. A waiting step is not enabled, so weak fairness promises
nothing while another transaction holds the key; that it is released is what
has to be shown. There is no fairness on arrivals, crashes, changes of staff or
the clock, so `EveryRequestEnds` does not rest on leases running out.

`Spec` of `SchedulingPipeline` has weak fairness of `Next`: the runtime goes from node
to node by itself, one graph is one coroutine, and it waits for nobody but the model,
whose call fails at its timeout. That a run ends (`RunEnds`) does not follow from it
alone: the local walk must come to the end of the template, the list that is checked
must get shorter, and the retries must stop, which they do only at the limit on steps.

No other module states fairness: their properties are about what a step may do,
not about what must happen. Nobody retries a debit or a derive, or clicks again,
on his own, and an answer the browser waits for may never come.

## Proofs

There are eight modules of proofs, `...Proofs`, one for each component. All of them
go the same way: an inductive invariant `IInv`, a lemma per action that the action
keeps it, and the properties read off it.

`ScheduleLockProofs` proves, for any number of requests, locations, employees,
any lease term and any bounds, under `ConstantsAssumption` alone:

| theorem | statement |
|---|---|
| `TypeCorrect` | `Spec => []TypeOK` |
| `Exclusion` | `Spec => []ClaimExclusion` |
| `NothingLeft` | `Spec => []LeavesNothing` |
| `DeadlockFree` | `Spec => []NoWaitCycle` |
| `Refinement` | `Spec => LeaseTable` |
| `WorkIsBounded` | `Spec => WorkRunsOut` |
| `WorkIsANumber` | `Spec => [](\A r \in Requests : StepsLeft(r) \in Nat)` |
| `SomebodyGoesOn` | `Spec => []((\E r \in Requests : Busy(r)) => \E r \in Requests : Busy(r) /\ CanGoOn(r))` |

None of the invariants is inductive: that two writers exclude one another
depends on what each transaction has *uncommitted* when it commits. The
inductive invariant `IInv` says, besides the types:

- `FreeKeys`: a key nobody owns is as committed;
- `OwnerInv`: who owns a key is in the middle of a call, and the committed row
  there is absent, its own, or was expired at its `now`: it may replace it;
- `WalkInv`: the lock set is behind the walk or still to do, and every key
  behind the walk holds this call's lease, so that `CommitLock` publishes all
  of it;
- `ReleaseInv`, `RowInv`: release owns rows of its group only, and has each of
  them either locked or still to do;
- `OrderInv`: who walks owns no key above the next one, which gives
  `DeadlockFree` by taking, of a set of waiters, the one that owns the highest
  key;
- `LeaseInv`: a writer within its lease has every location of its lock set. The
  heart of the argument is that another request may replace a row only if it was
  expired at that request's `now`, which is at most the clock.

There is one lemma per action. `FrameKeepsOthers` shows once that a step which
touches only its own locals and keys keeps the invariant of the others, so each
lemma looks at one request. `Refinement` uses the same invariant: it shows that
each commit is a `Grant`, or a `GiveBack`, and every other step a stutter.

The last three are what `EveryRequestEnds` rests on besides fairness. `StepsLeft`
counts what a request has before it: the keys to walk or release, for each of them
an insert and, until it is used, its one retry, and the calls still to come. Every
step of the request lowers the count and no other request's step touches it
(`StepUsesWork`, `OnlyItsOwn`), so a request makes finitely many steps. And while
some are in the middle of a call, one of them is not waiting: `StuckWaits` finds for
each one that waits a busy owner of its key, and `NoCircle`, which also gives
`DeadlockFree`, has no such chain close. `CanGoOn` spells out the guards of a step,
since `ENABLED` is out of the prover's reach. What TLC adds is the fairness
argument that turns this into `<>`.

`ScheduleLifecycleProofs` proves, for any number of sessions, schedules,
locations and people, under `LifecycleAssumption` and `ShiftAssumption`:

| theorem | statement |
|---|---|
| `TypeCorrect` | `Spec => []TypeOK` |
| `Freshness` | `Spec => ApprovalIsFresh` |
| `OneApproval` | `Spec => OneApprovalAtATime` |
| `LeaversGetNothing` | `Spec => LeaverGetsNothing` |
| `ArchiveIsComplete` | `Spec => NothingSlipsIn` |
| `DiscardedIsLeftToSaves` | a step that changes a discarded draft is the write, by its id, of a reject or an edit of the draft |
| `DiscardIsFinalUnlessOvertaken` | `Spec /\ [][NotOvertaken]_vars => DiscardedIsTerminal` |

Its `IInv` adds to the types `JobInv`, which requests can be in which place, and
`HoldInv`, what a request has locked there and still knows: the schedule in a
status it serves; for an approval its location, open; whoever is given a shift,
in `gone` if they have left; for an archive past its first phase, its location.
None of the four action properties follows from the guard of the writing step:
that reads what was found when the rows were locked, and only `HoldInv`, carried
over every step of every other request by `FrameKeepsOthers`, says it is still
so. `ChangeIsSound` shows once what is true whenever a shift is added or
reassigned; the three theorems about shifts are read off it.

`DiscardedIsTerminal` is violated (finding 1). The last theorem says that there is one
cause: `NotOvertaken` asks only that no draft is discarded between a reject's or an
edit's read of its status and its write. Approvals, edits of approved schedules and
archives, which lock the row, need nothing.

`LocationQuotaProofs` proves, for any number of runs, locations, weeks and months
and any limits, under `QuotaAssumption`:

| theorem | statement |
|---|---|
| `TypeCorrect` | `Spec => []TypeOK` |
| `Refinement` | `Spec => AllowanceKept` |
| `RefusalsStand` | `Spec => RefusalStands` |

That an insert is within the allowance does not follow from its guard, which is
only that the re-check has passed. `IInv` says that a run between the two owns
the group's row, and that the *room* the re-check saw is still there: an attempt
left in a week already begun, or a start left, or a paid plan. Room is the part
of the verdict that only the owner of the row can take away, since inserts and
plan changes own it and everything else leaves this month's rows where they are
(`QuietSteps`, `SameRoom`); a free slot is not part of it, as an approval of a
rejected schedule may take it. A month that begins empties the tally
and so makes room (`NewMonthIsEmpty`), which needs `BornInv`: no row is from a
month to come. `RefusalsStand` shows that only a reject shrinks what a verdict
counts: `FitsShrinks` and `AllowedShrinks` find, for a verdict that turns, an
attempt that no longer holds its slot.

`CreditBillingProofs` proves, for any number of pages, sessions, packs, intents and
keys, under `CreditAssumption`:

| theorem | statement |
|---|---|
| `TypeCorrect` | `Spec => []TypeOK` |
| `ExactCommits` | `Spec => LockedCommitsAreExact` |
| `HoldHolds` | `Spec => HoldStopsCharges` |
| `NothingPaidIsForgotten` | `Spec => KeyKeptUntilCredited` |
| `NothingForFree` | `Spec => [](credited \subseteq Paid)` |
| `OnlyLateRetriesLose` | a commit that is not exact is a retry that charged, on a balance it did not read |
| `CreditedUnlessOvertaken` | `Spec /\ [][NobodyWaitsToRetry]_vars => EveryChargeIsCredited` |

Its `IInv` has `SessionInv`: who is at Stripe or about to commit owns the row and,
unless it is a retry, knows the balance and that there is no hold. Retries are why
this is not plain: they read without the lock, but they write only as its owner,
so they spoil nobody's balance but their own. `KeyInv` says that Stripe makes one
intent per key, and `WaitInv` that a session that has answered a page with
success has left a credited intent under the page's key: by `KeyInv` it is the
only one, so when the page draws a new key nothing paid is forgotten. `PaidInv`,
that a session is told only of intents that were paid, gives `NothingForFree`.

`EveryChargeIsCredited` is violated (finding 2), by retries only:
`LockedCommitIsExact` has the purchases and debits exact, `FreshRetryIsExact` a retry
whose balance is still the one it read. `NobodyWaitsToRetry`, that no balance changes
while a retry waits for the row, keeps all of them fresh (`RetriesAreFresh`), since
once it has the row nobody else can change it.

`DraftReviewProofs` proves, for any number of cards, requests, runs and edits,
under `ReviewAssumption`:

| theorem | statement |
|---|---|
| `TypeCorrect` | `Spec => []TypeOK` |
| `NoButtonIsStuck` | `Spec => []SavingIsAwaited` |
| `NoEditIsTakenBack` | `Spec => EditsAreKept` |
| `NoEditIsDropped` | `Spec => ApprovedAsShown` |

Its `IInv` follows a request by its place. `PutInv`: the save with the latest number
carries all the card shows of that run, which is why an answer that passes the
guard on `saveSeq` takes nothing back. `AloneInv`: what an approval was clicked on
is within what the card shows while it shows that run, within every save of that
draft in flight, and, once its own save has written it, within the draft: so a
later save that overtakes it can only add. `RunInv` keeps runs apart, and `SaveInv`
has at most one approval's save awaited. The lemmas come in three families: what
a request that moves on keeps (`Follows`), what a step of the page that adds no
request keeps (`Quiet`), and what a page that forgets keeps (`Forget`).

`PayableHoursProofs` proves, for any number of employees, shifts, ranges, requests
and exports, under `PayrollAssumption`:

| theorem | statement |
|---|---|
| `TypeCorrect` | `Spec => []TypeOK` |
| `EarliestScanCounts` | `Spec => []FirstScanKeepsTheNumber` |
| `ReportsAreTrue` | `Spec => []ReportedRowsExist` |
| `AuditAgrees` | `Spec => []LogAgreesWithStamps` |
| `PaidOnce` | `Spec => []NoHoursSentTwice` |

Its `IInv` has `ScanInv`: a scan that found nobody knows it of all arrivals up to its
code, although others have arrived since; if none of those has taken its code, the
code is the count and that is everybody. `WorkInv`: what a derive has read or
inserted stays, an export owns the rows it has looked at, and they are still
sendable. `OthersKeep` shows once that a step of one request, which only adds
arrivals and rows and stamps no row another one owns, leaves this true of the
others. `PaidOnce` follows from `LogAgreesWithStamps`: a row has one stamp, and the
rows of a plain file are those with its stamp.

`CancellationLifecycleProofs` proves, for any number of servers, requests, sessions
and days, under `LifecycleAssumption`:

| theorem | statement |
|---|---|
| `TypeCorrect` | `Spec => []TypeOK` |
| `ArchiveComesFirst` | `Spec => []WrittenWithTheDeletion` |
| `PaymentsAreSettled` | `Spec => []ReportedIsSettled` |
| `PaymentsAreHonoured` | `Spec => KnownPaymentIsHonoured` |
| `OnlyTheDueAreDeleted` | `Spec => DeletedWhenDue` |
| `WarnedUnlessStampStays` | if `Grace > 0`: `Spec /\ [][CleanCancel]_vars => []WarnedBeforeDeletion` |

Its `IInv` has `RunInv`: while a run has the group's row, the group is there, canceled
and past its grace period, and the archive row it is about to commit is the
purchase the group has or, if it has none, the oldest payment the run listed,
written once it is about to delete. This is where the lock is needed: a payment
that is recorded or a reactivation that commits in between would leave the run
with what is no longer so. `RunFrame` shows that a step which leaves the row, the
archive and the run's locals alone keeps it, `RunStep` and `RequestStep` that the
steps of other runs and of requests do. `OldestTypes` says that the oldest of a
set of payments is one of them, as a set of numbers that is not empty has a least
one.

`WarnedBeforeDeletion` is violated (finding 3). `CleanCancel` asks that a
cancellation starts with no stamp of a reminder in the row and none about to be made;
then no group is deleted that was not reminded, whatever the runs on other servers
have read and reactivations do. `WarnedInv` says what a run's way to the deletion
hangs on: a stamp it has read, or is about to make, is that of this cancellation, and
a run that found no reminder due will not find the group due at its `now`, since the
date of the cancellation only moves on. With a grace period of no days a group is due
the moment it cancels, so there must be one.

`SchedulingPipelineProofs` proves, for any company, template, zones and answers, and any
limit on steps, under `PipelineAssumption`:

| theorem | statement |
|---|---|
| `TypeCorrect` | `Spec => []TypeOK` |
| `NobodyIsInTwoPlaces` | `Spec => []NobodyInTwoPlaces` |
| `CapsHold` | `Spec => []FrequencyKept` |
| `ApartStay` | `Spec => []ApartKept` |
| `RestHolds` | `Spec => RestIsKept` |
| `HoursHold` | `Spec => []HoursWithinCap` |
| `RunsCountDown` | `Spec => [][CountsDown]_vars` |
| `DescentEnds` | `IsWellFoundedOn(Descent, Counts)` |
| `NeverStuck` | `Spec => [](Over \/ CanGoOn)` |
| `RetriedOnceUnlessResolved` | `Spec /\ [][ClashesAgain]_vars => []RetriedOnce` |

Its `IInv` follows a shift from the check to the result. `ValidInv`: what was found
legal lies in the windows of its location's staff, and is rested and friendly with
all of `valid` and, for the rest, with the draft; `RestedSymmetric` is why a shift
that is checked later does no harm to an earlier one. `DraftInv`: nobody is committed
at two locations at once, since a commit leaves conflicts out (`CommitKeeps`), nor
above a cap, by the room the trim left (`CapStep`). `KeptInv`: what is about to be
emitted is committed, unless the model is to be asked again. The local graph never
asks again, so there `FreeInv` is needed: in one zone its windows are free of all that
was committed, so that it meets no conflict at all (`NoneOnOneClock`).

Somebody's hours are counted as pairs of a shift and an hour of it (`Worked`), so that
they are a cardinality and need no induction: a shift that joins adds its length
(`WorkedOne`), and a set within another has no more (`WorkedMonotonic`). `HoursInv`
bounds those of the draft and of what was found legal together; what is emitted is in
the draft.

A run counts down in four numbers: the locations left, the answers left of this one,
the nodes left until it is asked again or done, and the seats or shifts left in the
node's loop. Each step lowers the first of them that it changes (`LessLeft`), in an
order without endless descents; and where a run is, its next node can run
(`NeverStuck`). That takes more than reading guards at a commit: `TrimExists` shows
that there always is a set `_trim_cap_violations` may leave, the earliest few of what a
cap counts (`EarliestFew`). Where an argument goes by induction over a finite set, as
there, it takes a least counterexample in a well-founded order instead (`WFMin`).
That locations are not empty is assumed because `run_scheduling_pipeline` returns
before it builds a graph for none.

`RetriedOnce` is violated (finding 4). `ClashesAgain` asks that what comes of a retry
clashes again; `RetryInv` then has the second answer be the last. So the limit on
steps is needed only for retries that succeed.

Only model-checked: `EveryRequestEnds` and `RunEnds`, as liveness under fairness is out
of the prover's reach. Of both the safety half is proved: each step brings the end
nearer, and while there is something to do somebody can go on. The violations are
TLC's traces; for each of them a theorem says under which condition, on the steps of
others, the property would hold. These conditions are hypotheses of the theorems and
are not in the code.

## Findings

Four places where the program does not do what a comment in it or its README says. Each is a
run that TLC finds violated, and each rests on a line quoted in `PROJECT.json`.

1. `DiscardedIsTerminal`: `reject_schedule` and `update_shifts` refuse a
   discarded draft by what they read before an archive, and write without a
   lock. A reject that waits for the archive's commit turns the discarded draft
   into a rejected one, which can be approved.
2. `EveryChargeIsCredited`: `retry_autoreload` reads the group without a lock,
   charges the card, and writes the balance it read plus the refill. Two clicks on
   "Retry payment", whose button nothing disables, charge twice and credit once; a
   purchase or a debit that commits while a retry waits is overwritten the same
   way.
3. `WarnedBeforeDeletion`: a reactivation is to clear the stamp of the reminder "so
   a future re-cancel re-fires correctly". The loop stamps after the mail has gone
   out, by what it read before; a reactivation that commits in between, or one
   that read the row before the stamp and so sees nothing to clear, leaves the
   stamp on a live group. When that group cancels again nobody reminds it, and it
   is deleted with its grace period.

4. `RetriedOnce`: a conflict is to be retried once, "then the location is emitted as
   `CONFLICT`" (`README.md:17`). Whether the retry was made is read from `retry_count`
   and `conflict_notes`, which a retry that succeeds does not reset: the location
   goes back to `build_prompt` with its shifts committed. The third answer conflicts
   with them, or differs and is committed too, and the second's hours count against
   everybody for the rest of the run. An answer that cannot be read is asked for
   again until the limit on steps ends the run.

The abstractions do not cause them: 1 and 2 are sequences of whole statements of two
requests, 3 of a request and the loop, 4 of nodes one after another.

Others were met that no run states.

- `acquire` promises that a location swept from a group is "lost: LockHeld, not a
  silent re-insert" (`schedule_lock.py:117-120`). It reads `held_by_group` when the
  call begins, so only a sweep during the call is noticed: a row swept during the
  minutes of the pipeline, and released before the relock, is inserted again.
- Approve re-reads a schedule "so the same draft is never materialised twice"
  (`schedules.py:1175-1177`); rejecting an approved schedule leaves its shifts, and
  approving it again adds them once more. The reject also gives a free location's
  slot back, and approving the rejected schedule asks no quota, so that a location
  may hold two.
- Approve locks the schedule and then its location, `archive_location` its location
  and then the drafts: PostgreSQL breaks the circle by failing one of them.
- `record_archive_purchase` gives a payment back when it finds the group gone
  (`payroll_archive.py:366-372`), also where the loop has just written the archive
  for it.
- The local graph has no retry edge, so over several zones a first conflict is emitted
  as "ok", neither marked nor committed; `README.md:35` has it go back once and then
  be a CONFLICT. This is what `Reconciled` leaves out of the properties.
- `validate_schedule` returns at once when there are no shifts (`nodes.py:504`), so an
  answer with none gets no placeholder for any seat and its result is "ok".
- A location's rest is kept towards shifts elsewhere by its own minimum only: an
  earlier location that asks for more is not asked again. `RestIsKept` says which of
  the two it is.
- In one location an answer of the model may give somebody two shifts that overlap:
  the seven rules do not compare a person with himself, and the draft has only
  earlier locations.

## Plan

Done: the schedule lock with its refinement; the life of a schedule against
archives; the monthly allowance of a location with its refinement; purchased
credits; the review of drafts in the page; check-ins and payable hours; the end of
a subscription with the sale of its archive; the scheduling graph. All have proofs. In order of importance, what is left:

1. `PlanLimits`: `assert_can_add` for locations, employees and managers, which
   reads whether the group has paid before it waits for the group's row, and the
   restore of a location as the month ends. Theorem: a free group never adds
   beyond its limits while it is free throughout.
2. `MonthlyInvoice`: the weekly loop against the webhook that announces an invoice.
3. A composition of `ScheduleLock` and `ScheduleLifecycle`, for the lock set that
   approve computes from entries it read before the lock, and of the latter with
   `PayableHours`, for a scan that races an edit or an archive.
4. `Invites`; a composition of `SchedulingPipeline` with the lock and the quota of the
   run it is part of.
5. The `factory` state machine, last: it is not part of the product.

## What is not modelled

- Clock skew between servers, and a lease judged by two clocks.
- Roles (archived like people, without a lock of their own), permissions, and
  which rows a manager may see: filters of queries, not behaviour over time.
- The contents of a draft beyond one entry outside `SchedulingPipeline`; soft
  preferences and scoring.
- In `LocationQuota`: the pooled cap of the public demo and companies without an
  ownership group, which the quota does not apply to; the interleavings of
  approve, reject and archive, which are those of `ScheduleLifecycle`; the reads of
  one verdict, which are one step, as the group's row covers them where it
  matters. A `MaxRows` that is reached stops inserts, not the run: it can still
  end.
- A lost connection after a commit: the client cannot tell, but the state is
  that of the commit.
- `MaxShifts` bounds the ids of shifts a schedule ever has; a write that finds
  none left stays where it is until it gives up, so the bound cuts long
  sequences and adds none.
- In `CreditBilling`: the monthly usage rows, which decide nothing while
  `INCLUDED_LLM_USD` is 0; groups without a card on file, which get as far as no
  charge; a threshold that changes. A debit below zero is cut at zero, as in the
  code.
- In `DraftReview`: the template and strategy pickers; refusals as a state of
  their own (`ShowError` is a refusal or a lost answer); cards of locations whose
  run failed, which have no schedule. `ApprovedAsShown` is stated for an approval
  with no other save of its location in flight at the click: a delayed one may
  still be written between the two requests of the approval, and the code states
  nothing of it. A reload forgets marks and results, and what was lost with them
  is not a loss the property counts.
- In `PayableHours`: the signature of a code, minutes, rates and the text of the
  file; which shift a scan matches, which is any of the employee's or none;
  retention and erasure, which leave today's check-ins alone; a second location,
  where a scan of the same employee at the same moment may be a first as well, the
  index being per location. Of an approval the model keeps that a row is approved,
  not when: two approvals at once both stamp `approved_at`, although
  `time_entries.py:679-680` has approved entries left untouched. An attestation
  that races a scan leaves an attested entry for a shift that was scanned, and a
  derive that loses twice leaves scanned shifts without hours until the page is
  next loaded; no property is stated of either.
- In `SchedulingPipeline`: placeholders and open entries, names, annotations and token
  counts, none of which a later node decides by; the coverage pass of
  `validate_schedule`, which adds placeholders only; roles and their equivalents;
  shifts over midnight, of which `validate_schedule` compares no more than the clock
  faces (a template's are dropped, for they end before they begin; one of the model's
  may pass, and can then meet a conflict in one zone as well);
  answers that name a foreign location's zone or a date outside the week, which are
  dropped or are as wrong at any location; a second cap of one employee; the quota
  verdict before the graph, which is `LocationQuota`'s. `MaxShifts` bounds an answer.
  `MaxAnswers` stands for LangGraph's limit, which counts the steps of all locations
  and not the answers to one.
- In `CancellationLifecycle`: one group, as nothing is shared by two. Mails other
  than the reminder, the cap on mails and a mail service that fails, which the
  code swallows: a reminder that was sent is taken to arrive. The stored files,
  the tokens and links to fetch them, and their expiry; with
  `PAYROLL_ARCHIVE_ENABLED` off there is no sale and the deletion stands alone.
  Sessions that fail verification end in an alert and change nothing. No liveness
  is stated: each run of the loop may fail, and what it leaves is for the next day.
