---------------------------- MODULE CreditBilling ----------------------------
(***************************************************************************)
(* Purchased credits of one ownership group: the purchase dialog of the    *)
(* Schedule page, the billing routes behind it, the debits of generate     *)
(* runs with their auto-reload, and the saved card at Stripe               *)
(* (frontend/src/pages/manager/Schedule.tsx, backend/routers/billing.py,   *)
(* backend/services/billing.py, backend/routers/webhooks.py).              *)
(*                                                                         *)
(* A session runs statements at READ COMMITTED against one row, the        *)
(* ownership group.  Those that read it FOR UPDATE keep it until they      *)
(* commit; the others wait for it only when they write.  What a session    *)
(* writes is seen when it commits.  Money moves at Stripe before that, and *)
(* stays moved if the session dies.  Amounts are whole units.              *)
(*                                                                         *)
(* A card is on file: without one no session gets as far as a charge.      *)
(***************************************************************************)
EXTENDS Naturals, FiniteSets

CONSTANTS
    Pages,       \* Schedule pages of the group's admins, one per browser tab
    Sessions,    \* server sessions; each serves one request after another
    Packs,       \* settings.AI_CREDIT_PACKS_USD
    Threshold,   \* autoreload_threshold_usd
    Cost,        \* what a generation costs
    OptIns,      \* bound: whether a purchase may ask for auto-reload
    Settings,    \* bound: the auto-reload settings an admin may save
    MaxIntents,  \* bound: PaymentIntents Stripe ever makes
    MaxKeys,     \* bound: keys a page ever draws
    NoOne,       \* no session
    Closed,      \* a page that is gone
    NoRead,      \* a session that has read nothing
    NoIntent     \* an id Stripe has not used; an intent that was not made

Ids  == 1..MaxIntents
Keys == 1..MaxKeys

\* A key is random: no page draws one that another page has drawn.  Auto-reload
\* passes none.
Key    == Pages \X Keys
NoKey  == <<>>
Intent == [key : Key \cup {NoKey}, amount : Packs, paid : BOOLEAN]
Read   == [balance : Nat, enabled : BOOLEAN, refill : Packs]

ASSUME CreditAssumption ==
    /\ Packs \subseteq Nat \ {0}
    /\ Threshold \in Nat /\ Cost \in Nat
    /\ OptIns \subseteq BOOLEAN
    /\ Settings \subseteq [enabled : BOOLEAN, refill : Packs]
    /\ MaxIntents \in Nat /\ MaxKeys \in Nat \ {0}
    /\ NoOne \notin Sessions /\ Closed \notin Sessions \cup {NoOne}
    /\ NoIntent \notin Intent \cup Ids
    /\ NoRead \notin Read

VARIABLES
    \* The page
    key,       \* purchaseKey
    waiting,   \* the request behind purchasingPack, NoOne when that is null
    \* Stripe
    intent,    \* PaymentIntents, by id
    \* The ownership_groups row, and billing_charges
    balance,   \* ai_credits_usd
    hold,      \* autoreload_failed_at is set
    enabled,   \* autoreload_enabled
    refill,    \* autoreload_amount_usd
    credited,  \* intents with a 'succeeded' row
    owner,     \* which transaction has the row locked
    \* The sessions
    pc,        \* where each is
    job,       \* what it was asked to do
    snap,      \* the row as it read it
    won        \* the intent Stripe told it of, NoIntent for a decline

page == <<key, waiting>>
row  == <<balance, hold, enabled, refill, credited>>
vars == <<page, intent, row, owner, pc, job, snap, won>>

Idle == [op |-> "none"]
Job ==
    {Idle}
    \cup [op : {"purchase"}, page : Pages, key : Keys, amount : Packs, optin : OptIns]
    \cup [op : {"debit", "retry", "failed"}]
    \cup [op : {"settings"}, to : Settings]

PCs == {"idle", "lock", "flush", "charge", "commit", "save", "ok", "refused"}

-----------------------------------------------------------------------------
\* (Mutant: the debit may go below zero.)
Less_Overdrawn(a, b) == a - b

Less(a, b)  == IF a >= b THEN a - b ELSE 0
Goto(r, to) == pc' = [pc EXCEPT ![r] = to]
Now         == [balance |-> balance, enabled |-> enabled, refill |-> refill]

Waited(r) == \E p \in Pages : waiting[p] = r

\* A request ends: its lock goes, and its answer is on its way if a page waits.
End(r, answer) ==
    /\ owner' = IF owner = r THEN NoOne ELSE owner
    /\ Goto(r, IF Waited(r) THEN answer ELSE "idle")
    /\ job' = [job EXCEPT ![r] = IF Waited(r) THEN @ ELSE Idle]
    /\ snap' = [snap EXCEPT ![r] = NoRead]
    /\ won' = [won EXCEPT ![r] = NoIntent]

\* The balance after an intent, credited unless it has its row already.
Credit(r, i) == snap[r].balance + (IF i \in credited THEN 0 ELSE intent[i].amount)

Key_(r)    == IF job[r].op = "purchase" THEN <<job[r].page, job[r].key>> ELSE NoKey
Amount(r)  == IF job[r].op = "purchase" THEN job[r].amount ELSE snap[r].refill
Made(i)    == intent[i] # NoIntent
Free(i)    == ~Made(i) /\ \A j \in Ids : ~Made(j) => i <= j
Paid       == {i \in Ids : Made(i) /\ intent[i].paid}
SameKey(r) == {i \in Ids : Made(i) /\ intent[i].key = Key_(r) /\ Key_(r) # NoKey}

Init ==
    /\ key = [p \in Pages |-> 1]
    /\ waiting = [p \in Pages |-> NoOne]
    /\ intent = [i \in Ids |-> NoIntent]
    /\ balance = 0 /\ hold = FALSE
    /\ enabled \in BOOLEAN /\ refill \in Packs
    /\ credited = {}
    /\ owner = NoOne
    /\ pc = [r \in Sessions |-> "idle"]
    /\ job = [r \in Sessions |-> Idle]
    /\ snap = [r \in Sessions |-> NoRead]
    /\ won = [r \in Sessions |-> NoIntent]

-----------------------------------------------------------------------------
(* The page *)

Begin(r, what, at) ==
    /\ pc[r] = "idle"
    /\ job' = [job EXCEPT ![r] = what]
    /\ snap' = [snap EXCEPT ![r] = IF what.op \in {"retry", "settings"} THEN Now ELSE NoRead]
    /\ Goto(r, at)
    /\ UNCHANGED <<intent, row, owner, won>>

\* handlePurchasePack: the pack buttons are disabled while one is in flight.
ClickPack(p, r, amount, optin) ==
    /\ waiting[p] = NoOne /\ key[p] < MaxKeys
    /\ waiting' = [waiting EXCEPT ![p] = r]
    /\ Begin(r, [op |-> "purchase", page |-> p, key |-> key[p],
                 amount |-> amount, optin |-> optin], "lock")
    /\ UNCHANGED key

Handled(r) ==
    /\ Goto(r, "idle")
    /\ job' = [job EXCEPT ![r] = Idle]
    /\ UNCHANGED <<intent, row, owner, snap, won>>

\* Nobody waits for r any more, whatever it does or has done.
Abandon(r) ==
    IF pc[r] \in {"ok", "refused"}
      THEN Handled(r)
      ELSE UNCHANGED <<intent, row, owner, pc, job, snap, won>>

\* Success: a new key for the next pack.
Bought(p) ==
    LET r == waiting[p] IN
    /\ r \in Sessions /\ pc[r] = "ok"
    /\ key' = [key EXCEPT ![p] = @ + 1]
    /\ waiting' = [waiting EXCEPT ![p] = NoOne]
    /\ Handled(r)

\* An error answer: the dialog says so and keeps the key.
Refused(p) ==
    LET r == waiting[p] IN
    /\ r \in Sessions /\ pc[r] = "refused"
    /\ waiting' = [waiting EXCEPT ![p] = NoOne]
    /\ Handled(r)
    /\ UNCHANGED key

\* (Mutant: every attempt draws a key.)
Disconnected_NewKey(p) ==
    /\ waiting[p] \in Sessions /\ key[p] < MaxKeys
    /\ Abandon(waiting[p])
    /\ waiting' = [waiting EXCEPT ![p] = NoOne]
    /\ key' = [key EXCEPT ![p] = @ + 1]

\* The connection breaks: an error, and the key is kept.
Disconnected(p) ==
    /\ waiting[p] \in Sessions
    /\ Abandon(waiting[p])
    /\ waiting' = [waiting EXCEPT ![p] = NoOne]
    /\ UNCHANGED key

\* The tab is closed or reloaded; what is opened next is another page.
Close(p) ==
    /\ \/ waiting[p] \in Sessions /\ Abandon(waiting[p])
       \/ waiting[p] = NoOne /\ UNCHANGED <<intent, row, owner, pc, job, snap, won>>
    /\ waiting' = [waiting EXCEPT ![p] = Closed]
    /\ UNCHANGED key

-----------------------------------------------------------------------------
(* The other requests, as they first read the row *)

\* retry_autoreload: the banner's button is never disabled, on any page.
ClickRetry(r)      == hold /\ Begin(r, [op |-> "retry"], "flush") /\ UNCHANGED page
\* invoice.payment_failed.
PaymentFailed(r)   == ~hold /\ Begin(r, [op |-> "failed"], "save") /\ UNCHANGED page
\* A generation has been made, and is over what is included.
Generated(r)       == Begin(r, [op |-> "debit"], "lock") /\ UNCHANGED page
SaveSettings(r, to) == Begin(r, [op |-> "settings", to |-> to], "save") /\ UNCHANGED page

-----------------------------------------------------------------------------
(* The row *)

\* A debit that would leave less than the threshold reloads first.
NeedsReload == enabled /\ ~hold /\ balance < Threshold + Cost

\* (Mutant: the row is read without being locked.)
Lock_Reading(r) ==
    /\ pc[r] = "lock" /\ owner = NoOne
    /\ \/ /\ job[r].op = "purchase" /\ hold
          /\ End(r, "refused")
       \/ /\ job[r].op = "purchase" => ~hold
          /\ snap' = [snap EXCEPT ![r] = Now]
          /\ Goto(r, IF job[r].op = "debit" /\ ~NeedsReload THEN "commit" ELSE "charge")
          /\ UNCHANGED <<owner, job, won>>
    /\ UNCHANGED <<page, intent, row>>

\* purchase_credits and the debits read the row FOR UPDATE.  A purchase is a 409
\* while billing is on hold.
Lock(r) ==
    /\ pc[r] = "lock" /\ owner = NoOne
    /\ \/ /\ job[r].op = "purchase" /\ hold
          /\ End(r, "refused")
       \/ /\ job[r].op = "purchase" => ~hold
          /\ owner' = r
          /\ snap' = [snap EXCEPT ![r] = Now]
          /\ Goto(r, IF job[r].op = "debit" /\ ~NeedsReload THEN "commit" ELSE "charge")
          /\ UNCHANGED <<job, won>>
    /\ UNCHANGED <<page, intent, row>>

RetryCharges(r) == snap[r].enabled /\ snap[r].balance < 2 * Threshold

\* A retry clears the hold, which takes the row at last; it charges if auto-reload
\* was on and the balance it read is below twice the threshold.
Flush(r) ==
    /\ pc[r] = "flush" /\ owner = NoOne
    /\ owner' = r
    /\ Goto(r, IF RetryCharges(r) THEN "charge" ELSE "commit")
    /\ UNCHANGED <<page, intent, row, job, snap, won>>

\* charge_saved_card, at Stripe.  A key it knows gives back what it gave before,
\* if the amount is the same; otherwise the card is charged, or is not, or is and
\* the answer is lost.
Charge(r) ==
    /\ pc[r] = "charge"
    /\ \/ /\ SameKey(r) = {}
          /\ \E i \in Ids, paid \in BOOLEAN :
                /\ Free(i)
                /\ intent' = [intent EXCEPT ![i] =
                      [key |-> Key_(r), amount |-> Amount(r), paid |-> paid]]
                /\ \/ paid /\ won' = [won EXCEPT ![r] = i]
                   \/ UNCHANGED won
       \/ \E i \in SameKey(r) :
             /\ IF intent[i].paid /\ intent[i].amount = Amount(r)
                  THEN won' = [won EXCEPT ![r] = i] ELSE UNCHANGED won
             /\ UNCHANGED intent
    /\ Goto(r, "commit")
    /\ UNCHANGED <<page, row, owner, job, snap>>

-----------------------------------------------------------------------------
(* The commits *)

\* (Mutant: an intent that has its row is credited again.)
CommitPurchase_Again(r) ==
    /\ pc[r] = "commit" /\ job[r].op = "purchase"
    /\ \/ /\ won[r] # NoIntent
          /\ balance' = snap[r].balance + intent[won[r]].amount
          /\ credited' = credited \cup {won[r]}
          /\ enabled' = (job[r].optin \/ enabled)
          /\ refill' = IF job[r].optin THEN job[r].amount ELSE refill
          /\ UNCHANGED hold
          /\ End(r, "ok")
       \/ /\ won[r] = NoIntent
          /\ UNCHANGED row
          /\ End(r, "refused")
    /\ UNCHANGED <<page, intent>>

\* The pack, and auto-reload if it was asked for; or a failed row and a 402.
CommitPurchase(r) ==
    /\ pc[r] = "commit" /\ job[r].op = "purchase"
    /\ \/ /\ won[r] # NoIntent
          /\ balance' = Credit(r, won[r])
          /\ credited' = credited \cup {won[r]}
          /\ enabled' = (job[r].optin \/ enabled)
          /\ refill' = IF job[r].optin THEN job[r].amount ELSE refill
          /\ UNCHANGED hold
          /\ End(r, "ok")
       \/ /\ won[r] = NoIntent
          /\ UNCHANGED row
          /\ End(r, "refused")
    /\ UNCHANGED <<page, intent>>

\* Whether a reload was tried: the row is locked, so this is what it was at Lock.
CommitDebit(r) ==
    /\ pc[r] = "commit" /\ job[r].op = "debit"
    /\ \/ /\ won[r] # NoIntent
          /\ balance' = Less(Credit(r, won[r]), Cost)
          /\ credited' = credited \cup {won[r]}
          /\ UNCHANGED hold
       \/ /\ won[r] = NoIntent
          /\ balance' = Less(snap[r].balance, Cost)
          /\ hold' = (hold \/ NeedsReload)
          /\ UNCHANGED credited
    /\ End(r, "ok")
    /\ UNCHANGED <<page, intent, enabled, refill>>

\* A retry writes the balance it read, plus the refill; a decline is a new hold.
CommitRetry(r) ==
    /\ pc[r] = "commit" /\ job[r].op = "retry"
    /\ \/ /\ won[r] # NoIntent
          /\ balance' = Credit(r, won[r])
          /\ credited' = credited \cup {won[r]}
          /\ hold' = FALSE
       \/ /\ won[r] = NoIntent
          /\ hold' = RetryCharges(r)
          /\ UNCHANGED <<balance, credited>>
    /\ End(r, "ok")
    /\ UNCHANGED <<page, intent, enabled, refill>>

\* Columns set to what was read are not written.
Save(r) ==
    /\ pc[r] = "save" /\ owner = NoOne
    /\ \/ /\ job[r].op = "failed"
          /\ hold' = TRUE
          /\ UNCHANGED <<enabled, refill>>
       \/ /\ job[r].op = "settings"
          /\ enabled' = IF job[r].to.enabled = snap[r].enabled THEN enabled ELSE job[r].to.enabled
          /\ refill' = IF job[r].to.refill = snap[r].refill THEN refill ELSE job[r].to.refill
          /\ UNCHANGED hold
    /\ End(r, "ok")
    /\ UNCHANGED <<page, intent, balance, credited>>

\* The server dies, or a statement fails: the transaction is rolled back.
Crash(r) ==
    /\ pc[r] \notin {"idle", "ok", "refused"}
    /\ End(r, "refused")
    /\ UNCHANGED <<page, intent, row>>
-----------------------------------------------------------------------------
Browser(p) ==
    \/ Bought(p) \/ Refused(p) \/ Disconnected(p) \/ Close(p)
    \/ \E r \in Sessions, a \in Packs, optin \in OptIns : ClickPack(p, r, a, optin)

Arrive(r) ==
    \/ ClickRetry(r) \/ PaymentFailed(r) \/ Generated(r)
    \/ \E to \in Settings : SaveSettings(r, to)

Step(r) ==
    \/ Lock(r) \/ Flush(r) \/ Charge(r)
    \/ CommitPurchase(r) \/ CommitDebit(r) \/ CommitRetry(r) \/ Save(r)

Next ==
    \/ \E p \in Pages : Browser(p)
    \/ \E r \in Sessions : Arrive(r) \/ Step(r) \/ Crash(r)

Spec == Init /\ [][Next]_vars

-----------------------------------------------------------------------------
(* Properties *)

\* Every variable has its type.
TypeOK ==
    /\ key \in [Pages -> Keys]
    /\ waiting \in [Pages -> Sessions \cup {NoOne, Closed}]
    /\ intent \in [Ids -> Intent \cup {NoIntent}]
    /\ balance \in Nat
    /\ hold \in BOOLEAN /\ enabled \in BOOLEAN
    /\ refill \in Packs
    /\ credited \in SUBSET Ids
    /\ owner \in Sessions \cup {NoOne}
    /\ pc \in [Sessions -> PCs]
    /\ job \in [Sessions -> Job]
    /\ snap \in [Sessions -> Read \cup {NoRead}]
    /\ won \in [Sessions -> Ids \cup {NoIntent}]

\* What a step that commits r must do to the balance: the intents whose rows it
\* adds, and what it debits.
Gained(r) == IF won[r] \in credited' \ credited THEN intent[won[r]].amount ELSE 0
Owed(r)   == IF job[r].op = "debit" THEN Cost ELSE 0

\* A purchase or a debit changes the balance that is there by exactly what it
\* credits and debits, with retries, settings and webhooks writing the same row:
\* no credit is lost to another, and an intent that a resent purchase is given
\* back is not credited again (billing.py:974-983, routers/billing.py:285).
LockedCommitsAreExact ==
    [][\A r \in Sessions :
          CommitPurchase(r) \/ CommitDebit(r) =>
              balance' = Less(balance + Gained(r), Owed(r))]_vars

\* While billing is on hold nothing but a retry charges the card, however long
\* ago the hold was looked at (billing.py:1039-1040, routers/billing.py:289-295).
HoldStopsCharges ==
    [][\A r \in Sessions :
          Charge(r) /\ intent' # intent /\ job[r].op # "retry" => ~hold]_vars

\* The dialog changes its key only when what was paid under it is credited: a
\* purchase whose answer was lost, or whose server died between Stripe and the
\* commit, can be resent while the page is open, and is then credited
\* (billing.py:931-935, Schedule.tsx:547).
KeyKeptUntilCredited ==
    [][\A p \in Pages, i \in Paid :
          intent[i].key = <<p, key[p]>> /\ key'[p] # key[p] => i \in credited]_vars

\* "On success: increments og.ai_credits_usd by autoreload_amount_usd, writes a
\* 'succeeded' BillingCharge row" (billing.py:1011): every row comes with its
\* credit.
EveryChargeIsCredited ==
    [][\A r \in Sessions :
          CommitPurchase(r) \/ CommitDebit(r) \/ CommitRetry(r) =>
              balance' = Less(balance + Gained(r), Owed(r))]_vars
=============================================================================
