------------------------ MODULE CreditBillingProofs ------------------------
(***************************************************************************)
(* Theorems about purchased credits, for any number of pages, sessions and *)
(* packs.                                                                  *)
(*                                                                         *)
(* The inductive invariant says that a session at Stripe or about to       *)
(* commit owns the group's row, and unless it is a retry still knows the   *)
(* balance; and that a purchase that is answered with success has left an  *)
(* intent under the page's key that is credited, the only one there is.    *)
(***************************************************************************)
EXTENDS CreditBilling, TLAPS

SessionInv(r) ==
    /\ pc[r] = "lock" => job[r].op \in {"purchase", "debit"}
    /\ pc[r] = "flush" => job[r].op = "retry" /\ snap[r] \in Read
    /\ pc[r] = "save" => job[r].op \in {"failed", "settings"}
    /\ pc[r] \in {"charge", "commit"} =>
          owner = r /\ job[r].op \in {"purchase", "debit", "retry"} /\ snap[r] \in Read
    /\ pc[r] \in {"charge", "commit"} /\ job[r].op # "retry" => snap[r].balance = balance
    /\ pc[r] = "charge" /\ job[r].op # "retry" => ~hold
    /\ won[r] # NoIntent =>
          pc[r] = "commit" /\ Made(won[r]) /\ intent[won[r]].key = Key_(r)

\* A page waits for a purchase under its key.
WaitInv(p) ==
    \A r \in Sessions : waiting[p] = r =>
        /\ pc[r] # "idle" /\ key[p] < MaxKeys
        /\ job[r].op = "purchase" /\ job[r].page = p /\ job[r].key = key[p]
        /\ pc[r] = "ok" => \E i \in credited : Made(i) /\ intent[i].key = <<p, key[p]>>

\* Stripe makes one intent per key.
KeyInv ==
    \A i, j \in Ids :
        Made(i) /\ Made(j) /\ intent[i].key = intent[j].key /\ intent[i].key # NoKey => i = j

IInv ==
    /\ TypeOK /\ KeyInv
    /\ \A r \in Sessions : SessionInv(r)
    /\ \A p \in Pages : WaitInv(p)

-----------------------------------------------------------------------------
(* Lemmas about the types *)

\* The fields of a job, by what it is.
LEMMA JobTypes ==
    ASSUME NEW j \in Job
    PROVE  /\ j.op = "purchase" =>
                 j.page \in Pages /\ j.key \in Keys /\ j.amount \in Packs /\ j.optin \in BOOLEAN
           /\ j.op = "settings" => j.to.enabled \in BOOLEAN /\ j.to.refill \in Packs
<1>1. CASE j \in [op : {"purchase"}, page : Pages, key : Keys, amount : Packs, optin : OptIns]
  BY <1>1, CreditAssumption
<1>2. CASE j \in [op : {"settings"}, to : Settings]
  <2>1. j.op = "settings" /\ j.to \in Settings
    BY <1>2
  <2> QED
    BY <2>1, CreditAssumption
<1>3. CASE j \in {Idle} \cup [op : {"debit", "retry", "failed"}]
  BY <1>3 DEF Idle
<1> QED
  BY <1>1, <1>2, <1>3 DEF Job

\* Nothing to do is a job.
LEMMA IdleTypes == Idle \in Job /\ Idle.op = "none"
BY DEF Job, Idle

\* The row as it is read now is a reading, of the balance that is there.
LEMMA NowTypes == TypeOK => Now \in Read /\ Now.balance = balance
BY DEF TypeOK, Now, Read

\* The invariant holds at the start.
LEMMA InitHolds == Init => IInv
<1> SUFFICES ASSUME Init PROVE IInv
  OBVIOUS
<1>1. 1 \in Keys
  BY CreditAssumption DEF Keys
<1>2. TypeOK
  BY <1>1, CreditAssumption, IdleTypes DEF Init, TypeOK, PCs
<1>3. KeyInv
  BY DEF Init, KeyInv, Made
<1>4. \A r \in Sessions : SessionInv(r)
  BY DEF Init, SessionInv
<1>5. \A p \in Pages : WaitInv(p)
  BY CreditAssumption DEF Init, WaitInv
<1> QED
  BY <1>2, <1>3, <1>4, <1>5 DEF IInv
-----------------------------------------------------------------------------
(* What one session does leaves the others as they were *)

\* A step of r: the other sessions' locals stay, a row that another owns stays
\* locked and is not changed, and intents are only made.
StepOf(r) ==
    /\ \A q \in Sessions \ {r} :
          /\ pc'[q] = pc[q] /\ job'[q] = job[q] /\ snap'[q] = snap[q] /\ won'[q] = won[q]
          /\ owner = q => owner' = q /\ balance' = balance /\ hold' = hold
    /\ \A i \in Ids : Made(i) => intent'[i] = intent[i]

\* A step of r leaves the invariant of another session true.
LEMMA OthersKeep ==
    ASSUME IInv, NEW r, StepOf(r), NEW q \in Sessions, q # r
    PROVE  SessionInv(q)'
<1>1. /\ pc'[q] = pc[q] /\ job'[q] = job[q] /\ snap'[q] = snap[q] /\ won'[q] = won[q]
      /\ owner = q => owner' = q /\ balance' = balance /\ hold' = hold
  BY DEF StepOf
<1>2. won[q] # NoIntent => won[q] \in Ids
  BY DEF IInv, TypeOK
<1>3. won[q] # NoIntent /\ Made(won[q]) => intent'[won[q]] = intent[won[q]]
  BY <1>2 DEF StepOf
<1>4. won[q] # NoIntent /\ Made(won[q]) => Made(won[q])'
  BY <1>1, <1>3 DEF Made
<1>5. Key_(q)' = Key_(q)
  BY <1>1 DEF Key_
<1>6. SessionInv(q)
  BY DEF IInv
<1> QED
  BY <1>1, <1>3, <1>4, <1>5, <1>6 DEF SessionInv

\* A page goes on waiting for the same purchase.
LEMMA WaitersKeep ==
    ASSUME IInv, NEW o \in Pages, key'[o] = key[o], waiting'[o] = waiting[o],
           credited \subseteq credited',
           \A i \in Ids : Made(i) => intent'[i] = intent[i],
           \A q \in Sessions : waiting[o] = q =>
              /\ pc'[q] # "idle" /\ job'[q] = job[q]
              /\ pc'[q] = "ok" =>
                    \/ pc[q] = "ok"
                    \/ \E i \in credited' : Made(i)' /\ intent'[i].key = <<o, key[o]>>
    PROVE  WaitInv(o)'
<1> SUFFICES ASSUME NEW q \in Sessions, waiting[o] = q
             PROVE  /\ pc'[q] # "idle" /\ key[o] < MaxKeys
                    /\ job'[q].op = "purchase" /\ job'[q].page = o /\ job'[q].key = key[o]
                    /\ pc'[q] = "ok" =>
                          \E i \in credited' : Made(i)' /\ intent'[i].key = <<o, key[o]>>
  BY DEF WaitInv
<1>1. WaitInv(o)
  BY DEF IInv
<1>2. ASSUME pc[q] = "ok"
      PROVE  \E i \in credited' : Made(i)' /\ intent'[i].key = <<o, key[o]>>
  <2>1. PICK i \in credited : Made(i) /\ intent[i].key = <<o, key[o]>>
    BY <1>1, <1>2 DEF WaitInv
  <2>2. i \in Ids
    BY DEF IInv, TypeOK
  <2>3. intent'[i] = intent[i]
    BY <2>1, <2>2
  <2> QED
    BY <2>1, <2>3 DEF Made
<1> QED
  BY <1>1, <1>2 DEF WaitInv

\* A step of r is nothing to a page that does not wait for r.
LEMMA OtherWaiters ==
    ASSUME IInv, NEW o \in Pages, NEW r, StepOf(r), waiting[o] # r,
           key'[o] = key[o], waiting'[o] = waiting[o], credited \subseteq credited'
    PROVE  WaitInv(o)'
<1>1. \A q \in Sessions : waiting[o] = q => q # r /\ pc[q] # "idle"
  BY DEF IInv, WaitInv
<1>2. \A q \in Sessions : waiting[o] = q => pc'[q] = pc[q] /\ job'[q] = job[q]
  BY <1>1 DEF StepOf
<1>3. \A i \in Ids : Made(i) => intent'[i] = intent[i]
  BY DEF StepOf
<1> QED
  BY <1>1, <1>2, <1>3, WaitersKeep

\* No page waits for an idle session, and only one waits for any.
LEMMA OneWaits ==
    ASSUME IInv, NEW p \in Pages, NEW o \in Pages, NEW r \in Sessions
    PROVE  /\ pc[r] = "idle" => waiting[o] # r
           /\ waiting[p] = r /\ waiting[o] = r => o = p
BY DEF IInv, WaitInv

-----------------------------------------------------------------------------
(* The page *)

\* A purchase that is clicked keeps the invariant.
LEMMA ClickPackKeeps ==
    ASSUME IInv, NEW p \in Pages, NEW r \in Sessions, NEW a \in Packs, NEW optin \in OptIns,
           ClickPack(p, r, a, optin)
    PROVE  IInv'
<1> DEFINE new == [op |-> "purchase", page |-> p, key |-> key[p], amount |-> a, optin |-> optin]
<1> USE DEF ClickPack, Begin, Goto, row
<1>1. new \in Job /\ new.op = "purchase" /\ new.page = p /\ new.key = key[p]
  BY DEF IInv, TypeOK, Job
<1>2. /\ waiting' = [waiting EXCEPT ![p] = r] /\ waiting[p] = NoOne /\ key[p] < MaxKeys
      /\ pc[r] = "idle" /\ pc' = [pc EXCEPT ![r] = "lock"]
      /\ job' = [job EXCEPT ![r] = new]
      /\ snap' = [snap EXCEPT ![r] = NoRead]
      /\ UNCHANGED <<key, intent, balance, hold, enabled, refill, credited, owner, won>>
  BY <1>1
<1> HIDE DEF new, ClickPack, Begin
<1>3. TypeOK'
  BY <1>1, <1>2 DEF IInv, TypeOK, PCs
<1>4. KeyInv'
  BY <1>2 DEF IInv, KeyInv, Made
<1>5. StepOf(r)
  BY <1>2 DEF IInv, TypeOK, StepOf
<1>6. SessionInv(r)'
  BY <1>1, <1>2 DEF IInv, TypeOK, SessionInv
<1>7. ASSUME NEW o \in Pages PROVE WaitInv(o)'
  <2>1. CASE o = p
    BY <1>1, <1>2, <2>1 DEF IInv, TypeOK, WaitInv
  <2>2. CASE o # p
    BY <1>2, <1>5, <2>2, OtherWaiters, OneWaits DEF IInv, TypeOK
  <2> QED
    BY <2>1, <2>2
<1> QED
  BY <1>3, <1>4, <1>5, <1>6, <1>7, OthersKeep DEF IInv

\* A page takes the answer it waits for.
LEMMA HandledKeeps ==
    ASSUME IInv, NEW p \in Pages, NEW r \in Sessions, waiting[p] = r,
           pc[r] \in {"ok", "refused"}, Handled(r),
           NEW x \in {NoOne, Closed}, waiting' = [waiting EXCEPT ![p] = x],
           key' = key \/ key' = [key EXCEPT ![p] = @ + 1]
    PROVE  IInv'
<1>1. /\ pc' = [pc EXCEPT ![r] = "idle"] /\ job' = [job EXCEPT ![r] = Idle]
      /\ UNCHANGED <<intent, balance, hold, enabled, refill, credited, owner, snap, won>>
  BY DEF Handled, Goto, row
<1>2. key[p] < MaxKeys
  BY DEF IInv, WaitInv
<1>3. TypeOK'
  BY <1>1, <1>2, IdleTypes, CreditAssumption DEF IInv, TypeOK, PCs, Keys
<1>4. KeyInv'
  BY <1>1 DEF IInv, KeyInv, Made
<1>5. StepOf(r)
  BY <1>1 DEF IInv, TypeOK, StepOf
<1>6. SessionInv(r)'
  BY <1>1 DEF IInv, TypeOK, SessionInv
<1>7. ASSUME NEW o \in Pages PROVE WaitInv(o)'
  <2>1. CASE o = p
    BY <1>1, <2>1, CreditAssumption DEF IInv, TypeOK, WaitInv
  <2>2. CASE o # p
    BY <1>1, <1>5, <2>2, OtherWaiters, OneWaits DEF IInv, TypeOK
  <2> QED
    BY <2>1, <2>2
<1> QED
  BY <1>1, <1>3, <1>4, <1>5, <1>6, <1>7, OthersKeep DEF IInv

\* A page waits no more.
LEMMA StopsWaiting ==
    ASSUME IInv, NEW p \in Pages, NEW x \in {NoOne, Closed},
           waiting' = [waiting EXCEPT ![p] = x],
           UNCHANGED <<key, intent, row, owner, pc, job, snap, won>>
    PROVE  IInv'
<1> USE DEF row
<1>1. TypeOK'
  BY DEF IInv, TypeOK
<1>2. KeyInv'
  BY DEF IInv, KeyInv, Made
<1>3. ASSUME NEW r \in Sessions PROVE SessionInv(r)'
  BY DEF IInv, SessionInv, Made, Key_
<1>4. ASSUME NEW o \in Pages PROVE WaitInv(o)'
  <2>1. CASE o = p
    BY <2>1, CreditAssumption DEF IInv, TypeOK, WaitInv
  <2>2. CASE o # p
    <3>1. waiting'[o] = waiting[o] /\ WaitInv(o)
      BY <2>2 DEF IInv, TypeOK
    <3> QED
      BY <3>1 DEF WaitInv, Made
  <2> QED
    BY <2>1, <2>2
<1> QED
  BY <1>1, <1>2, <1>3, <1>4 DEF IInv

\* Every step of a page keeps the invariant.
LEMMA BrowserKeeps ==
    ASSUME IInv, NEW p \in Pages, Browser(p)
    PROVE  IInv'
<1>1. CASE Bought(p)
  BY <1>1, HandledKeeps DEF Bought
<1>2. CASE Refused(p)
  BY <1>2, HandledKeeps DEF Refused
<1>3. CASE Disconnected(p)
  BY <1>3, HandledKeeps, StopsWaiting DEF Disconnected, Abandon
<1>4. CASE Close(p)
  BY <1>4, HandledKeeps, StopsWaiting DEF Close, Abandon
<1>5. CASE \E r \in Sessions, a \in Packs, optin \in OptIns : ClickPack(p, r, a, optin)
  BY <1>5, ClickPackKeeps
<1> QED
  BY <1>1, <1>2, <1>3, <1>4, <1>5 DEF Browser

-----------------------------------------------------------------------------
(* The sessions *)

\* A request that arrives keeps the invariant, whatever it asks for.
LEMMA ArriveKeeps ==
    ASSUME IInv, NEW r \in Sessions, Arrive(r)
    PROVE  IInv'
<1>1. PICK what \in Job, at \in PCs :
         /\ Begin(r, what, at) /\ UNCHANGED page
         /\ \/ what.op = "retry" /\ at = "flush"
            \/ what.op \in {"failed", "settings"} /\ at = "save"
            \/ what.op = "debit" /\ at = "lock"
  <2>1. CASE ClickRetry(r)
    <3>1. [op |-> "retry"] \in Job
      BY DEF Job
    <3> QED
      BY <2>1, <3>1 DEF ClickRetry, PCs
  <2>2. CASE PaymentFailed(r)
    <3>1. [op |-> "failed"] \in Job
      BY DEF Job
    <3> QED
      BY <2>2, <3>1 DEF PaymentFailed, PCs
  <2>3. CASE Generated(r)
    <3>1. [op |-> "debit"] \in Job
      BY DEF Job
    <3> QED
      BY <2>3, <3>1 DEF Generated, PCs
  <2>4. ASSUME NEW to \in Settings, SaveSettings(r, to)
        PROVE  \E what \in Job, at \in PCs :
                 /\ Begin(r, what, at) /\ UNCHANGED page
                 /\ what.op \in {"failed", "settings"} /\ at = "save"
    <3>1. [op |-> "settings", to |-> to] \in Job
      BY DEF Job
    <3> QED
      BY <2>4, <3>1 DEF SaveSettings, PCs
  <2> QED
    BY <2>1, <2>2, <2>3, <2>4 DEF Arrive
<1>2. /\ pc[r] = "idle" /\ pc' = [pc EXCEPT ![r] = at]
      /\ job' = [job EXCEPT ![r] = what]
      /\ \E s \in Read \cup {NoRead} :
            snap' = [snap EXCEPT ![r] = s] /\ (what.op = "retry" => s \in Read)
      /\ UNCHANGED <<key, waiting, intent, balance, hold, enabled, refill, credited, owner, won>>
  BY <1>1, NowTypes DEF Begin, Goto, page, row, IInv
<1>3. TypeOK'
  BY <1>2 DEF IInv, TypeOK
<1>4. KeyInv'
  BY <1>2 DEF IInv, KeyInv, Made
<1>5. StepOf(r)
  BY <1>2 DEF IInv, TypeOK, StepOf
<1>6. SessionInv(r)'
  BY <1>1, <1>2 DEF IInv, TypeOK, SessionInv
<1>7. ASSUME NEW o \in Pages PROVE WaitInv(o)'
  BY <1>2, <1>5, OtherWaiters, OneWaits
<1> QED
  BY <1>3, <1>4, <1>5, <1>6, <1>7, OthersKeep DEF IInv

\* A request ends, with what it commits.
LEMMA EndKeeps ==
    ASSUME IInv, NEW r \in Sessions, NEW answer \in {"ok", "refused"}, End(r, answer),
           pc[r] # "idle",
           UNCHANGED <<page, intent>>,
           balance' \in Nat, hold' \in BOOLEAN, enabled' \in BOOLEAN, refill' \in Packs,
           credited \subseteq credited', credited' \subseteq Ids,
           owner \in {r, NoOne} \/ UNCHANGED <<balance, hold>>,
           answer = "ok" /\ job[r].op = "purchase" =>
              \E i \in credited' : Made(i) /\ intent[i].key = Key_(r)
    PROVE  IInv'
<1> DEFINE to == IF Waited(r) THEN answer ELSE "idle"
<1>1. /\ UNCHANGED <<key, waiting, intent>>
      /\ pc' = [pc EXCEPT ![r] = to] /\ to \in {"ok", "refused", "idle"}
      /\ job' = [job EXCEPT ![r] = IF Waited(r) THEN @ ELSE Idle]
      /\ snap' = [snap EXCEPT ![r] = NoRead] /\ won' = [won EXCEPT ![r] = NoIntent]
      /\ owner' = IF owner = r THEN NoOne ELSE owner
  BY DEF End, Goto, page
<1> HIDE DEF to
<1>2. TypeOK'
  BY <1>1, IdleTypes DEF IInv, TypeOK, PCs
<1>3. KeyInv'
  BY <1>1 DEF IInv, KeyInv, Made
<1>4. StepOf(r)
  BY <1>1, CreditAssumption DEF IInv, TypeOK, StepOf
<1>5. SessionInv(r)'
  BY <1>1 DEF IInv, TypeOK, SessionInv
<1>6. ASSUME NEW o \in Pages PROVE WaitInv(o)'
  <2>1. CASE waiting[o] = r
    <3>1. Waited(r) /\ to = answer
      BY <2>1 DEF Waited, to
    <3>2. job[r].op = "purchase" /\ Key_(r) = <<o, key[o]>>
      BY <2>1 DEF IInv, WaitInv, Key_
    <3>3. pc'[r] = answer /\ job'[r] = job[r]
      BY <1>1, <3>1 DEF IInv, TypeOK
    <3> QED
      BY <1>1, <2>1, <3>2, <3>3, WaitersKeep DEF Made
  <2>2. CASE waiting[o] # r
    BY <1>1, <1>4, <2>2, OtherWaiters
  <2> QED
    BY <2>1, <2>2
<1> QED
  BY <1>2, <1>3, <1>4, <1>5, <1>6, OthersKeep DEF IInv

\* A request that is under way goes on; a page that waits for it waits on.
LEMMA GoesOn ==
    ASSUME IInv, NEW r \in Sessions, StepOf(r),
           UNCHANGED <<page, credited, job>>,
           pc'[r] \notin {"idle", "ok"}
    PROVE  \A o \in Pages : WaitInv(o)'
<1> SUFFICES ASSUME NEW o \in Pages PROVE WaitInv(o)'
  OBVIOUS
<1>1. CASE waiting[o] = r
  BY <1>1, WaitersKeep DEF page, StepOf
<1>2. CASE waiting[o] # r
  BY <1>2, OtherWaiters DEF page
<1> QED
  BY <1>1, <1>2

\* A session that locks the row knows its balance, or is refused and holds nothing.
LEMMA LockKeeps ==
    ASSUME IInv, NEW r \in Sessions, Lock(r)
    PROVE  IInv'
<1>1. pc[r] = "lock" /\ owner = NoOne /\ UNCHANGED <<page, intent, row>>
  BY DEF Lock
<1>2. CASE End(r, "refused")
  BY <1>1, <1>2, EndKeeps DEF row, IInv, TypeOK
<1>3. CASE /\ job[r].op = "purchase" => ~hold
           /\ owner' = r
           /\ snap' = [snap EXCEPT ![r] = Now]
           /\ Goto(r, IF job[r].op = "debit" /\ ~NeedsReload THEN "commit" ELSE "charge")
           /\ UNCHANGED <<job, won>>
  <2>1. PICK to \in {"commit", "charge"} :
           /\ pc' = [pc EXCEPT ![r] = to]
           /\ to = "charge" /\ job[r].op = "debit" => ~hold
    BY <1>3 DEF Goto, NeedsReload
  <2>2. UNCHANGED <<key, waiting, intent, balance, hold, enabled, refill, credited>>
    BY <1>1 DEF page, row
  <2>3. TypeOK'
    BY <1>3, <2>1, <2>2, NowTypes DEF IInv, TypeOK, PCs
  <2>4. KeyInv'
    BY <2>2 DEF IInv, KeyInv, Made
  <2>5. StepOf(r)
    BY <1>1, <1>3, <2>1, <2>2, CreditAssumption DEF IInv, TypeOK, StepOf
  <2>6. SessionInv(r)'
    BY <1>1, <1>3, <2>1, <2>2, NowTypes DEF IInv, TypeOK, SessionInv
  <2>7. pc'[r] \notin {"idle", "ok"}
    BY <2>1 DEF IInv, TypeOK
  <2> QED
    BY <1>1, <1>3, <2>2, <2>3, <2>4, <2>5, <2>6, <2>7, OthersKeep, GoesOn DEF IInv
<1> QED
  BY <1>2, <1>3 DEF Lock

\* A retry's flush owns the row from here; it need not know the balance.
LEMMA FlushKeeps ==
    ASSUME IInv, NEW r \in Sessions, Flush(r)
    PROVE  IInv'
<1>1. PICK to \in {"commit", "charge"} : pc' = [pc EXCEPT ![r] = to]
  BY DEF Flush, Goto
<1>2. /\ pc[r] = "flush" /\ owner = NoOne /\ owner' = r
      /\ UNCHANGED <<key, waiting, intent, job, snap, won>>
      /\ UNCHANGED <<balance, hold, enabled, refill, credited>>
  BY DEF Flush, page, row
<1>3. TypeOK'
  BY <1>1, <1>2 DEF IInv, TypeOK, PCs
<1>4. KeyInv'
  BY <1>2 DEF IInv, KeyInv, Made
<1>5. StepOf(r)
  BY <1>1, <1>2, CreditAssumption DEF IInv, TypeOK, StepOf
<1>6. SessionInv(r)'
  BY <1>1, <1>2 DEF IInv, TypeOK, SessionInv
<1>7. pc'[r] \notin {"idle", "ok"} /\ UNCHANGED page
  BY <1>1, <1>2 DEF IInv, TypeOK, page
<1> QED
  BY <1>2, <1>3, <1>4, <1>5, <1>6, <1>7, OthersKeep, GoesOn DEF IInv

\* What Stripe is asked for.
LEMMA AskedTypes ==
    ASSUME IInv, NEW r \in Sessions, pc[r] = "charge"
    PROVE  Key_(r) \in Key \cup {NoKey} /\ Amount(r) \in Packs
<1>1. job[r] \in Job /\ snap[r] \in Read
  BY DEF IInv, TypeOK, SessionInv
<1>2. CASE job[r].op = "purchase"
  BY <1>1, <1>2, JobTypes DEF Key_, Key, Amount
<1>3. CASE job[r].op # "purchase"
  BY <1>1, <1>3 DEF Key_, Amount, Read
<1> QED
  BY <1>2, <1>3

\* Stripe moves the money of the owner only, under the key its page still has.
LEMMA ChargeKeeps ==
    ASSUME IInv, NEW r \in Sessions, Charge(r)
    PROVE  IInv'
<1>1. /\ pc[r] = "charge" /\ pc' = [pc EXCEPT ![r] = "commit"]
      /\ UNCHANGED <<key, waiting, balance, hold, enabled, refill, credited, owner, job, snap>>
  BY DEF Charge, Goto, page, row
<1>2. won[r] = NoIntent
  BY <1>1 DEF IInv, SessionInv
<1> DEFINE Kept ==
      /\ intent' \in [Ids -> Intent \cup {NoIntent}]
      /\ won' = won \/ \E i \in Ids :
            won' = [won EXCEPT ![r] = i] /\ Made(i)' /\ intent'[i].key = Key_(r)
      /\ \A i \in Ids : Made(i) => intent'[i] = intent[i]
      /\ KeyInv'
<1>3. Kept
  <2>1. CASE \E i \in SameKey(r) :
                /\ won' = won \/ won' = [won EXCEPT ![r] = i]
                /\ UNCHANGED intent
    BY <2>1 DEF IInv, TypeOK, KeyInv, SameKey, Made
  <2>2. ASSUME SameKey(r) = {}, NEW i \in Ids, NEW paid \in BOOLEAN, ~Made(i),
               intent' = [intent EXCEPT ![i] =
                  [key |-> Key_(r), amount |-> Amount(r), paid |-> paid]],
               won' = won \/ won' = [won EXCEPT ![r] = i]
        PROVE  Kept
    <3> DEFINE new == [key |-> Key_(r), amount |-> Amount(r), paid |-> paid]
    <3>1. new \in Intent /\ new.key = Key_(r) /\ new # NoIntent
      BY <1>1, AskedTypes, CreditAssumption DEF Intent
    <3> HIDE DEF new
    <3>2. /\ intent' = [intent EXCEPT ![i] = new]
          /\ intent \in [Ids -> Intent \cup {NoIntent}]
      BY <2>2 DEF new, IInv, TypeOK
    <3>3. intent' \in [Ids -> Intent \cup {NoIntent}] /\ Made(i)' /\ intent'[i].key = Key_(r)
      BY <3>1, <3>2 DEF Made
    <3>4. \A j \in Ids : Made(j) => intent'[j] = intent[j] /\ j # i
      BY <2>2, <3>2 DEF Made
    <3>5. \A j \in Ids \ {i} : Made(j)' => Made(j) /\ intent'[j] = intent[j]
      BY <3>2 DEF Made
    <3>6. \A j \in Ids : Made(j) => intent[j].key # Key_(r) \/ Key_(r) = NoKey
      BY <2>2 DEF SameKey
    <3>7. KeyInv'
      BY <3>3, <3>5, <3>6 DEF IInv, KeyInv
    <3> QED
      BY <2>2, <3>3, <3>4, <3>7
  <2> QED
    BY <2>1, <2>2 DEF Charge, Free
<1>4. TypeOK'
  BY <1>1, <1>3 DEF IInv, TypeOK, PCs
<1>5. StepOf(r)
  BY <1>1, <1>3 DEF IInv, TypeOK, StepOf
<1>6. SessionInv(r)'
  <2>1. Key_(r)' = Key_(r)
    BY <1>1 DEF Key_
  <2> QED
    BY <1>1, <1>2, <1>3, <2>1 DEF IInv, TypeOK, SessionInv
<1>7. pc'[r] \notin {"idle", "ok"} /\ UNCHANGED page
  BY <1>1 DEF IInv, TypeOK, page
<1> QED
  BY <1>1, <1>3, <1>4, <1>5, <1>6, <1>7, OthersKeep, GoesOn DEF IInv

\* A session about to commit owns the row, and what it credits is an intent that
\* was made for it.
LEMMA AtCommit ==
    ASSUME IInv, NEW r \in Sessions, pc[r] = "commit"
    PROVE  /\ owner = r /\ snap[r] \in Read /\ snap[r].balance \in Nat
           /\ job[r].op # "retry" => snap[r].balance = balance
           /\ won[r] # NoIntent =>
                 /\ won[r] \in Ids /\ Made(won[r]) /\ intent[won[r]].key = Key_(r)
                 /\ intent[won[r]].amount \in Nat
                 /\ Credit(r, won[r]) \in Nat
<1>1. owner = r /\ snap[r] \in Read /\ (job[r].op # "retry" => snap[r].balance = balance)
  BY DEF IInv, SessionInv
<1>2. snap[r].balance \in Nat
  BY <1>1 DEF Read
<1>3. ASSUME won[r] # NoIntent
      PROVE  won[r] \in Ids /\ Made(won[r]) /\ intent[won[r]].key = Key_(r)
  BY <1>3 DEF IInv, TypeOK, SessionInv
<1>4. ASSUME won[r] # NoIntent PROVE intent[won[r]].amount \in Nat
  <2>1. intent[won[r]] \in Intent
    BY <1>3, <1>4 DEF IInv, TypeOK, Made
  <2> QED
    BY <2>1, CreditAssumption DEF Intent
<1> QED
  BY <1>1, <1>2, <1>3, <1>4 DEF Credit

\* The commit of a purchase keeps the invariant: the intent it credits is the page's.
LEMMA CommitPurchaseKeeps ==
    ASSUME IInv, NEW r \in Sessions, CommitPurchase(r)
    PROVE  IInv'
<1>1. pc[r] = "commit" /\ job[r].op = "purchase" /\ UNCHANGED <<page, intent>>
  BY DEF CommitPurchase
<1>2. CASE won[r] = NoIntent
  BY <1>1, <1>2, EndKeeps DEF CommitPurchase, row, IInv, TypeOK
<1>3. CASE won[r] # NoIntent
  <2>1. /\ balance' = Credit(r, won[r]) /\ credited' = credited \cup {won[r]}
        /\ enabled' = (job[r].optin \/ enabled)
        /\ refill' = IF job[r].optin THEN job[r].amount ELSE refill
        /\ hold' = hold /\ End(r, "ok")
    BY <1>3 DEF CommitPurchase
  <2>2. job[r].amount \in Packs /\ job[r].optin \in BOOLEAN
    BY <1>1, JobTypes DEF IInv, TypeOK
  <2>3. enabled' \in BOOLEAN /\ refill' \in Packs /\ hold' \in BOOLEAN
    BY <2>1, <2>2 DEF IInv, TypeOK
  <2>4. credited \subseteq Ids
    BY DEF IInv, TypeOK
  <2> QED
    BY <1>1, <1>3, <2>1, <2>3, <2>4, AtCommit, EndKeeps
<1> QED
  BY <1>2, <1>3

\* The commit of a debit keeps the invariant.
LEMMA CommitDebitKeeps ==
    ASSUME IInv, NEW r \in Sessions, CommitDebit(r)
    PROVE  IInv'
<1>1. /\ pc[r] = "commit" /\ job[r].op = "debit" /\ End(r, "ok")
      /\ UNCHANGED <<page, intent, enabled, refill>>
  BY DEF CommitDebit
<1>2. /\ balance' \in Nat /\ hold' \in BOOLEAN
      /\ credited \subseteq credited' /\ credited' \subseteq Ids
  BY <1>1, AtCommit, CreditAssumption DEF CommitDebit, Less, NeedsReload, IInv, TypeOK
<1> QED
  BY <1>1, <1>2, AtCommit, EndKeeps DEF IInv, TypeOK

\* The commit of a retry keeps the invariant, its stale balance included.
LEMMA CommitRetryKeeps ==
    ASSUME IInv, NEW r \in Sessions, CommitRetry(r)
    PROVE  IInv'
<1>1. /\ pc[r] = "commit" /\ job[r].op = "retry" /\ End(r, "ok")
      /\ UNCHANGED <<page, intent, enabled, refill>>
  BY DEF CommitRetry
<1>2. hold' \in BOOLEAN
  BY AtCommit, <1>1 DEF CommitRetry, RetryCharges, Read
<1>3. /\ balance' \in Nat
      /\ credited \subseteq credited' /\ credited' \subseteq Ids
  BY <1>1, AtCommit DEF CommitRetry, IInv, TypeOK
<1> QED
  BY <1>1, <1>2, <1>3, AtCommit, EndKeeps DEF IInv, TypeOK

\* The settings and the webhook keep the invariant: they write while nobody owns the row.
LEMMA SaveKeeps ==
    ASSUME IInv, NEW r \in Sessions, Save(r)
    PROVE  IInv'
<1>1. /\ pc[r] = "save" /\ owner = NoOne /\ End(r, "ok")
      /\ UNCHANGED <<page, intent, balance, credited>>
  BY DEF Save
<1>2. job[r].op \in {"failed", "settings"}
  BY <1>1 DEF IInv, SessionInv
<1>3. job[r].op = "settings" => job[r].to.enabled \in BOOLEAN /\ job[r].to.refill \in Packs
  BY JobTypes DEF IInv, TypeOK
<1>4. enabled' \in BOOLEAN /\ refill' \in Packs /\ hold' \in BOOLEAN
  BY <1>3 DEF Save, IInv, TypeOK
<1> QED
  BY <1>1, <1>2, <1>4, EndKeeps DEF IInv, TypeOK

\* A rollback keeps the invariant.
LEMMA CrashKeeps ==
    ASSUME IInv, NEW r \in Sessions, Crash(r)
    PROVE  IInv'
BY EndKeeps DEF Crash, row, IInv, TypeOK

\* A step in which nothing changes keeps the invariant.
LEMMA StutterKeeps == IInv /\ UNCHANGED vars => IInv'
<1> SUFFICES ASSUME IInv, UNCHANGED vars PROVE IInv'
  OBVIOUS
<1> USE DEF vars, page, row
<1>1. TypeOK' /\ KeyInv'
  BY DEF IInv, TypeOK, KeyInv, Made
<1>2. \A r \in Sessions : SessionInv(r)'
  BY DEF IInv, SessionInv, Made, Key_
<1>3. ASSUME NEW p \in Pages PROVE WaitInv(p)'
  <2>1. \A r \in Sessions : waiting[p] = r => pc[r] # "idle"
    BY DEF IInv, WaitInv
  <2> QED
    BY <2>1, WaitersKeep
<1> QED
  BY <1>1, <1>2, <1>3 DEF IInv

\* Every step keeps the invariant.
LEMMA NextKeeps == IInv /\ [Next]_vars => IInv'
<1> SUFFICES ASSUME IInv, [Next]_vars PROVE IInv'
  OBVIOUS
<1>1. CASE \E p \in Pages : Browser(p)
  BY <1>1, BrowserKeeps
<1>2. ASSUME NEW r \in Sessions, Step(r) PROVE IInv'
  BY <1>2, LockKeeps, FlushKeeps, ChargeKeeps, CommitPurchaseKeeps, CommitDebitKeeps,
     CommitRetryKeeps, SaveKeeps DEF Step
<1>3. CASE \E r \in Sessions : Arrive(r) \/ Crash(r)
  BY <1>3, ArriveKeeps, CrashKeeps
<1>4. CASE UNCHANGED vars
  BY <1>4, StutterKeeps
<1> QED
  BY <1>1, <1>2, <1>3, <1>4 DEF Next

\* The invariant is one of the specification.
THEOREM Invariance == Spec => []IInv
<1> QED
  BY InitHolds, NextKeeps, PTL DEF Spec

-----------------------------------------------------------------------------
(* Theorems *)

\* Every variable has its type.
THEOREM TypeCorrect == Spec => []TypeOK
<1>1. IInv => TypeOK
  BY DEF IInv
<1> QED
  BY <1>1, Invariance, PTL

\* No card is charged while billing is on hold but by a retry.
THEOREM HoldHolds == Spec => HoldStopsCharges
<1> DEFINE A == \A r \in Sessions :
              Charge(r) /\ intent' # intent /\ job[r].op # "retry" => ~hold
<1>1. ASSUME IInv, [Next]_vars PROVE A
  BY <1>1 DEF IInv, SessionInv, Charge
<1> QED
  BY <1>1, Invariance, PTL DEF HoldStopsCharges, Spec

\* A page leaves no paid intent behind that is not credited when it draws a key.
THEOREM NothingPaidIsForgotten == Spec => KeyKeptUntilCredited
<1> DEFINE A == \A p \in Pages, i \in Paid :
              intent[i].key = <<p, key[p]>> /\ key'[p] # key[p] => i \in credited
<1>1. ASSUME IInv, [Next]_vars PROVE A
  <2> SUFFICES ASSUME NEW p \in Pages, NEW i \in Paid,
                      intent[i].key = <<p, key[p]>>, key'[p] # key[p]
               PROVE  i \in credited
    OBVIOUS
  <2>1. \E o \in Pages : Bought(o)
    BY <1>1 DEF Next, vars, Browser, Arrive, Step, ClickPack, Refused, Disconnected, Close,
       ClickRetry, PaymentFailed, Generated, SaveSettings, Lock, Flush, Charge,
       CommitPurchase, CommitDebit, CommitRetry, Save, Crash, page
  <2>2. Bought(p)
    <3>1. PICK o \in Pages : Bought(o)
      BY <2>1
    <3>2. key' = [key EXCEPT ![o] = @ + 1] /\ key \in [Pages -> Keys]
      BY <1>1, <3>1 DEF Bought, IInv, TypeOK
    <3>3. o = p
      BY <3>2
    <3> QED
      BY <3>1, <3>3
  <2>3. PICK j \in credited : Made(j) /\ intent[j].key = <<p, key[p]>>
    BY <1>1, <2>2 DEF Bought, IInv, WaitInv
  <2>4. i \in Ids /\ j \in Ids /\ Made(i)
    BY <1>1, <2>3 DEF Paid, IInv, TypeOK
  <2>5. <<p, key[p]>> # NoKey
    BY DEF NoKey
  <2>6. i = j
    BY <1>1, <2>3, <2>4, <2>5 DEF IInv, KeyInv
  <2> QED
    BY <2>3, <2>6
<1> QED
  BY <1>1, Invariance, PTL DEF KeyKeptUntilCredited, Spec

-----------------------------------------------------------------------------
(* What is credited was paid *)

\* Only Stripe makes intents, and only a commit moves the balance; every other
\* step of a session at most forgets the intent it was told of, and a retry that
\* begins reads the balance there is.
Quiet(r) ==
    /\ UNCHANGED <<intent, balance, credited>>
    /\ \A q \in Sessions : won'[q] \in {won[q], NoIntent}
    /\ \A q \in Sessions :
          \/ pc'[q] \notin {"flush", "charge", "commit"}
          \/ job'[q].op # "retry"
          \/ q = r /\ snap'[q].balance = balance
          \/ /\ snap'[q] = snap[q] /\ job'[q] = job[q]
             /\ pc[q] \in {"flush", "charge", "commit"}

LEMMA BrowserIsQuiet ==
    ASSUME IInv, NEW p \in Pages, Browser(p)
    PROVE  \E r : Quiet(r)
<1>a. TypeOK
  BY DEF IInv
<1>1. ASSUME NEW r \in Sessions, Handled(r)
      PROVE  Quiet(r)
  BY <1>1, <1>a DEF Handled, Goto, Quiet, row, TypeOK
<1>2. ASSUME UNCHANGED <<intent, row, owner, pc, job, snap, won>>
      PROVE  \A r : Quiet(r)
  BY <1>2 DEF Quiet, row
<1>3. CASE Bought(p) \/ Refused(p)
  BY <1>3, <1>1 DEF Bought, Refused
<1>4. CASE Disconnected(p) \/ Close(p)
  BY <1>4, <1>1, <1>2 DEF Disconnected, Close, Abandon
<1>5. ASSUME NEW r \in Sessions, NEW a \in Packs, NEW optin \in OptIns, ClickPack(p, r, a, optin)
      PROVE  Quiet(r)
  <2>1. /\ pc' = [pc EXCEPT ![r] = "lock"]
        /\ \A q \in Sessions \ {r} : job'[q] = job[q] /\ snap'[q] = snap[q]
        /\ UNCHANGED <<intent, row, won>>
    BY <1>5, <1>a DEF ClickPack, Begin, Goto, TypeOK
  <2> QED
    BY <2>1, <1>a DEF Quiet, row, TypeOK
<1> QED
  BY <1>3, <1>4, <1>5 DEF Browser

LEMMA ArriveIsQuiet ==
    ASSUME IInv, NEW r \in Sessions, Arrive(r)
    PROVE  Quiet(r)
<1>a. TypeOK
  BY DEF IInv
<1>0. \E what, at :
         /\ Begin(r, what, at)
         /\ \/ what.op = "retry"
            \/ at \in {"save", "lock"}
  <2> DEFINE Fits(what, at) ==
               Begin(r, what, at) /\ (what.op = "retry" \/ at \in {"save", "lock"})
  <2>1. CASE ClickRetry(r)
    <3>1. Fits([op |-> "retry"], "flush")
      BY <2>1 DEF ClickRetry
    <3> QED
      BY <3>1
  <2>2. CASE PaymentFailed(r)
    <3>1. Fits([op |-> "failed"], "save")
      BY <2>2 DEF PaymentFailed
    <3> QED
      BY <3>1
  <2>3. CASE Generated(r)
    <3>1. Fits([op |-> "debit"], "lock")
      BY <2>3 DEF Generated
    <3> QED
      BY <3>1
  <2>4. ASSUME NEW to \in Settings, SaveSettings(r, to)
        PROVE  \E what, at : Fits(what, at)
    <3>1. Fits([op |-> "settings", to |-> to], "save")
      BY <2>4 DEF SaveSettings
    <3> QED
      BY <3>1
  <2> QED
    BY <2>1, <2>2, <2>3, <2>4 DEF Arrive
<1>1. PICK what, at :
         /\ Begin(r, what, at)
         /\ \/ what.op = "retry"
            \/ at \in {"save", "lock"}
  BY <1>0
<1>2. /\ pc' = [pc EXCEPT ![r] = at]
      /\ \A q \in Sessions \ {r} : job'[q] = job[q] /\ snap'[q] = snap[q]
      /\ what.op = "retry" => snap'[r] = Now
      /\ UNCHANGED <<intent, row, won>>
  BY <1>1, <1>a DEF Begin, Goto, TypeOK
<1> QED
  BY <1>1, <1>2, <1>a, NowTypes DEF Quiet, row, TypeOK

LEMMA OtherStepsAreQuiet ==
    ASSUME IInv, NEW r \in Sessions, Lock(r) \/ Flush(r) \/ Save(r) \/ Crash(r)
    PROVE  Quiet(r)
<1>a. TypeOK /\ SessionInv(r)
  BY DEF IInv
<1>1. CASE UNCHANGED <<intent, balance, credited>> /\ \E answer \in {"ok", "refused"} : End(r, answer)
  BY <1>1, <1>a DEF End, Goto, Quiet, TypeOK
<1>2. CASE Save(r) \/ Crash(r)
  BY <1>1, <1>2 DEF Save, Crash, row
<1>3. CASE Lock(r)
  BY <1>1, <1>3, <1>a DEF Lock, Goto, Quiet, row, TypeOK, SessionInv
<1>4. CASE Flush(r)
  BY <1>4, <1>a DEF Flush, Goto, Quiet, row, TypeOK
<1> QED
  BY <1>2, <1>3, <1>4

Commits(r) == CommitPurchase(r) \/ CommitDebit(r) \/ CommitRetry(r)

\* So a step is one of these, a charge, or a commit.
LEMMA StepKinds ==
    ASSUME IInv, [Next]_vars
    PROVE  \/ \E r : Quiet(r)
           \/ \E r \in Sessions : Charge(r)
           \/ \E r \in Sessions : Commits(r)
<1>1. CASE UNCHANGED vars
  BY <1>1 DEF vars, page, row, Quiet
<1> QED
  BY <1>1, BrowserIsQuiet, ArriveIsQuiet, OtherStepsAreQuiet DEF Next, Step, Commits

\* What a charge and a commit do to all of that.
LEMMA ChargeTells ==
    ASSUME IInv, NEW r \in Sessions, Charge(r)
    PROVE  /\ UNCHANGED <<balance, credited, job, snap>>
           /\ \A i \in Ids : Made(i) => intent'[i] = intent[i]
           /\ \A q \in Sessions \ {r} : won'[q] = won[q] /\ pc'[q] = pc[q]
           /\ pc[r] = "charge"
           /\ won'[r] = won[r] \/ won'[r] \in Paid'
<1>a. TypeOK
  BY DEF IInv
<1>1. /\ UNCHANGED <<balance, credited, job, snap>> /\ pc[r] = "charge"
      /\ \A q \in Sessions \ {r} : pc'[q] = pc[q]
  BY <1>a DEF Charge, Goto, row, TypeOK
<1>2. CASE \E i \in SameKey(r) :
              /\ IF intent[i].paid /\ intent[i].amount = Amount(r)
                   THEN won' = [won EXCEPT ![r] = i] ELSE UNCHANGED won
              /\ UNCHANGED intent
  BY <1>1, <1>2, <1>a DEF SameKey, Made, Paid, TypeOK
<1>3. ASSUME NEW i \in Ids, NEW paid \in BOOLEAN, Free(i),
             intent' = [intent EXCEPT ![i] =
                [key |-> Key_(r), amount |-> Amount(r), paid |-> paid]],
             (paid /\ won' = [won EXCEPT ![r] = i]) \/ UNCHANGED won
      PROVE  /\ \A j \in Ids : Made(j) => intent'[j] = intent[j]
             /\ \A q \in Sessions \ {r} : won'[q] = won[q]
             /\ won'[r] = won[r] \/ won'[r] \in Paid'
  <2> DEFINE new == [key |-> Key_(r), amount |-> Amount(r), paid |-> paid]
  <2>1. new \in Intent /\ new.paid = paid /\ new # NoIntent
    BY <1>1, AskedTypes, CreditAssumption DEF Intent
  <2> HIDE DEF new
  <2>2. intent' = [intent EXCEPT ![i] = new] /\ ~Made(i)
    BY <1>3 DEF new, Free
  <2>3. intent'[i] = new /\ \A j \in Ids : j # i => intent'[j] = intent[j]
    BY <2>2, <1>a DEF TypeOK
  <2> QED
    BY <1>3, <2>1, <2>2, <2>3, <1>a DEF Made, Paid, TypeOK
<1> QED
  BY <1>1, <1>2, <1>3 DEF Charge

LEMMA CommitTells ==
    ASSUME IInv, NEW r \in Sessions, Commits(r)
    PROVE  /\ UNCHANGED intent
           /\ \A q \in Sessions \ {r} :
                 pc'[q] = pc[q] /\ job'[q] = job[q] /\ snap'[q] = snap[q] /\ won'[q] = won[q]
           /\ won'[r] = NoIntent /\ pc'[r] \in {"ok", "refused", "idle"} /\ pc[r] = "commit"
           /\ credited' = credited \/ (won[r] # NoIntent /\ credited' = credited \cup {won[r]})
<1>1. /\ pc[r] = "commit" /\ UNCHANGED intent
      /\ credited' = credited \/ (won[r] # NoIntent /\ credited' = credited \cup {won[r]})
  BY DEF Commits, CommitPurchase, CommitDebit, CommitRetry, row
<1>2. \E answer \in {"ok", "refused"} : End(r, answer)
  BY DEF Commits, CommitPurchase, CommitDebit, CommitRetry
<1> QED
  BY <1>1, <1>2 DEF End, Goto, IInv, TypeOK

\* What sessions were told of, and what has its row, was paid.
PaidInv == credited \subseteq Paid /\ \A r \in Sessions : won[r] # NoIntent => won[r] \in Paid

\* Nothing is credited that was not paid: a 'succeeded' row names an intent that
\* Stripe took the money for, a resent purchase and a lost answer included.
THEOREM NothingForFree == Spec => [](credited \subseteq Paid)
<1>1. Init => PaidInv
  BY DEF Init, PaidInv
<1>2. IInv /\ PaidInv /\ [Next]_vars => PaidInv'
  <2> SUFFICES ASSUME IInv, PaidInv, [Next]_vars PROVE PaidInv'
    OBVIOUS
  <2>1. ASSUME NEW r, Quiet(r)
        PROVE  PaidInv'
    BY <2>1 DEF Quiet, PaidInv, Paid, Made
  <2>2. ASSUME NEW r \in Sessions, Charge(r)
        PROVE  PaidInv'
    <3>1. Paid \subseteq Paid'
      BY <2>2, ChargeTells DEF Paid, Made
    <3>2. won'[r] = won[r] \/ won'[r] \in Paid'
      BY <2>2, ChargeTells
    <3> QED
      BY <2>2, <3>1, <3>2, ChargeTells DEF PaidInv
  <2>3. ASSUME NEW r \in Sessions, Commits(r)
        PROVE  PaidInv'
    <3>1. Paid' = Paid
      BY <2>3, CommitTells DEF Paid, Made
    <3> QED
      BY <2>3, <3>1, CommitTells DEF PaidInv
  <2> QED
    BY <2>1, <2>2, <2>3, StepKinds
<1>3. PaidInv => credited \subseteq Paid
  BY DEF PaidInv
<1> QED
  BY <1>1, <1>2, <1>3, Invariance, PTL DEF Spec

-----------------------------------------------------------------------------
(* Why a charge may not be credited *)

Exact(r) == balance' = Less(balance + Gained(r), Owed(r))

\* A retry that was made on the balance that is there is exact, as a purchase
\* and a debit always are.
LEMMA FreshRetryIsExact ==
    ASSUME IInv, NEW r \in Sessions, CommitRetry(r),
           won[r] = NoIntent \/ snap[r].balance = balance
    PROVE  Exact(r)
<1>1. pc[r] = "commit" /\ job[r].op = "retry"
  BY DEF CommitRetry
<1>2. balance \in Nat /\ NoIntent \notin credited
  BY CreditAssumption DEF IInv, TypeOK
<1>3. Owed(r) = 0
  BY <1>1 DEF Owed
<1>4. CASE won[r] = NoIntent
  <2>1. balance' = balance /\ credited' = credited
    BY <1>4 DEF CommitRetry
  <2> QED
    BY <2>1, <1>2, <1>3, <1>4 DEF Exact, Gained, Less
<1>5. CASE won[r] # NoIntent
  <2>1. balance' = Credit(r, won[r]) /\ credited' = credited \cup {won[r]}
    BY <1>5 DEF CommitRetry
  <2>2. intent[won[r]].amount \in Nat /\ snap[r].balance = balance
    BY <1>1, <1>5, AtCommit
  <2>3. Credit(r, won[r]) = balance + Gained(r) /\ balance + Gained(r) \in Nat
    BY <2>1, <2>2, <1>2 DEF Credit, Gained
  <2> QED
    BY <2>1, <2>3, <1>3 DEF Exact, Less
<1> QED
  BY <1>4, <1>5

LEMMA LockedCommitIsExact ==
    ASSUME IInv, NEW r \in Sessions, CommitPurchase(r) \/ CommitDebit(r)
    PROVE  Exact(r)
<1>1. pc[r] = "commit" /\ job[r].op \in {"purchase", "debit"}
  BY DEF CommitPurchase, CommitDebit
<1>2. balance \in Nat /\ NoIntent \notin credited /\ snap[r].balance = balance
  BY <1>1, AtCommit, CreditAssumption DEF IInv, TypeOK
<1>3. CASE won[r] = NoIntent
  <2>1. credited' = credited
    BY <1>3 DEF CommitPurchase, CommitDebit, row
  <2>2. Gained(r) = 0
    BY <1>3, <2>1 DEF Gained
  <2> QED
    BY <1>1, <1>2, <1>3, <2>2 DEF CommitPurchase, CommitDebit, row, Owed, Less, Exact
<1>4. CASE won[r] # NoIntent
  <2>1. credited' = credited \cup {won[r]}
    BY <1>4 DEF CommitPurchase, CommitDebit
  <2>2. Credit(r, won[r]) = balance + Gained(r) /\ balance + Gained(r) \in Nat
    BY <1>1, <1>2, <1>4, <2>1, AtCommit DEF Credit, Gained
  <2> QED
    BY <1>1, <1>4, <2>2 DEF CommitPurchase, CommitDebit, Owed, Less, Exact
<1> QED
  BY <1>3, <1>4

\* No purchase and no debit loses another's credit, or is credited twice: the row
\* they lock before they read it is still theirs when they write.
THEOREM ExactCommits == Spec => LockedCommitsAreExact
<1> DEFINE A == \A r \in Sessions :
              CommitPurchase(r) \/ CommitDebit(r) =>
                  balance' = Less(balance + Gained(r), Owed(r))
<1>1. ASSUME IInv PROVE A
  BY <1>1, LockedCommitIsExact DEF Exact
<1> QED
  BY <1>1, Invariance, PTL DEF LockedCommitsAreExact, Spec

\* Where a charge is not credited, or somebody else's credit is lost, a retry has
\* charged the card on a balance that is not the one it read: nothing else in
\* the code writes a balance it cannot be sure of.
THEOREM OnlyLateRetriesLose ==
    Spec => [][\A r \in Sessions :
                  Commits(r) /\ ~ Exact(r) =>
                      /\ job[r].op = "retry" /\ won[r] # NoIntent
                      /\ snap[r].balance # balance]_vars
<1>1. ASSUME IInv, NEW r \in Sessions, Commits(r), ~ Exact(r)
      PROVE  job[r].op = "retry" /\ won[r] # NoIntent /\ snap[r].balance # balance
  <2>1. CommitRetry(r)
    BY <1>1, LockedCommitIsExact DEF Commits
  <2> QED
    BY <1>1, <2>1, FreshRetryIsExact DEF CommitRetry
<1>2. IInv => \A r \in Sessions :
         Commits(r) /\ ~ Exact(r) =>
             job[r].op = "retry" /\ won[r] # NoIntent /\ snap[r].balance # balance
  BY <1>1
<1>3. IInv /\ [Next]_vars =>
         [\A r \in Sessions :
             Commits(r) /\ ~ Exact(r) =>
                 /\ job[r].op = "retry" /\ won[r] # NoIntent
                 /\ snap[r].balance # balance]_vars
  BY <1>2
<1> QED
  BY <1>3, Invariance, PTL DEF Spec

\* A retry that has read the row and is not done.
Retrying(r) == pc[r] \in {"flush", "charge", "commit"} /\ job[r].op = "retry"

RetriesAreFresh == \A r \in Sessions : Retrying(r) => snap[r].balance = balance

\* The balance does not change while a retry waits for the row with what it read.
NobodyWaitsToRetry == balance' # balance => \A r \in Sessions : pc[r] # "flush"

\* ... and it has read it before it waited for the row: if no balance changes
\* while a retry waits, every row comes with its credit.  A read under the lock,
\* as the purchases and the debits make it, would do.
THEOREM CreditedUnlessOvertaken ==
    Spec /\ [][NobodyWaitsToRetry]_vars => EveryChargeIsCredited
<1>1. Init => RetriesAreFresh
  BY DEF Init, RetriesAreFresh, Retrying
<1>2. IInv /\ RetriesAreFresh /\ [Next]_vars /\ [NobodyWaitsToRetry]_vars => RetriesAreFresh'
  <2> SUFFICES ASSUME IInv, RetriesAreFresh, [Next]_vars, [NobodyWaitsToRetry]_vars,
                      NEW q \in Sessions, Retrying(q)'
               PROVE  snap'[q].balance = balance'
    BY DEF RetriesAreFresh
  <2>1. ASSUME NEW r, Quiet(r)
        PROVE  snap'[q].balance = balance'
    BY <2>1 DEF Quiet, RetriesAreFresh, Retrying
  <2>2. ASSUME NEW r \in Sessions, Charge(r)
        PROVE  snap'[q].balance = balance'
    BY <2>2, ChargeTells DEF RetriesAreFresh, Retrying
  <2>3. ASSUME NEW r \in Sessions, Commits(r)
        PROVE  snap'[q].balance = balance'
    <3>1. q # r /\ Retrying(q) /\ snap'[q] = snap[q]
      BY <2>3, CommitTells DEF Retrying
    <3>2. owner = r
      BY <2>3, CommitTells, AtCommit
    <3>3. pc[q] = "flush"
      BY <3>1, <3>2 DEF Retrying, IInv, SessionInv
    <3>4. balance' = balance
      BY <3>3 DEF NobodyWaitsToRetry, vars, row
    <3> QED
      BY <3>1, <3>4 DEF RetriesAreFresh
  <2> QED
    BY <2>1, <2>2, <2>3, StepKinds
<1> DEFINE A == \A r \in Sessions :
              CommitPurchase(r) \/ CommitDebit(r) \/ CommitRetry(r) =>
                  balance' = Less(balance + Gained(r), Owed(r))
<1>3. ASSUME IInv, RetriesAreFresh PROVE A
  <2>1. \A r \in Sessions : CommitRetry(r) => Retrying(r)
    BY DEF CommitRetry, Retrying
  <2> QED
    BY <1>3, <2>1, LockedCommitIsExact, FreshRetryIsExact DEF Exact, RetriesAreFresh
<1> QED
  BY <1>1, <1>2, <1>3, Invariance, PTL DEF Spec, EveryChargeIsCredited
=============================================================================
