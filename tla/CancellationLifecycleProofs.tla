-------------------- MODULE CancellationLifecycleProofs --------------------
(***************************************************************************)
(* Theorems about canceled groups and their archives, for any number of    *)
(* server processes, requests and payments.                                *)
(*                                                                         *)
(* The inductive invariant says what a run of the loop may rely on while   *)
(* it has the group's row: the group is due, the archive row is the one it *)
(* reconciled, and a payment it was told of is in it.                      *)
(***************************************************************************)
EXTENDS CancellationLifecycle, FiniteSetTheorems, WellFoundedInduction, TLAPS

\* A run that has the row locked.
Holding == {"reconcile", "write", "delete"}

RunInv(w) ==
    /\ now[w] <= day
    /\ pc[w] \in Holding => lock = w /\ DeletionDue(group, day)
    /\ pc[w] \in {"write", "delete"} =>
          /\ archive.session # 0 => draft[w].session = archive.session
          /\ sessions[w] # {} => draft[w].session # 0
    /\ pc[w] = "delete" => (draft[w].written <=> draft[w].session # 0)

ArchiveInv ==
    /\ WrittenWithTheDeletion /\ ReportedIsSettled
    /\ archive.session = 0 => ~archive.written

IInv == TypeOK /\ ArchiveInv /\ \A w \in Workers : RunInv(w)

-----------------------------------------------------------------------------
(* Lemmas about the data *)

\* There is an oldest session in a set that is not empty.
LEMMA OldestTypes ==
    ASSUME NEW S \in SUBSET Sessions, S # {}
    PROVE  Oldest(S) \in S
<1> DEFINE Upto(n) == S \cap 1..n
           T == {Upto(n) : n \in S}
<1>1. S \subseteq Nat /\ IsFiniteSet(Sessions)
  BY LifecycleAssumption, FS_Interval DEF Sessions
<1>2. T \subseteq FiniteSubsetsOf(Sessions) /\ T # {}
  <2>1. \A n \in S : Upto(n) \in SUBSET Sessions
    OBVIOUS
  <2>2. \A n \in S : IsFiniteSet(Upto(n))
    BY <1>1, <2>1, FS_Subset
  <2> QED
    BY <2>1, <2>2 DEF FiniteSubsetsOf
<1>3. PICK x \in T : \A y \in T : <<y, x>> \notin StrictSubsetOrdering(Sessions)
  BY <1>2, WFMin, FS_StrictSubsetOrderingWellFounded
<1>4. PICK m \in S : x = Upto(m)
  OBVIOUS
<1>5. ASSUME NEW t \in S, ~(m <= t) PROVE FALSE
  <2>1. Upto(t) \subseteq Upto(m) /\ m \in Upto(m) /\ m \notin Upto(t)
    BY <1>1, <1>5, LifecycleAssumption DEF Sessions
  <2>2. <<Upto(t), x>> \in StrictSubsetOrdering(Sessions)
    BY <1>4, <2>1 DEF StrictSubsetOrdering
  <2> QED
    BY <1>3, <2>2
<1> QED
  BY <1>5 DEF Oldest

\* There is a purchase when the row has a session.
LEMMA BoughtTypes ==
    ASSUME archive \in Archive, archive.session = 0 => ~archive.written
    PROVE  Bought <=> archive.session # 0
BY DEF Bought, Archive, NoArchive

\* The values the definitions build are of their types.
LEMMA ValueTypes ==
    /\ 0 \in Days /\ Days \subseteq Nat /\ Sessions \subseteq Nat \ {0}
    /\ Gone \in Group /\ Active \in Group /\ ~Gone.there /\ ~Gone.canceled /\ Active.there
    /\ NoArchive \in Archive /\ NoArchive.session = 0 /\ NoArchive.written = FALSE
    /\ \A s \in Sessions : [session |-> s, written |-> FALSE] \in Archive
<1>1. 0 \in Days /\ Days \subseteq Nat /\ Sessions \subseteq Nat \ {0}
  BY LifecycleAssumption DEF Days, Sessions
<1>2. Gone \in Group /\ ~Gone.there /\ ~Gone.canceled
  BY <1>1 DEF Gone, Group
<1>3. Active \in Group /\ Active.there
  BY <1>2 DEF Active, Gone, Group
<1>4. NoArchive \in Archive /\ NoArchive.session = 0 /\ NoArchive.written = FALSE
  BY LifecycleAssumption DEF NoArchive, Archive
<1>5. \A s \in Sessions : [session |-> s, written |-> FALSE] \in Archive
  BY LifecycleAssumption DEF Archive, Sessions
<1> QED
  BY <1>1, <1>2, <1>3, <1>4, <1>5

\* Nobody is a worker and a request.
LEMMA ActorKinds ==
    /\ Workers \subseteq Actors /\ Requests \subseteq Actors
    /\ \A w \in Workers : w \notin Requests /\ w # NoOne
BY LifecycleAssumption DEF Actors

\* The invariant holds at the start.
LEMMA InitHolds == Init => IInv
<1> SUFFICES ASSUME Init PROVE IInv
  OBVIOUS
<1>1. TypeOK
  <2>1. day \in Days /\ group \in Group /\ archive \in Archive
    BY ValueTypes DEF Init
  <2>2. opened \in 0..NumSessions
    BY LifecycleAssumption DEF Init
  <2>3. pc \in [Actors -> WorkerPCs \cup RequestPCs]
    BY DEF Init, WorkerPCs
  <2>4. now \in [Workers -> Days] /\ pending \in [Workers -> BOOLEAN]
    BY ValueTypes DEF Init
  <2>5. seen \in [Actors -> Group] /\ draft \in [Workers -> Archive]
    BY ValueTypes DEF Init
  <2>6. \A p \in Requests : pc[p] \notin {"known", "record", "refund"}
    BY ActorKinds DEF Init
  <2> QED
    BY <2>1, <2>2, <2>3, <2>4, <2>5, <2>6 DEF Init, TypeOK
<1>2. ArchiveInv
  BY DEF Init, ArchiveInv, WrittenWithTheDeletion, ReportedIsSettled, Bought, NoArchive
<1>3. \A w \in Workers : RunInv(w)
  BY ActorKinds, ValueTypes DEF Init, RunInv, Holding
<1> QED
  BY <1>1, <1>2, <1>3 DEF IInv
-----------------------------------------------------------------------------
(* What an actor's step leaves of the others *)

\* One actor moves.
LEMMA GotoTypes ==
    ASSUME TypeOK, NEW a \in Actors, NEW to \in WorkerPCs \cup RequestPCs, Goto(a, to)
    PROVE  /\ pc' \in [Actors -> WorkerPCs \cup RequestPCs]
           /\ pc'[a] = to
           /\ \A b \in Actors \ {a} : pc'[b] = pc[b]
BY DEF TypeOK, Goto

\* One actor is done.
LEMMA ForgetTypes ==
    ASSUME TypeOK, NEW a \in Actors, Forget(a)
    PROVE  /\ pc' \in [Actors -> WorkerPCs \cup RequestPCs]
           /\ pc'[a] = "idle" /\ \A b \in Actors \ {a} : pc'[b] = pc[b]
           /\ seen' \in [Actors -> Group]
           /\ sessions' \in [Actors -> SUBSET Sessions]
           /\ sessions'[a] = {} /\ \A b \in Actors \ {a} : sessions'[b] = sessions[b]
<1>1. "idle" \in WorkerPCs
  BY DEF WorkerPCs
<1> QED
  BY <1>1, GotoTypes, ValueTypes DEF TypeOK, Forget

\* A run is done.
LEMMA LeaveTypes ==
    ASSUME TypeOK, NEW w \in Workers, Leave(w)
    PROVE  /\ now' \in [Workers -> Days] /\ now'[w] = 0
           /\ pending' \in [Workers -> BOOLEAN]
           /\ draft' \in [Workers -> Archive]
           /\ \A v \in Workers \ {w} : now'[v] = now[v] /\ draft'[v] = draft[v]
BY ValueTypes DEF TypeOK, Leave

\* A run keeps what it relies on through a step of somebody else, as long as
\* nobody changes the rows it has locked.
LEMMA RunFrame ==
    ASSUME IInv, NEW v \in Workers, day' \in Days, day <= day',
           now'[v] = now[v], pc'[v] = pc[v], sessions'[v] = sessions[v], draft'[v] = draft[v],
           UNCHANGED <<group, archive, lock>> \/ pc[v] \notin Holding
    PROVE  RunInv(v)'
<1>1. now[v] \in Nat /\ day \in Nat /\ day' \in Nat /\ now[v] <= day
  BY ValueTypes DEF IInv, TypeOK, RunInv
<1>2. now'[v] <= day'
  BY <1>1
<1>3. CASE pc[v] \notin Holding
  BY <1>2, <1>3 DEF RunInv, Holding
<1>4. CASE pc[v] \in Holding
  <2>1. UNCHANGED <<group, archive, lock>> /\ RunInv(v)
    BY <1>4 DEF IInv
  <2>2. group.at \in Nat /\ Grace \in Nat
    BY ValueTypes, LifecycleAssumption DEF IInv, TypeOK, Group
  <2>3. DeletionDue(group, day) => DeletionDue(group, day)'
    BY <1>1, <2>1, <2>2 DEF DeletionDue
  <2> QED
    BY <1>2, <2>1, <2>3 DEF RunInv
<1> QED
  BY <1>3, <1>4

\* Who has the row locked is the only one who may rely on it.
LEMMA OneHolds ==
    ASSUME IInv, NEW v \in Workers, pc[v] \in Holding
    PROVE  lock = v
BY DEF IInv, RunInv

\* A step of a run that leaves the row to whoever has it, or has it itself.
LEMMA RunStep ==
    ASSUME IInv, NEW w \in Workers, TypeOK', RunInv(w)', day' = day,
           \A v \in Workers \ {w} : /\ pc'[v] = pc[v] /\ sessions'[v] = sessions[v]
                                    /\ now'[v] = now[v] /\ draft'[v] = draft[v],
           UNCHANGED <<group, archive, lock>> \/ lock \in {w, NoOne},
           ArchiveInv'
    PROVE  IInv'
<1>1. day' \in Days /\ day <= day'
  BY ValueTypes DEF IInv, TypeOK
<1>2. ASSUME NEW v \in Workers, v # w PROVE RunInv(v)'
  BY <1>1, <1>2, RunFrame, OneHolds, ActorKinds
<1> QED
  BY <1>2 DEF IInv

\* A step of a request, or of the world outside.
LEMMA RequestStep ==
    ASSUME IInv, TypeOK', day <= day', UNCHANGED <<lock, now, draft>>,
           \A v \in Workers : pc'[v] = pc[v] /\ sessions'[v] = sessions[v],
           UNCHANGED <<group, archive>> \/ lock = NoOne,
           ArchiveInv'
    PROVE  IInv'
<1>1. day' \in Days
  BY DEF TypeOK
<1>2. ASSUME NEW v \in Workers PROVE RunInv(v)'
  BY <1>1, <1>2, RunFrame, OneHolds, ActorKinds
<1> QED
  BY <1>2 DEF IInv
-----------------------------------------------------------------------------
(* The loop *)

\* Before it has the row, a run may rely on little.
LEMMA ReadStep ==
    ASSUME IInv, NEW w \in Workers, UNCHANGED <<day, group, archive, lock, stripe>>,
           warned' \in BOOLEAN,
           NEW to \in WorkerPCs \ Holding, Goto(w, to),
           now' \in [Workers -> Days], now'[w] <= day,
           seen' \in [Actors -> Group], sessions' \in [Actors -> SUBSET Sessions],
           pending' \in [Workers -> BOOLEAN], draft' = draft,
           \A a \in Actors \ {w} : sessions'[a] = sessions[a],
           \A v \in Workers \ {w} : now'[v] = now[v]
    PROVE  IInv'
<1>1. /\ pc' \in [Actors -> WorkerPCs \cup RequestPCs]
      /\ pc'[w] = to /\ \A b \in Actors \ {w} : pc'[b] = pc[b]
  BY GotoTypes, ActorKinds DEF IInv
<1>2. TypeOK'
  BY <1>1, ActorKinds DEF IInv, TypeOK, stripe
<1>3. RunInv(w)'
  BY <1>1 DEF RunInv, Holding
<1>4. ArchiveInv'
  BY DEF IInv, ArchiveInv, WrittenWithTheDeletion, ReportedIsSettled, Bought, stripe
<1> QED
  BY <1>1, <1>2, <1>3, <1>4, RunStep, ActorKinds

\* A run that ends leaves the rows as they are.
LEMMA EndStep ==
    ASSUME IInv, NEW w \in Workers, Leave(w),
           UNCHANGED <<day, group, archive, stripe, warned>>,
           lock' = lock \/ (lock = w /\ lock' = NoOne)
    PROVE  IInv'
<1>1. /\ pc' \in [Actors -> WorkerPCs \cup RequestPCs]
      /\ pc'[w] = "idle" /\ \A b \in Actors \ {w} : pc'[b] = pc[b]
      /\ seen' \in [Actors -> Group] /\ sessions' \in [Actors -> SUBSET Sessions]
      /\ \A b \in Actors \ {w} : sessions'[b] = sessions[b]
  BY ForgetTypes, ActorKinds DEF IInv, Leave
<1>2. /\ now' \in [Workers -> Days] /\ now'[w] = 0
      /\ pending' \in [Workers -> BOOLEAN] /\ draft' \in [Workers -> Archive]
      /\ \A v \in Workers \ {w} : now'[v] = now[v] /\ draft'[v] = draft[v]
  BY LeaveTypes DEF IInv
<1>3. TypeOK'
  BY <1>1, <1>2, ActorKinds DEF IInv, TypeOK, stripe
<1>4. RunInv(w)'
  <2>1. day \in Nat /\ 0 <= day
    BY ValueTypes DEF IInv, TypeOK
  <2> QED
    BY <1>1, <1>2, <2>1 DEF RunInv, Holding
<1>5. ArchiveInv'
  BY DEF IInv, ArchiveInv, WrittenWithTheDeletion, ReportedIsSettled, Bought, stripe
<1> QED
  BY <1>1, <1>2, <1>3, <1>4, <1>5, RunStep, ActorKinds

\* Stamping a notice leaves the group canceled, and as it is.
LEMMA StampStep ==
    ASSUME IInv, NEW w \in Workers, NEW n \in Notices, NEW to \in WorkerPCs \ Holding,
           Stamp(w, n, to), UNCHANGED <<day, archive, lock, stripe, warned>>
    PROVE  IInv'
<1>1. CASE group.there /\ group' = [group EXCEPT !.told = @ \cup {n}]
           /\ Goto(w, to) /\ UNCHANGED <<carried, run>>
  <2>1. group' \in Group /\ group'.there = group.there
    BY <1>1 DEF IInv, TypeOK, Group
  <2>2. /\ pc' \in [Actors -> WorkerPCs \cup RequestPCs]
        /\ pc'[w] = to /\ \A b \in Actors \ {w} : pc'[b] = pc[b]
    BY <1>1, GotoTypes, ActorKinds DEF IInv
  <2>3. TypeOK'
    BY <1>1, <2>1, <2>2, ActorKinds DEF IInv, TypeOK, stripe, carried, run
  <2>4. RunInv(w)'
    BY <1>1, <2>2 DEF IInv, RunInv, Holding, carried, run
  <2>5. ArchiveInv'
    BY <2>1 DEF IInv, ArchiveInv, WrittenWithTheDeletion, ReportedIsSettled, Bought, stripe
  <2>6. lock = NoOne
    BY DEF Stamp, MayUpdate
  <2> QED
    BY <1>1, <2>2, <2>3, <2>4, <2>5, <2>6, RunStep, ActorKinds DEF carried, run
<1>2. CASE Leave(w) /\ UNCHANGED group
  BY <1>2, EndStep
<1> QED
  BY <1>1, <1>2 DEF Stamp

\* The row is locked for a group that is due.
LEMMA LockStep ==
    ASSUME IInv, NEW w \in Workers, LockGroup(w)
    PROVE  IInv'
<1>1. CASE DeletionDue(group, now[w]) /\ lock' = w /\ Goto(w, "reconcile")
           /\ UNCHANGED <<carried, run>>
  <2>1. /\ pc' \in [Actors -> WorkerPCs \cup RequestPCs]
        /\ pc'[w] = "reconcile" /\ \A b \in Actors \ {w} : pc'[b] = pc[b]
    BY <1>1, GotoTypes, ActorKinds DEF IInv, WorkerPCs
  <2>2. TypeOK'
    BY <1>1, <2>1, ActorKinds DEF IInv, TypeOK, LockGroup, stripe, carried, run
  <2>3. DeletionDue(group, day)
    <3>1. now[w] \in Nat /\ day \in Nat /\ now[w] <= day /\ group.at \in Nat /\ Grace \in Nat
      BY ValueTypes, LifecycleAssumption DEF IInv, TypeOK, RunInv, Group
    <3> QED
      BY <1>1, <3>1 DEF DeletionDue
  <2>4. RunInv(w)'
    BY <1>1, <2>1, <2>3 DEF IInv, RunInv, LockGroup, DeletionDue, carried, run
  <2>5. ArchiveInv'
    BY DEF IInv, ArchiveInv, WrittenWithTheDeletion, ReportedIsSettled, Bought, LockGroup,
           stripe
  <2>6. lock = NoOne
    BY DEF LockGroup, MayUpdate
  <2> QED
    BY <1>1, <2>1, <2>2, <2>4, <2>5, <2>6, RunStep, ActorKinds DEF LockGroup, carried, run
<1>2. CASE Leave(w) /\ UNCHANGED lock
  BY <1>2, EndStep DEF LockGroup
<1> QED
  BY <1>1, <1>2 DEF LockGroup

\* The draft of the archive row is the purchase the group has, or becomes it.
LEMMA ReconcileStep ==
    ASSUME IInv, NEW w \in Workers, Reconcile(w)
    PROVE  IInv'
<1> DEFINE kept == IF Bought \/ sessions[w] = {} THEN archive
                   ELSE [session |-> Oldest(sessions[w]), written |-> FALSE]
<1>1. sessions[w] \in SUBSET Sessions /\ archive \in Archive /\ draft \in [Workers -> Archive]
  BY ActorKinds DEF IInv, TypeOK
<1>2. kept \in Archive /\ (sessions[w] # {} => kept.session # 0)
      /\ (archive.session # 0 => kept = archive)
  <2>1. Bought <=> archive.session # 0
    BY <1>1, BoughtTypes DEF IInv, ArchiveInv
  <2>2. CASE Bought \/ sessions[w] = {}
    BY <1>1, <2>1, <2>2
  <2>3. CASE ~Bought /\ sessions[w] # {}
    <3>1. Oldest(sessions[w]) \in Sessions
      BY <1>1, <2>3, OldestTypes
    <3> QED
      BY <2>1, <2>3, <3>1, ValueTypes
  <2> QED
    BY <2>2, <2>3
<1>3. /\ draft' = [draft EXCEPT ![w] = kept]
      /\ refunded' = refunded \cup (sessions[w] \ {kept.session})
  BY DEF Reconcile
<1>4. Goto(w, "write") /\ UNCHANGED <<day, group, archive, lock, opened, paid, reported, warned,
                                      now, seen, sessions, pending>>
  BY DEF Reconcile
<1> HIDE DEF kept
<1>5. /\ pc' \in [Actors -> WorkerPCs \cup RequestPCs]
      /\ pc'[w] = "write" /\ \A b \in Actors \ {w} : pc'[b] = pc[b]
  BY <1>4, GotoTypes, ActorKinds DEF IInv, WorkerPCs
<1>6. draft' \in [Workers -> Archive] /\ draft'[w] = kept
      /\ \A v \in Workers \ {w} : draft'[v] = draft[v]
  BY <1>1, <1>2, <1>3
<1>7. refunded' \subseteq Sessions /\ refunded \subseteq refunded'
  BY <1>1, <1>3 DEF IInv, TypeOK
<1>8. TypeOK'
  BY <1>4, <1>5, <1>6, <1>7, ActorKinds DEF IInv, TypeOK
<1>9. RunInv(w)'
  <2>1. pc[w] = "reconcile" /\ RunInv(w)
    BY DEF IInv, Reconcile
  <2> QED
    BY <1>2, <1>4, <1>5, <1>6, <2>1 DEF RunInv, Holding, DeletionDue
<1>10. ArchiveInv'
  BY <1>4, <1>7 DEF IInv, ArchiveInv, WrittenWithTheDeletion, ReportedIsSettled, Bought
<1> QED
  BY <1>4, <1>5, <1>6, <1>8, <1>9, <1>10, RunStep, ActorKinds

\* What was bought is written.
LEMMA WriteStep ==
    ASSUME IInv, NEW w \in Workers, WriteArchive(w)
    PROVE  IInv'
<1>1. /\ pc' \in [Actors -> WorkerPCs \cup RequestPCs]
      /\ pc'[w] = "delete" /\ \A b \in Actors \ {w} : pc'[b] = pc[b]
  BY GotoTypes, ActorKinds DEF IInv, WorkerPCs, WriteArchive
<1>2. /\ draft' \in [Workers -> Archive]
      /\ draft'[w].session = draft[w].session
      /\ draft'[w].written <=> draft[w].session # 0
      /\ \A v \in Workers \ {w} : draft'[v] = draft[v]
  BY DEF IInv, TypeOK, WriteArchive, Archive
<1>3. TypeOK'
  BY <1>1, <1>2, ActorKinds DEF IInv, TypeOK, WriteArchive, world, stripe
<1>4. RunInv(w)'
  <2>1. pc[w] = "write" /\ RunInv(w)
    BY DEF IInv, WriteArchive
  <2> QED
    BY <1>1, <1>2, <2>1 DEF RunInv, Holding, DeletionDue, WriteArchive, world
<1>5. ArchiveInv'
  BY DEF IInv, ArchiveInv, WrittenWithTheDeletion, ReportedIsSettled, Bought, WriteArchive,
         world, stripe
<1> QED
  BY <1>1, <1>2, <1>3, <1>4, <1>5, RunStep, ActorKinds DEF WriteArchive, world

\* The purchase is written with the deletion, and nobody else is.
LEMMA DeleteStep ==
    ASSUME IInv, NEW w \in Workers, DeleteGroup(w)
    PROVE  IInv'
<1>1. /\ pc' \in [Actors -> WorkerPCs \cup RequestPCs]
      /\ pc'[w] = "idle" /\ \A b \in Actors \ {w} : pc'[b] = pc[b]
      /\ seen' \in [Actors -> Group] /\ sessions' \in [Actors -> SUBSET Sessions]
      /\ \A b \in Actors \ {w} : sessions'[b] = sessions[b]
  BY ForgetTypes, ActorKinds DEF IInv, Leave, DeleteGroup
<1>2. /\ now' \in [Workers -> Days] /\ now'[w] = 0
      /\ pending' \in [Workers -> BOOLEAN] /\ draft' \in [Workers -> Archive]
      /\ \A v \in Workers \ {w} : now'[v] = now[v] /\ draft'[v] = draft[v]
  BY LeaveTypes DEF IInv, DeleteGroup
<1>3. /\ RunInv(w) /\ lock = w
      /\ archive.session # 0 => draft[w].session = archive.session
      /\ draft[w].written <=> draft[w].session # 0
      /\ draft[w] \in Archive /\ archive \in Archive
  BY DEF IInv, TypeOK, RunInv, Holding, DeleteGroup
<1>4. group' = Gone /\ lock' = NoOne /\ UNCHANGED <<day, stripe, warned>>
      /\ archive' = IF draft[w] = NoArchive THEN archive ELSE draft[w]
  BY DEF DeleteGroup
<1>5. /\ archive' \in Archive
      /\ archive'.written <=> archive'.session # 0
      /\ archive.session # 0 => archive'.session = archive.session
  <2>1. CASE draft[w] = NoArchive
    BY <1>3, <1>4, <2>1, ValueTypes DEF IInv, ArchiveInv
  <2>2. CASE draft[w] # NoArchive
    BY <1>3, <1>4, <2>2
  <2> QED
    BY <2>1, <2>2
<1>6. TypeOK'
  BY <1>1, <1>2, <1>4, <1>5, ValueTypes, ActorKinds DEF IInv, TypeOK, stripe
<1>7. RunInv(w)'
  <2>1. day \in Nat /\ 0 <= day
    BY ValueTypes DEF IInv, TypeOK
  <2> QED
    BY <1>1, <1>2, <1>4, <2>1 DEF RunInv, Holding
<1>8. WrittenWithTheDeletion'
  BY <1>4, <1>5, BoughtTypes, ValueTypes DEF WrittenWithTheDeletion, Bought, Archive, NoArchive
<1>9. ReportedIsSettled'
  <2>1. \A s \in reported : s # 0
    BY ValueTypes DEF IInv, TypeOK
  <2> QED
    BY <1>4, <1>5, <2>1 DEF IInv, ArchiveInv, ReportedIsSettled, stripe
<1>10. ArchiveInv'
  BY <1>5, <1>8, <1>9 DEF ArchiveInv
<1> QED
  BY <1>1, <1>2, <1>3, <1>4, <1>6, <1>7, <1>10, RunStep, ActorKinds

\* Every step of a run.
LEMMA LoopKeeps ==
    ASSUME IInv, NEW w \in Workers, Loop(w) \/ GiveUp(w)
    PROVE  IInv'
<1>0. /\ \A to \in {"get", "remind", "stamp", "purchase", "list", "row", "notice", "lock"} :
              to \in WorkerPCs \ Holding
      /\ w \in Actors
      /\ now \in [Workers -> Days] /\ now[w] <= day /\ day \in Days /\ warned \in BOOLEAN
      /\ pending \in [Workers -> BOOLEAN] /\ seen \in [Actors -> Group]
      /\ sessions \in [Actors -> SUBSET Sessions] /\ group \in Group
      /\ paid \subseteq Sessions
  BY ActorKinds DEF IInv, TypeOK, RunInv, WorkerPCs, Holding
<1>1. CASE StartRun(w)
  <2>1. /\ now' \in [Workers -> Days] /\ now'[w] = day
        /\ \A v \in Workers \ {w} : now'[v] = now[v]
    BY <1>0, <1>1 DEF StartRun
  <2>2. day <= day
    BY <1>0, ValueTypes
  <2> QED
    BY <1>0, <1>1, <2>1, <2>2, ReadStep DEF StartRun, world, stripe
<1>2. CASE GetGroup(w)
  <2>1. CASE Leave(w)
    BY <1>2, <2>1, EndStep DEF GetGroup, world, stripe
  <2>2. CASE seen' = [seen EXCEPT ![w] = group] /\ Goto(w, "remind") /\ UNCHANGED <<sessions, run>>
    <3>1. seen' \in [Actors -> Group]
      BY <1>0, <2>2
    <3> QED
      BY <1>0, <1>2, <2>2, <3>1, ReadStep DEF GetGroup, world, stripe, run
  <2> QED
    BY <1>2, <2>1, <2>2 DEF GetGroup
<1>3. CASE Remind(w)
  <2>1. warned' \in BOOLEAN
    BY <1>0, <1>3 DEF Remind, IInv, TypeOK, Group
  <2>2. PICK to \in {"stamp", "purchase"} : Goto(w, to)
    BY <1>3 DEF Remind
  <2> QED
    BY <1>0, <1>3, <2>1, <2>2, ReadStep DEF Remind, carried, run
<1>4. CASE StampReminder(w)
  BY <1>0, <1>4, StampStep DEF StampReminder, Notices
<1>5. CASE FindPurchase(w)
  <2>1. CASE Leave(w)
    BY <1>5, <2>1, EndStep DEF FindPurchase, world, stripe
  <2>2. CASE ~Leave(w)
    <3>1. pending' \in [Workers -> BOOLEAN]
      BY <1>0, <1>5, <2>2 DEF FindPurchase, IInv, TypeOK, Archive, Bought
    <3> QED
      BY <1>0, <1>5, <2>2, <3>1, ReadStep DEF FindPurchase, world, stripe
  <2> QED
    BY <2>1, <2>2
<1>6. CASE ListPayments(w)
  <2>1. /\ sessions' \in [Actors -> SUBSET Sessions]
        /\ \A a \in Actors \ {w} : sessions'[a] = sessions[a]
    BY <1>0, <1>6 DEF ListPayments, PaidSessions
  <2> QED
    BY <1>0, <1>6, <2>1, ReadStep DEF ListPayments, world, stripe, run
<1>7. CASE FindRow(w)
  <2>1. pending' \in [Workers -> BOOLEAN]
    BY <1>0, <1>7 DEF FindRow, Bought
  <2> QED
    BY <1>0, <1>7, <2>1, ReadStep DEF FindRow, world, stripe
<1>8. CASE Notice(w)
  <2>1. CASE Stamp(w, "deleted", "lock")
    BY <1>0, <1>8, <2>1, StampStep DEF Notice, Notices
  <2>2. CASE Goto(w, "lock") /\ UNCHANGED <<group, carried, run>>
    BY <1>0, <1>8, <2>2, ReadStep DEF Notice, carried, run
  <2> QED
    BY <1>8, <2>1, <2>2 DEF Notice
<1>9. CASE GiveUp(w)
  BY <1>9, EndStep DEF GiveUp
<1> QED
  BY <1>1, <1>2, <1>3, <1>4, <1>5, <1>6, <1>7, <1>8, <1>9,
     LockStep, ReconcileStep, WriteStep, DeleteStep DEF Loop

-----------------------------------------------------------------------------
(* The requests *)

\* A request that moves on and changes no row.
LEMMA CarryStep ==
    ASSUME IInv, NEW p \in Requests, UNCHANGED <<day, group, archive, lock, paid, refunded,
                                                 reported, warned, run>>,
           opened' \in 0..NumSessions,
           NEW to \in RequestPCs, Goto(p, to),
           seen' \in [Actors -> Group], sessions' \in [Actors -> SUBSET Sessions],
           \A a \in Actors \ {p} : sessions'[a] = sessions[a],
           to \in {"known", "record", "refund"} => sessions'[p] # {}
    PROVE  IInv'
<1>1. /\ pc' \in [Actors -> WorkerPCs \cup RequestPCs]
      /\ pc'[p] = to /\ \A b \in Actors \ {p} : pc'[b] = pc[b]
  BY GotoTypes, ActorKinds DEF IInv
<1>2. TypeOK'
  BY <1>1, ActorKinds DEF IInv, TypeOK, run
<1>3. ArchiveInv'
  BY DEF IInv, ArchiveInv, WrittenWithTheDeletion, ReportedIsSettled, Bought
<1>4. day <= day'
  BY ValueTypes DEF IInv, TypeOK
<1> QED
  BY <1>1, <1>2, <1>3, <1>4, RequestStep, ActorKinds DEF run

\* A request that is done and changed no row.
LEMMA DoneStep ==
    ASSUME IInv, NEW p \in Requests, UNCHANGED <<day, group, archive, lock, paid, refunded,
                                                 reported, warned, run>>,
           opened' \in 0..NumSessions, Forget(p)
    PROVE  IInv'
<1>1. /\ seen' \in [Actors -> Group] /\ sessions' \in [Actors -> SUBSET Sessions]
      /\ \A b \in Actors \ {p} : sessions'[b] = sessions[b]
      /\ Goto(p, "idle")
  BY ForgetTypes, ActorKinds DEF IInv, Forget
<1> QED
  BY <1>1, CarryStep DEF RequestPCs

\* A request that changes the group's row, which nobody has locked.
LEMMA GroupStep ==
    ASSUME IInv, NEW p \in Requests, UNCHANGED <<day, archive, lock, stripe, run>>,
           warned' \in BOOLEAN, MayUpdate,
           group' \in Group, group'.there = group.there, Forget(p)
    PROVE  IInv'
<1>1. /\ pc' \in [Actors -> WorkerPCs \cup RequestPCs]
      /\ pc'[p] = "idle" /\ \A b \in Actors \ {p} : pc'[b] = pc[b]
      /\ seen' \in [Actors -> Group] /\ sessions' \in [Actors -> SUBSET Sessions]
      /\ \A b \in Actors \ {p} : sessions'[b] = sessions[b]
  BY ForgetTypes, ActorKinds DEF IInv
<1>2. TypeOK'
  BY <1>1, ActorKinds DEF IInv, TypeOK, run, stripe
<1>3. ArchiveInv'
  BY DEF IInv, ArchiveInv, WrittenWithTheDeletion, ReportedIsSettled, Bought, stripe
<1>4. day <= day'
  BY ValueTypes DEF IInv, TypeOK
<1> QED
  BY <1>1, <1>2, <1>3, <1>4, RequestStep, ActorKinds DEF run, MayUpdate

\* A payment is settled once it is the group's purchase, or given back.
LEMMA SettleStep ==
    ASSUME IInv, NEW p \in Requests, sessions[p] # {}, Settle(p),
           UNCHANGED <<day, group, lock, opened, paid, warned, seen, run>>,
           refunded' \subseteq Sessions, refunded \subseteq refunded',
           \/ UNCHANGED archive
           \/ /\ lock = NoOne /\ ~Bought /\ group.there
              /\ archive' = [session |-> Current(p), written |-> FALSE],
           Current(p) = archive'.session \/ Current(p) \in refunded'
    PROVE  IInv'
<1>1. Current(p) \in sessions[p] /\ Current(p) \in Sessions /\ sessions[p] \in SUBSET Sessions
  BY ActorKinds, OldestTypes DEF IInv, TypeOK, Current
<1>2. PICK to \in {"idle", "known"} : Goto(p, to) /\ (to = "known" => sessions[p] # {Current(p)})
  BY DEF Settle
<1>3. /\ pc' \in [Actors -> WorkerPCs \cup RequestPCs]
      /\ pc'[p] = to /\ \A b \in Actors \ {p} : pc'[b] = pc[b]
  BY <1>2, GotoTypes, ActorKinds DEF IInv, RequestPCs
<1>4. /\ sessions' \in [Actors -> SUBSET Sessions]
      /\ \A b \in Actors \ {p} : sessions'[b] = sessions[b]
      /\ to = "known" => sessions'[p] # {}
  BY <1>1, <1>2, ActorKinds DEF IInv, TypeOK, Settle
<1>5. reported' = reported \cup {Current(p)}
  BY DEF Settle
<1>6. /\ archive' \in Archive /\ (archive'.session = 0 => ~archive'.written)
      /\ archive.session # 0 => archive' = archive
      /\ WrittenWithTheDeletion'
  <2>1. CASE UNCHANGED archive
    BY <2>1 DEF IInv, ArchiveInv, TypeOK, WrittenWithTheDeletion, Bought
  <2>2. CASE ~Bought /\ group.there /\ archive' = [session |-> Current(p), written |-> FALSE]
    BY <1>1, <2>2, BoughtTypes, ValueTypes DEF IInv, ArchiveInv, TypeOK, WrittenWithTheDeletion
  <2> QED
    BY <2>1, <2>2
<1>7. TypeOK'
  BY <1>1, <1>3, <1>4, <1>5, <1>6, ActorKinds DEF IInv, TypeOK, run
<1>8. ReportedIsSettled'
  <2>1. \A s \in reported : s # 0
    BY ValueTypes DEF IInv, TypeOK
  <2> QED
    BY <1>5, <1>6, <2>1 DEF IInv, ArchiveInv, TypeOK, ReportedIsSettled
<1>9. day <= day'
  BY ValueTypes DEF IInv, TypeOK
<1>10. ArchiveInv'
  BY <1>6, <1>8 DEF ArchiveInv
<1> QED
  BY <1>3, <1>4, <1>7, <1>9, <1>10, RequestStep, ActorKinds DEF run

\* Every step of a request.
LEMMA RequestKeeps ==
    ASSUME IInv, NEW p \in Requests, Arrive(p) \/ Serve(p) \/ Fail(p)
    PROVE  IInv'
<1>0. /\ p \in Actors /\ opened \in 0..NumSessions /\ group \in Group /\ day \in Days
      /\ seen \in [Actors -> Group] /\ sessions \in [Actors -> SUBSET Sessions]
      /\ paid \subseteq Sessions /\ refunded \subseteq Sessions /\ warned \in BOOLEAN
      /\ pc[p] \in {"known", "record", "refund"} => sessions[p] # {}
  BY ActorKinds DEF IInv, TypeOK
<1>1. CASE Offer(p)
  BY <1>0, <1>1, CarryStep DEF Offer, RequestPCs, world, stripe, carried
<1>2. CASE OpenReactivation(p)
  <2>1. seen' \in [Actors -> Group]
    BY <1>0, <1>2 DEF OpenReactivation
  <2> QED
    BY <1>0, <1>2, <2>1, CarryStep DEF OpenReactivation, RequestPCs, world, stripe
<1>3. CASE SubscriptionDeleted(p)
  BY <1>0, <1>3, CarryStep DEF SubscriptionDeleted, RequestPCs, world, stripe, carried
<1>4. ASSUME NEW s \in Sessions, Report(p, s) PROVE IInv'
  <2>1. sessions' \in [Actors -> SUBSET Sessions] /\ sessions'[p] = {s}
        /\ \A a \in Actors \ {p} : sessions'[a] = sessions[a]
    BY <1>0, <1>4 DEF Report
  <2> QED
    BY <1>0, <1>4, <2>1, CarryStep DEF Report, RequestPCs, world, stripe
<1>5. CASE AskStripe(p)
  <2>1. CASE Forget(p)
    BY <1>0, <1>5, <2>1, DoneStep DEF AskStripe, world, stripe
  <2>2. ASSUME NEW S \in PaidSessions, sessions' = [sessions EXCEPT ![p] = S],
               Goto(p, IF S = {} THEN "create" ELSE "known"), UNCHANGED seen
        PROVE  IInv'
    <3>1. /\ sessions' \in [Actors -> SUBSET Sessions] /\ sessions'[p] = S
          /\ \A a \in Actors \ {p} : sessions'[a] = sessions[a]
      BY <1>0, <2>2 DEF PaidSessions
    <3>2. PICK to \in {"create", "known"} : Goto(p, to) /\ (to = "known" => S # {})
      BY <2>2
    <3>3. to \in RequestPCs /\ (to \in {"known", "record", "refund"} => S # {})
      BY <3>2 DEF RequestPCs
    <3> QED
      BY <1>0, <1>5, <2>2, <3>1, <3>2, <3>3, CarryStep DEF AskStripe, world, stripe
  <2> QED
    BY <1>5, <2>1, <2>2 DEF AskStripe
<1>6. CASE Create(p)
  <2>1. opened' \in 0..NumSessions
    BY <1>0, <1>6, LifecycleAssumption DEF Create
  <2> QED
    BY <1>6, <2>1, DoneStep DEF Create
<1>7. CASE LookUp(p)
  <2>1. CASE archive.session = Current(p) /\ Settle(p)
    BY <1>0, <1>7, <2>1, SettleStep DEF LookUp
  <2>2. CASE Goto(p, "record") /\ UNCHANGED <<reported, sessions>>
    BY <1>0, <1>7, <2>2, CarryStep DEF LookUp, RequestPCs
  <2> QED
    BY <1>7, <2>1, <2>2 DEF LookUp
<1>8. CASE Record(p)
  <2>1. lock = NoOne
    BY <1>8 DEF Record, MayUpdate
  <2>2. CASE group.there /\ ~Bought /\ archive' = [session |-> Current(p), written |-> FALSE]
             /\ Settle(p)
    BY <1>0, <1>8, <2>1, <2>2, SettleStep DEF Record
  <2>3. CASE group.there /\ archive.session = Current(p) /\ Settle(p) /\ UNCHANGED archive
    BY <1>0, <1>8, <2>3, SettleStep DEF Record
  <2>4. CASE Goto(p, "refund") /\ UNCHANGED <<archive, reported, sessions>>
    BY <1>0, <1>8, <2>4, CarryStep DEF Record, RequestPCs
  <2> QED
    BY <1>8, <2>2, <2>3, <2>4 DEF Record
<1>9. CASE Refund(p)
  <2>1. Current(p) \in Sessions
    BY <1>0, <1>9, OldestTypes DEF Refund, Current
  <2>2. refunded' \subseteq Sessions /\ refunded \subseteq refunded' /\ Current(p) \in refunded'
    BY <1>0, <1>9, <2>1 DEF Refund
  <2> QED
    BY <1>0, <1>9, <2>2, SettleStep DEF Refund
<1>10. CASE Reactivate(p)
  <2>1. group' \in Group /\ group'.there = group.there
    <3>1. seen[p] \in Group
      BY <1>0
    <3> QED
      BY <1>0, <1>10, <3>1, ValueTypes DEF Reactivate, Group
  <2> QED
    BY <1>0, <1>10, <2>1, GroupStep DEF Reactivate
<1>11. CASE Cancel(p)
  <2>1. group' \in Group /\ group'.there = group.there /\ warned' \in BOOLEAN
    BY <1>0, <1>11 DEF Cancel, Group
  <2> QED
    BY <1>11, <2>1, GroupStep DEF Cancel
<1>12. CASE Fail(p)
  BY <1>0, <1>12, DoneStep DEF Fail, world, stripe
<1> QED
  BY <1>1, <1>2, <1>3, <1>4, <1>5, <1>6, <1>7, <1>8, <1>9, <1>10, <1>11, <1>12
     DEF Arrive, Serve

-----------------------------------------------------------------------------
(* The theorems *)

\* The invariant is inductive.
LEMMA NextKeeps == IInv /\ [Next]_vars => IInv'
<1> SUFFICES ASSUME IInv, [Next]_vars PROVE IInv'
  OBVIOUS
<1>0. day \in Nat /\ day <= day
  BY ValueTypes DEF IInv, TypeOK
<1>1. CASE Tick
  <2>1. day' \in Days /\ day <= day'
    BY <1>0, <1>1, LifecycleAssumption DEF Tick, Days
  <2>2. TypeOK'
    BY <1>1, <2>1 DEF IInv, TypeOK, Tick, stripe, carried, run
  <2>3. ArchiveInv'
    BY <1>1 DEF IInv, ArchiveInv, WrittenWithTheDeletion, ReportedIsSettled, Bought, Tick, stripe
  <2> QED
    BY <1>1, <2>1, <2>2, <2>3, RequestStep DEF Tick, carried, run
<1>2. ASSUME NEW s \in Sessions, Pay(s) PROVE IInv'
  <2>1. TypeOK'
    BY <1>2 DEF IInv, TypeOK, Pay, carried, run
  <2>2. ArchiveInv'
    BY <1>2 DEF IInv, ArchiveInv, WrittenWithTheDeletion, ReportedIsSettled, Bought, Pay
  <2> QED
    BY <1>0, <1>2, <2>1, <2>2, RequestStep DEF Pay, carried, run
<1>3. CASE UNCHANGED vars
  <2>1. TypeOK' /\ ArchiveInv'
    BY <1>3 DEF IInv, ArchiveInv, TypeOK, WrittenWithTheDeletion, ReportedIsSettled, Bought,
                vars, world, stripe, carried, run
  <2> QED
    BY <1>0, <1>3, <2>1, RequestStep DEF vars, world, stripe, carried, run
<1> QED
  BY <1>1, <1>2, <1>3, LoopKeeps, RequestKeeps DEF Next

LEMMA Invariance == Spec => []IInv
BY InitHolds, NextKeeps, PTL DEF Spec

\* Every variable has its type: of the group's row, of the archive's, of what
\* Stripe was asked to do, and of what every run and request carries.
THEOREM TypeCorrect == Spec => []TypeOK
<1>1. IInv => TypeOK
  BY DEF IInv
<1> QED
  BY <1>1, Invariance, PTL

\* However many servers run the loop, a group that bought its archive is
\* deleted with it written, and a deletion that fails leaves it to be written.
THEOREM ArchiveComesFirst == Spec => []WrittenWithTheDeletion
<1>1. IInv => WrittenWithTheDeletion
  BY DEF IInv, ArchiveInv
<1> QED
  BY <1>1, Invariance, PTL

\* However often a payment is reported, by whomever and in whatever order,
\* the one who reports it is answered when the payment is the group's
\* purchase or has been given back, and it stays so.
THEOREM PaymentsAreSettled == Spec => []ReportedIsSettled
<1>1. IInv => ReportedIsSettled
  BY DEF IInv, ArchiveInv
<1> QED
  BY <1>1, Invariance, PTL

\* A step that takes the group away is the deletion of a run that has it.
LEMMA OnlyDeletion ==
    ASSUME IInv, [Next]_vars, group.there, ~group'.there
    PROVE  \E w \in Workers : DeleteGroup(w)
<1>1. group \in Group
  BY DEF IInv, TypeOK
<1>2. ASSUME NEW w \in Workers, NEW n, NEW to, Stamp(w, n, to), group' # group
      PROVE  group'.there
  BY <1>1, <1>2 DEF Stamp, Group
<1>3. ASSUME NEW w \in Workers, Loop(w) \/ GiveUp(w), ~DeleteGroup(w) PROVE group'.there
  BY <1>2, <1>3 DEF Loop, GiveUp, StartRun, GetGroup, Remind, StampReminder, FindPurchase,
     ListPayments, FindRow, Notice, LockGroup, Reconcile, WriteArchive, world
<1>4. ASSUME NEW p \in Requests, Arrive(p) \/ Serve(p) \/ Fail(p) PROVE group'.there
  BY <1>1, <1>4 DEF Arrive, Offer, OpenReactivation, SubscriptionDeleted, Report, Serve,
     AskStripe, Create, LookUp, Record, Refund, Reactivate, Cancel, Fail, Group, world
<1>5. Tick \/ (\E s \in Sessions : Pay(s)) \/ UNCHANGED vars => group' = group
  BY DEF Tick, Pay, vars, world
<1> QED
  BY <1>3, <1>4, <1>5 DEF Next

\* A run that was told of a payment deletes the group only with an archive
\* written: the payment nobody had recorded became the purchase first.
THEOREM PaymentsAreHonoured == Spec => KnownPaymentIsHonoured
<1>1. ASSUME IInv, [Next]_vars, NEW v \in Workers, lock = v, sessions[v] # {},
             group.there, ~group'.there
      PROVE  archive'.written
  <2>1. PICK w \in Workers : DeleteGroup(w)
    BY <1>1, OnlyDeletion
  <2>2. pc[w] = "delete" /\ lock = w /\ RunInv(w)
    BY <1>1, <2>1 DEF IInv, RunInv, Holding, DeleteGroup
  <2>3. draft[w].session # 0 /\ draft[w].written
    BY <1>1, <2>2 DEF RunInv
  <2>4. draft[w] # NoArchive
    BY <2>3, ValueTypes
  <2> QED
    BY <2>1, <2>3, <2>4 DEF DeleteGroup
<1>2. IInv /\ [Next]_vars =>
        [\A w \in Workers :
            /\ lock = w /\ sessions[w] # {}
            /\ group.there /\ ~group'.there
            => archive'.written]_vars
  BY <1>1
<1> QED
  BY <1>2, Invariance, PTL DEF Spec, KnownPaymentIsHonoured

\* A reactivation that commits before the run has the row saves the group:
\* whatever the run read before, it deletes a group that is due.
THEOREM OnlyTheDueAreDeleted == Spec => DeletedWhenDue
<1>1. ASSUME IInv, [Next]_vars, group.there, ~group'.there
      PROVE  DeletionDue(group, day)
  <2>1. PICK w \in Workers : DeleteGroup(w)
    BY <1>1, OnlyDeletion
  <2> QED
    BY <1>1, <2>1 DEF IInv, RunInv, Holding, DeleteGroup
<1>2. IInv /\ [Next]_vars => [group.there /\ ~group'.there => DeletionDue(group, day)]_vars
  BY <1>1
<1> QED
  BY <1>2, Invariance, PTL DEF Spec, DeletedWhenDue

-----------------------------------------------------------------------------
(* Why a group may be deleted that was not reminded *)

\* Past the reminder, and on the way to the lock.
Deciding == {"purchase", "list", "row", "notice", "lock"}

\* What the warning of a run's group hangs on: a stamp that was read or is about
\* to be made is that of a reminder sent since the cancellation, and a run that
\* thought no reminder due yet will not find the group due either.
WarnedRun(w) ==
    /\ pc[w] = "stamp" /\ group.canceled => warned
    /\ pc[w] = "remind" /\ "reminder" \in seen[w].told /\ DeletionDue(group, now[w]) => warned
    /\ pc[w] \in Deciding /\ DeletionDue(group, now[w]) => warned
    /\ pc[w] \in Holding => warned
    /\ pc[w] = "remind" =>
          /\ seen[w].canceled /\ seen[w].at <= day
          /\ group.canceled => seen[w].at <= group.at

WarnedGroup ==
    /\ WarnedBeforeDeletion
    /\ group.canceled => group.there
    /\ group.canceled /\ "reminder" \in group.told => warned
    /\ group.at <= day

WarnedInv == WarnedGroup /\ \A w \in Workers : WarnedRun(w)

\* A group is canceled with the stamps of an earlier cancellation cleared, and
\* not while a run has its reminder sent and not stamped.
CleanCancel ==
    ~group.canceled /\ group'.canceled =>
        /\ "reminder" \notin group.told
        /\ \A w \in Workers : pc[w] # "stamp"

\* The row still says, of the cancellation, what it said.
SameCancellation ==
    /\ group'.there => group.there
    /\ group'.canceled => group.canceled /\ group'.at = group.at

LEMMA DayTypes ==
    ASSUME IInv
    PROVE  /\ day \in Nat /\ group.at \in Nat /\ Grace \in Nat /\ RemindAfter \in Nat
           /\ RemindAfter <= Grace
           /\ \A w \in Workers : now[w] \in Nat /\ now[w] <= day /\ seen[w].at \in Nat
BY ValueTypes, ActorKinds, LifecycleAssumption DEF IInv, TypeOK, Group, RunInv

\* A run that does not move keeps its warning while the cancellation is the same.
LEMMA WarnedFrame ==
    ASSUME IInv, NEW v \in Workers, WarnedRun(v), day' \in Nat, day <= day',
           pc'[v] = pc[v], now'[v] = now[v], seen'[v] = seen[v],
           warned => warned', SameCancellation
    PROVE  WarnedRun(v)'
<1>1. DeletionDue(group, now[v])' => DeletionDue(group, now[v])
  BY DEF DeletionDue, SameCancellation
<1>2. seen[v].at <= day => seen[v].at <= day'
  BY DayTypes
<1> QED
  BY <1>1, <1>2 DEF WarnedRun, SameCancellation

\* A run leaves the cancellation as it is, and a stamp that it adds is of a
\* reminder that it sent.
LEMMA WarnedStamp ==
    ASSUME IInv, WarnedInv, NEW w \in Workers, NEW n \in Notices, NEW to \in Deciding,
           Stamp(w, n, to), UNCHANGED <<day, warned>>,
           n = "reminder" => pc[w] = "stamp", n = "deleted" => pc[w] = "notice"
    PROVE  WarnedInv'
<1>a. TypeOK /\ w \in Actors
  BY ActorKinds DEF IInv
<1>1. /\ group' \in Group /\ group'.there = group.there /\ group'.canceled = group.canceled
      /\ group'.at = group.at
      /\ "reminder" \in group'.told => "reminder" \in group.told \/ n = "reminder"
  BY <1>a DEF Stamp, TypeOK, Group, Notices
<1>2. WarnedGroup'
  BY <1>1 DEF WarnedInv, WarnedGroup, WarnedRun, WarnedBeforeDeletion
<1>3. /\ pc'[w] \in {to, "idle"}
      /\ pc'[w] = to => now' = now
      /\ \A v \in Workers \ {w} : pc'[v] = pc[v] /\ now'[v] = now[v] /\ seen'[v] = seen[v]
  <2>1. CASE Goto(w, to) /\ UNCHANGED <<carried, run>>
    BY <2>1, <1>a, ActorKinds DEF Goto, TypeOK, carried, run
  <2>2. CASE Leave(w)
    BY <2>2, <1>a, ActorKinds DEF Leave, Forget, Goto, TypeOK, Deciding
  <2> QED
    BY <2>1, <2>2 DEF Stamp
<1>4. WarnedRun(w)'
  <2>1. DeletionDue(group, now[w]) => warned
    BY DEF WarnedInv, WarnedRun, Deciding, DeletionDue, Notices
  <2> QED
    BY <1>1, <1>3, <2>1 DEF WarnedRun, Deciding, Holding, DeletionDue
<1>5. ASSUME NEW v \in Workers \ {w} PROVE WarnedRun(v)'
  <2>1. day' \in Nat /\ day <= day'
    BY DayTypes
  <2> QED
    BY <1>1, <1>3, <2>1, WarnedFrame DEF WarnedInv, SameCancellation
<1> QED
  BY <1>2, <1>4, <1>5 DEF WarnedInv

\* Any other step of a run but the deletion.
LEMMA WarnedStep ==
    ASSUME IInv, WarnedInv, NEW w \in Workers, UNCHANGED <<day, group>>,
           warned' = (warned \/ group.there) \/ UNCHANGED warned,
           \A v \in Workers \ {w} : pc'[v] = pc[v] /\ now'[v] = now[v] /\ seen'[v] = seen[v],
           WarnedRun(w)'
    PROVE  WarnedInv'
<1>1. warned => warned'
  OBVIOUS
<1>2. WarnedGroup'
  BY <1>1 DEF WarnedInv, WarnedGroup, WarnedBeforeDeletion
<1>3. ASSUME NEW v \in Workers \ {w} PROVE WarnedRun(v)'
  <2>1. day' \in Nat /\ day <= day'
    BY DayTypes
  <2> QED
    BY <1>1, <2>1, WarnedFrame DEF WarnedInv, SameCancellation
<1> QED
  BY <1>2, <1>3 DEF WarnedInv

\* Every step of a run.
LEMMA WarnedLoop ==
    ASSUME IInv, WarnedInv, NEW w \in Workers, Loop(w) \/ GiveUp(w)
    PROVE  WarnedInv'
<1>a. TypeOK /\ w \in Actors /\ WarnedRun(w) /\ WarnedGroup
  BY ActorKinds DEF IInv, WarnedInv
<1>b. \A v \in Workers \ {w} : v \in Actors
  BY ActorKinds
<1>0. ASSUME Leave(w), UNCHANGED <<day, group, warned>>
      PROVE  WarnedInv'
  <2>1. /\ pc'[w] = "idle"
        /\ \A v \in Workers \ {w} : pc'[v] = pc[v] /\ now'[v] = now[v] /\ seen'[v] = seen[v]
    BY <1>0, <1>a, <1>b DEF Leave, Forget, Goto, TypeOK
  <2>2. WarnedRun(w)'
    BY <2>1 DEF WarnedRun, Deciding, Holding
  <2> QED
    BY <1>0, <2>1, <2>2, WarnedStep
<1>1. CASE StartRun(w)
  <2>1. /\ pc'[w] = "get"
        /\ \A v \in Workers \ {w} : pc'[v] = pc[v] /\ now'[v] = now[v] /\ seen'[v] = seen[v]
    BY <1>1, <1>a, <1>b DEF StartRun, Goto, TypeOK
  <2>2. WarnedRun(w)'
    BY <2>1 DEF WarnedRun, Deciding, Holding
  <2> QED
    BY <1>1, <2>1, <2>2, WarnedStep DEF StartRun, world
<1>2. CASE GetGroup(w)
  <2>1. CASE Leave(w)
    BY <1>2, <1>0, <2>1 DEF GetGroup, world
  <2>2. CASE group.canceled /\ seen' = [seen EXCEPT ![w] = group] /\ Goto(w, "remind")
             /\ UNCHANGED run
    <3>1. /\ pc'[w] = "remind" /\ seen'[w] = group
          /\ \A v \in Workers \ {w} : pc'[v] = pc[v] /\ now'[v] = now[v] /\ seen'[v] = seen[v]
      BY <2>2, <1>a, <1>b DEF Goto, TypeOK, run
    <3>2. UNCHANGED <<day, group, warned>>
      BY <1>2 DEF GetGroup, world
    <3>3. group.at <= group.at
      BY DayTypes
    <3>4. WarnedRun(w)'
      BY <2>2, <3>1, <3>2, <3>3, <1>a DEF WarnedRun, WarnedGroup, Deciding, Holding, DeletionDue
    <3> QED
      BY <3>1, <3>2, <3>4, WarnedStep
  <2> QED
    BY <1>2, <2>1, <2>2 DEF GetGroup
<1>3. CASE Remind(w)
  <2>1. /\ pc[w] = "remind" /\ UNCHANGED <<day, group, now, seen>>
        /\ \A v \in Workers \ {w} : pc'[v] = pc[v]
    BY <1>3, <1>a, <1>b DEF Remind, Goto, TypeOK, carried, run
  <2>2. CASE warned' = (warned \/ group.there) /\ Goto(w, "stamp")
    <3>1. pc'[w] = "stamp"
      BY <2>2, <1>a DEF Goto, TypeOK
    <3>2. WarnedRun(w)'
      BY <2>1, <2>2, <3>1, <1>a DEF WarnedRun, WarnedGroup, Deciding, Holding
    <3> QED
      BY <2>1, <2>2, <3>2, WarnedStep
  <2>3. CASE /\ ~ReminderDue(seen[w], now[w]) \/ "reminder" \in seen[w].told
             /\ Goto(w, "purchase") /\ UNCHANGED warned
    <3>1. pc'[w] = "purchase"
      BY <2>3, <1>a DEF Goto, TypeOK
    <3>2. DeletionDue(group, now[w]) => ReminderDue(seen[w], now[w])
      BY <2>1, <1>a, DayTypes DEF WarnedRun, DeletionDue, ReminderDue
    <3>3. WarnedRun(w)'
      BY <2>1, <2>3, <3>1, <3>2, <1>a DEF WarnedRun, Deciding, Holding, DeletionDue
    <3> QED
      BY <2>1, <2>3, <3>3, WarnedStep
  <2> QED
    BY <1>3, <2>2, <2>3 DEF Remind
<1>4. CASE StampReminder(w)
  BY <1>4, WarnedStamp DEF StampReminder, Notices, Deciding
<1>5. CASE Notice(w)
  <2>1. CASE Stamp(w, "deleted", "lock")
    BY <1>5, <2>1, WarnedStamp DEF Notice, Notices, Deciding
  <2>2. CASE Goto(w, "lock") /\ UNCHANGED <<group, carried, run>>
    <3>1. /\ pc[w] = "notice" /\ pc'[w] = "lock" /\ UNCHANGED <<day, group, warned, now, seen>>
          /\ \A v \in Workers \ {w} : pc'[v] = pc[v]
      BY <1>5, <2>2, <1>a, <1>b DEF Notice, Goto, TypeOK, carried, run
    <3>2. WarnedRun(w)'
      BY <3>1, <1>a DEF WarnedRun, Deciding, Holding, DeletionDue
    <3> QED
      BY <3>1, <3>2, WarnedStep
  <2> QED
    BY <1>5, <2>1, <2>2 DEF Notice
<1>6. CASE \/ FindPurchase(w) \/ ListPayments(w) \/ FindRow(w)
           \/ LockGroup(w) \/ Reconcile(w) \/ WriteArchive(w)
  <2>1. CASE Leave(w)
    BY <1>6, <1>0, <2>1 DEF FindPurchase, ListPayments, FindRow, LockGroup, Reconcile,
       WriteArchive, world
  <2>2. CASE ~Leave(w)
    <3>1. UNCHANGED <<day, group, warned, now, seen>>
      BY <1>6, <2>2 DEF FindPurchase, ListPayments, FindRow, LockGroup, Reconcile,
         WriteArchive, world, carried, run
    <3>2. PICK to : /\ Goto(w, to)
                    /\ \/ pc[w] \in Deciding /\ to \in Deciding
                       \/ pc[w] \in Deciding /\ DeletionDue(group, now[w]) /\ to \in Holding
                       \/ pc[w] \in Holding /\ to \in Holding
      BY <1>6, <2>2 DEF FindPurchase, ListPayments, FindRow, LockGroup, Reconcile,
         WriteArchive, Deciding, Holding
    <3>3. pc'[w] = to /\ \A v \in Workers \ {w} : pc'[v] = pc[v]
      BY <3>2, <1>a, <1>b DEF Goto, TypeOK
    <3>4. WarnedRun(w)'
      BY <3>1, <3>2, <3>3, <1>a DEF WarnedRun, Deciding, Holding, DeletionDue
    <3> QED
      BY <3>1, <3>3, <3>4, WarnedStep
  <2> QED
    BY <2>1, <2>2
<1>7. CASE DeleteGroup(w)
  <2>1. /\ group' = Gone /\ UNCHANGED <<day, warned>> /\ warned /\ Leave(w)
    BY <1>7, <1>a DEF DeleteGroup, WarnedRun, Holding
  <2>2. /\ pc'[w] = "idle"
        /\ \A v \in Workers \ {w} : pc'[v] = pc[v] /\ now'[v] = now[v] /\ seen'[v] = seen[v]
    BY <2>1, <1>a, <1>b DEF Leave, Forget, Goto, TypeOK
  <2>3. ~group'.there /\ ~group'.canceled /\ group'.at = 0
    BY <2>1 DEF Gone
  <2>4. WarnedGroup'
    BY <2>1, <2>3, DayTypes DEF WarnedGroup, WarnedBeforeDeletion
  <2>5. WarnedRun(w)'
    BY <2>2 DEF WarnedRun, Deciding, Holding
  <2>6. ASSUME NEW v \in Workers \ {w} PROVE WarnedRun(v)'
    <3>1. day' \in Nat /\ day <= day'
      BY <2>1, DayTypes
    <3> QED
      BY <2>1, <2>2, <2>3, <3>1, WarnedFrame DEF WarnedInv, SameCancellation
  <2> QED
    BY <2>4, <2>5, <2>6 DEF WarnedInv
<1>8. CASE GiveUp(w)
  BY <1>8, <1>0 DEF GiveUp
<1> QED
  BY <1>1, <1>2, <1>3, <1>4, <1>5, <1>6, <1>7, <1>8 DEF Loop

\* A step of a request, or of the world outside, that cancels nothing.
LEMMA WarnedElsewhere ==
    ASSUME IInv, WarnedInv, day' \in Nat, day <= day', UNCHANGED now,
           \A v \in Workers : pc'[v] = pc[v] /\ seen'[v] = seen[v],
           UNCHANGED warned, SameCancellation,
           group'.there = group.there,
           "reminder" \in group'.told => "reminder" \in group.told,
           group'.at = group.at \/ group'.at = 0
    PROVE  WarnedInv'
<1>1. WarnedGroup'
  BY DayTypes DEF WarnedInv, WarnedGroup, WarnedBeforeDeletion, SameCancellation
<1>2. ASSUME NEW v \in Workers PROVE WarnedRun(v)'
  BY <1>2, WarnedFrame DEF WarnedInv
<1> QED
  BY <1>1, <1>2 DEF WarnedInv

\* A cancellation starts a grace period: nobody finds the group due before it is
\* over, and by then it has been reminded.
LEMMA WarnedCancel ==
    ASSUME IInv, WarnedInv, Grace > 0, NEW p \in Requests, Cancel(p), CleanCancel
    PROVE  WarnedInv'
<1>a. TypeOK /\ ~(\E w \in Workers : pc[w] \in Holding)
  BY ActorKinds, OneHolds DEF IInv, Cancel, MayUpdate
<1>1. /\ group'.there /\ group.there /\ group'.canceled /\ group'.at = day
      /\ group'.told = group.told /\ UNCHANGED <<day, now>>
      /\ warned' = (warned /\ group.canceled)
      /\ \A w \in Workers : pc'[w] = pc[w] /\ seen'[w] = seen[w]
  BY <1>a, ActorKinds DEF Cancel, Forget, Goto, TypeOK, Group, run
<1>2. WarnedGroup'
  <2>1. "reminder" \in group.told => group.canceled
    BY <1>1 DEF CleanCancel
  <2>2. "reminder" \in group.told => warned'
    BY <1>1, <2>1 DEF WarnedInv, WarnedGroup
  <2>3. group'.at <= day'
    BY <1>1, DayTypes
  <2> QED
    BY <1>1, <2>2, <2>3 DEF WarnedGroup, WarnedBeforeDeletion
<1>3. ASSUME NEW w \in Workers PROVE WarnedRun(w)'
  <2>1. ~DeletionDue(group, now[w])'
    BY <1>1, DayTypes DEF DeletionDue
  <2>2. pc[w] = "stamp" => warned'
    BY <1>1 DEF WarnedInv, WarnedRun, CleanCancel
  <2> QED
    BY <1>a, <1>1, <2>1, <2>2 DEF WarnedInv, WarnedRun
<1> QED
  BY <1>2, <1>3 DEF WarnedInv

\* Every other step of a request.
LEMMA WarnedRequest ==
    ASSUME IInv, WarnedInv, NEW p \in Requests, Arrive(p) \/ Serve(p) \/ Fail(p), ~Cancel(p)
    PROVE  WarnedInv'
<1>a. TypeOK /\ day \in Nat /\ day <= day
  BY DayTypes DEF IInv
<1>1. UNCHANGED <<day, now, warned>>
  BY DEF Arrive, Offer, OpenReactivation, SubscriptionDeleted, Report, Serve, AskStripe,
     Create, LookUp, Record, Refund, Reactivate, Fail, world, run
<1>2. \A v \in Workers : pc'[v] = pc[v] /\ seen'[v] = seen[v]
  BY <1>a, ActorKinds DEF Arrive, Offer, OpenReactivation, SubscriptionDeleted, Report, Serve,
     AskStripe, Create, LookUp, Record, Refund, Reactivate, Fail, Settle, Forget, Goto, TypeOK,
     carried
<1>3. /\ SameCancellation /\ group'.there = group.there
      /\ "reminder" \in group'.told => "reminder" \in group.told
      /\ group'.at = group.at \/ group'.at = 0
  <2>1. CASE UNCHANGED group
    BY <2>1 DEF SameCancellation
  <2>2. CASE Reactivate(p)
    BY <2>2, <1>a DEF Reactivate, SameCancellation, TypeOK, Group
  <2> QED
    BY <2>1, <2>2 DEF Arrive, Offer, OpenReactivation, SubscriptionDeleted, Report, Serve,
       AskStripe, Create, LookUp, Record, Refund, Fail, world
<1> QED
  BY <1>a, <1>1, <1>2, <1>3, WarnedElsewhere

\* No group is deleted without a reminder, as long as a cancellation starts with
\* no stamp of an earlier one: it takes a reactivation that leaves the stamp of a
\* reminder behind, or a reminder of the first that is stamped in the second, for
\* the loop to delete a group whose managers were not told.
THEOREM WarnedUnlessStampStays ==
    ASSUME Grace > 0
    PROVE  Spec /\ [][CleanCancel]_vars => []WarnedBeforeDeletion
<1>1. Init => WarnedInv
  <2> SUFFICES ASSUME Init PROVE WarnedInv
    OBVIOUS
  <2>1. group.there /\ ~group.canceled /\ group.at = 0 /\ day = 0
    BY DEF Init, Active, Gone
  <2>2. \A w \in Workers : pc[w] = "idle"
    BY ActorKinds DEF Init
  <2> QED
    BY <2>1, <2>2 DEF WarnedInv, WarnedGroup, WarnedRun, WarnedBeforeDeletion, Deciding, Holding
<1>2. IInv /\ WarnedInv /\ [Next]_vars /\ [CleanCancel]_vars => WarnedInv'
  <2> SUFFICES ASSUME IInv, WarnedInv, [Next]_vars, [CleanCancel]_vars
               PROVE  WarnedInv'
    OBVIOUS
  <2>a. day \in Nat /\ day <= day /\ day <= day + 1 /\ day + 1 \in Nat
    BY DayTypes
  <2>1. CASE Tick \/ (\E s \in Sessions : Pay(s)) \/ UNCHANGED vars
    <3>1. UNCHANGED <<group, warned, pc, now, seen>> /\ day' \in {day, day + 1}
      BY <2>1 DEF Tick, Pay, vars, world, carried, run
    <3> QED
      BY <2>a, <3>1, WarnedElsewhere DEF SameCancellation
  <2>2. ASSUME NEW p \in Requests, Cancel(p)
        PROVE  WarnedInv'
    <3>1. CASE UNCHANGED vars
      BY <3>1, <2>1
    <3>2. CASE CleanCancel
      BY <2>2, <3>2, WarnedCancel
    <3> QED
      BY <3>1, <3>2
  <2> QED
    BY <2>1, <2>2, WarnedLoop, WarnedRequest DEF Next
<1>3. WarnedInv => WarnedBeforeDeletion
  BY DEF WarnedInv, WarnedGroup
<1> QED
  BY <1>1, <1>2, <1>3, Invariance, PTL DEF Spec
=============================================================================
