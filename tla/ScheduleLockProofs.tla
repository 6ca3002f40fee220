------------------------- MODULE ScheduleLockProofs -------------------------
(***************************************************************************)
(* Theorems about the schedule lock, for any number of requests, locations *)
(* and employees, any lease term and any bound of the clock.               *)
(*                                                                         *)
(* The inductive invariant says, of the rows a transaction has touched and *)
(* not committed, that they are its to replace, and of a request's walk,   *)
(* that what it has passed is its own and lies below what it has not.      *)
(***************************************************************************)
EXTENDS ScheduleLock, TLAPS, FiniteSetTheorems, WellFoundedInduction

Walking == {"walk", "insert", "reread"}
Touching == Walking \cup {"release", "deleted"}

\* A key nobody owns is as it was committed.
FreeKeys == \A l \in Locs : key[l] = NoOne => temp[l] = row[l]

\* The owner of a key is in the middle of a call, and what is committed there
\* is its to replace.
OwnerInv(r) ==
    \A l \in Locs : key[l] = r =>
        /\ pc[r] \in Touching
        /\ row[l] = NoRow \/ row[l].grp = r \/ row[l].exp < now[r]

\* The walk of acquire: the lock set is behind it or still to do, and the keys
\* it owns are behind it and hold its lease, except one it has just swept.
WalkInv(r) ==
    pc[r] \in Walking =>
        /\ pc[r] # "walk" => todo[r] # {}
        /\ \A l \in wanted[r] : l \in todo[r] \/ key[l] = r
        /\ \A l \in Locs : key[l] = r /\ l \notin todo[r] => temp[l] = LeaseOf(r)
        /\ \A l \in Locs : key[l] = r /\ l \in todo[r] =>
              pc[r] = "insert" /\ l = NextKey(r) /\ temp[l] = NoRow

\* release locks committed rows of the group only, and then drops them.
ReleaseInv(r) ==
    pc[r] \in {"release", "deleted"} =>
        \A l \in Locs : key[l] = r =>
            Mine(r, l) /\ temp[l] = IF pc[r] = "release" THEN row[l] ELSE NoRow

\* Whoever walks the keys owns none above the next one.
OrderInv(r) ==
    pc[r] \in Walking \cup {"release"} =>
        \A l \in Locs, m \in todo[r] : key[l] = r => l <= m

\* Which requests have committed rows, and how long those can last.
RowInv(r) ==
    /\ now[r] <= clock
    /\ \A l \in Locs : Mine(r, l) =>
          /\ row[l].exp <= now[r] + TTL
          /\ pc[r] \notin {"idle", "done", "refused"}
          /\ pc[r] \in {"group", "check", "walk", "insert", "reread"} => chunks[r] > 0
          /\ pc[r] = "release" => l \in todo[r] \/ key[l] = r
          /\ pc[r] = "deleted" => key[l] = r

\* A writer within its lease has every location of its lock set.
LeaseInv(r) == InLease(r) => \A l \in wanted[r] : row[l] = LeaseOf(r)

RInv(r) ==
    /\ OwnerInv(r)
    /\ WalkInv(r)
    /\ ReleaseInv(r)
    /\ OrderInv(r)
    /\ RowInv(r)
    /\ LeaseInv(r)

IInv == TypeOK /\ FreeKeys /\ \A r \in Requests : RInv(r)

-----------------------------------------------------------------------------
(* Lemmas *)

\* A nonempty set of locations has a first one, and First is it.
LEMMA FirstIsLeast ==
    ASSUME NEW S \in SUBSET Locs, S # {}
    PROVE  First(S) \in S /\ \A m \in S : First(S) <= m
<1>1. S \subseteq Nat
  BY ConstantsAssumption DEF Locs
<1>2. PICK x \in S : \A y \in S : ~ (<<y, x>> \in OpToRel(<, Nat))
  BY <1>1, WFMin, NatLessThanWellFounded
<1>3. ASSUME NEW y \in S, ~ (x <= y)
      PROVE  FALSE
  <2>1. y \in Nat /\ x \in Nat /\ y < x
    BY <1>1, <1>3
  <2>2. <<y, x>> \in OpToRel(<, Nat)
    BY <2>1 DEF OpToRel
  <2> QED
    BY <1>2, <2>2
<1> QED
  BY <1>3 DEF First

LEMMA NextKeyIsLeast ==
    ASSUME TypeOK, NEW r \in Requests, todo[r] # {}
    PROVE  /\ NextKey(r) \in Locs
           /\ NextKey(r) \in todo[r]
           /\ NextKey(r) = First(todo[r])
           /\ \A m \in todo[r] : NextKey(r) <= m
  BY FirstIsLeast DEF TypeOK, NextKey

\* The initial states satisfy the invariant.
LEMMA InitIInv == Init => IInv
<1> SUFFICES ASSUME Init PROVE IInv
  OBVIOUS
<1>1. TypeOK
  BY ConstantsAssumption DEF Init, TypeOK, PCs, Row
<1> QED
  BY <1>1, ConstantsAssumption
     DEF Init, IInv, FreeKeys, RInv, OwnerInv, WalkInv, ReleaseInv, OrderInv, RowInv, LeaseInv,
         Walking, InLease, Mine

\* What a step of r may change: its own locals, the keys it owns or takes from
\* nobody, and, of what is committed, rows at keys it owns.
Frame(r) ==
    /\ clock' = clock
    /\ \A q \in Requests \ {r} :
          /\ pc'[q] = pc[q] /\ now'[q] = now[q] /\ wanted'[q] = wanted[q]
          /\ todo'[q] = todo[q] /\ chunks'[q] = chunks[q]
    /\ \A l \in Locs :
          \/ key'[l] = key[l] /\ temp'[l] = temp[l]
          \/ key[l] \in {r, NoOne} /\ key'[l] \in {r, NoOne}
    /\ \A l \in Locs :
          \/ row'[l] = row[l]
          \/ key[l] = r /\ (row'[l] = NoRow \/ row'[l].grp = r)

\* Such a step keeps the invariant of every other request: what another owns
\* is out of r's reach, and a lease that has not run out is not r's to replace.
LEMMA FrameKeepsOthers ==
    ASSUME IInv, TypeOK', NEW r \in Requests, Frame(r), NEW q \in Requests \ {r}
    PROVE  RInv(q)'
<1> USE ConstantsAssumption DEF Touching, Walking
<1>a. TypeOK /\ RInv(r) /\ RInv(q)
  BY DEF IInv
<1>b. /\ clock' = clock
      /\ pc'[q] = pc[q] /\ now'[q] = now[q] /\ wanted'[q] = wanted[q]
      /\ todo'[q] = todo[q] /\ chunks'[q] = chunks[q]
  BY DEF Frame
<1>1. \A l \in Locs : /\ key'[l] = q <=> key[l] = q
                      /\ key[l] = q => temp'[l] = temp[l] /\ row'[l] = row[l]
                      /\ Mine(q, l)' => Mine(q, l) /\ row'[l] = row[l]
  BY DEF TypeOK, Mine, Frame
<1>2. OwnerInv(q)'
  BY <1>a, <1>b, <1>1 DEF RInv, OwnerInv
<1>3. WalkInv(q)'
  BY <1>a, <1>b, <1>1 DEF RInv, WalkInv, LeaseOf, NextKey, TypeOK
<1>4. ReleaseInv(q)'
  BY <1>a, <1>b, <1>1 DEF RInv, ReleaseInv, Mine
<1>5. OrderInv(q)'
  BY <1>a, <1>b, <1>1 DEF RInv, OrderInv
<1>6. RowInv(q)'
  BY <1>a, <1>b, <1>1 DEF RInv, RowInv
<1>7. LeaseInv(q)'
  <2> SUFFICES ASSUME InLease(q), NEW l \in wanted[q]
               PROVE  row'[l] = row[l]
    BY <1>a, <1>b DEF RInv, LeaseInv, InLease, LeaseOf
  <2>1. l \in Locs /\ row[l] = LeaseOf(q)
    BY <1>a DEF RInv, LeaseInv, TypeOK
  <2>2. CASE key[l] = r
    <3>1. row[l] = NoRow \/ row[l].grp = r \/ row[l].exp < now[r]
      BY <1>a, <2>1, <2>2 DEF RInv, OwnerInv
    <3>2. row[l] # NoRow /\ row[l].grp = q /\ row[l].exp = now[q] + TTL
      BY <2>1, <1>a DEF LeaseOf, TypeOK
    <3>3. /\ now[r] <= clock /\ clock <= now[q] + TTL
          /\ now[r] \in Int /\ now[q] \in Int /\ clock \in Int /\ TTL \in Int
      BY <1>a DEF RInv, RowInv, InLease, TypeOK
    <3>4. ~ (row[l].exp < now[r])
      BY <3>2, <3>3
    <3> QED
      BY <3>1, <3>2, <3>4
  <2>3. CASE key[l] # r
    BY <2>1, <2>3 DEF Frame
  <2> QED
    BY <2>2, <2>3
<1> QED
  BY <1>2, <1>3, <1>4, <1>5, <1>6, <1>7 DEF RInv

\* ... so it is enough to look at r and at the keys nobody owns.
LEMMA StepKeepsIInv ==
    ASSUME IInv, TypeOK', NEW r \in Requests, Frame(r), FreeKeys', RInv(r)'
    PROVE  IInv'
  BY FrameKeepsOthers DEF IInv

LEMMA BeginStep ==
    ASSUME IInv, NEW r \in Requests, Begin(r) \/ Relock(r)
    PROVE  IInv'
<1> USE ConstantsAssumption DEF Touching, Walking
<1>a. TypeOK /\ FreeKeys /\ RInv(r)
  BY DEF IInv
<1>b. \E seed \in SUBSET Locs : BeginCall(r, seed)
  BY <1>a DEF Begin, Relock
<1>c. \/ pc[r] = "idle" /\ pc' = [pc EXCEPT ![r] = "check"] /\ chunks' = chunks
      \/ /\ pc[r] = "pause" /\ pc' = [pc EXCEPT ![r] = "group"]
         /\ chunks' = [chunks EXCEPT ![r] = @ + 1] /\ chunks[r] < MaxChunks
  BY DEF Begin, Relock, Goto
<1>1. TypeOK'
  BY <1>a, <1>b, <1>c DEF TypeOK, PCs, ExpandLockSet, BeginCall, table
<1>2. UNCHANGED <<clock, row, temp, key, todo>> /\ now'[r] = clock
  BY <1>a, <1>b DEF TypeOK, BeginCall, table
<1>3. Frame(r)
  BY <1>a, <1>b, <1>c, <1>2 DEF Frame, TypeOK, BeginCall
<1>4. FreeKeys'
  BY <1>a, <1>2 DEF FreeKeys
<1>5. \A l \in Locs : key[l] # r
  BY <1>a, <1>c DEF RInv, OwnerInv
<1>6. OwnerInv(r)' /\ WalkInv(r)' /\ ReleaseInv(r)' /\ OrderInv(r)' /\ LeaseInv(r)'
  BY <1>a, <1>c, <1>2, <1>5
     DEF TypeOK, OwnerInv, WalkInv, ReleaseInv, OrderInv, LeaseInv, InLease
<1>7. RowInv(r)'
  BY <1>a, <1>c, <1>2, <1>5 DEF RInv, RowInv, TypeOK, Mine, Row
<1> QED
  BY <1>1, <1>3, <1>4, <1>6, <1>7, StepKeepsIInv DEF RInv

LEMMA ReadGroupStep ==
    ASSUME IInv, NEW r \in Requests, ReadGroup(r)
    PROVE  IInv'
<1> USE ConstantsAssumption DEF Touching, Walking, ReadGroup, Goto, table
<1>a. TypeOK /\ FreeKeys /\ RInv(r)
  BY DEF IInv
<1>1. TypeOK'
  BY <1>a DEF TypeOK, PCs
<1>2. Frame(r)
  BY <1>a DEF Frame, TypeOK
<1>3. FreeKeys'
  BY <1>a DEF FreeKeys
<1>4. OwnerInv(r)' /\ WalkInv(r)' /\ ReleaseInv(r)' /\ OrderInv(r)' /\ LeaseInv(r)'
  BY <1>a DEF RInv, OwnerInv, WalkInv, ReleaseInv, OrderInv, LeaseInv, InLease, TypeOK
<1>5. RowInv(r)'
  BY <1>a DEF RInv, RowInv, TypeOK, Mine
<1> QED
  BY <1>1, <1>2, <1>3, <1>4, <1>5, StepKeepsIInv DEF RInv

\* A request whose transaction rolls back owns nothing and is out of its call.
LEMMA RollbackStep ==
    ASSUME IInv, NEW r \in Requests, RollbackKeys(r),
           NEW p \in {"pause", "refused", "crashed"}, Goto(r, p),
           p = "refused" => pc[r] \in {"check", "walk", "reread"} /\ ~ (chunks[r] > 0),
           todo' = [todo EXCEPT ![r] = {}], attempt' = [attempt EXCEPT ![r] = 0],
           UNCHANGED <<clock, staff, call, chunks>>
    PROVE  IInv'
<1> USE ConstantsAssumption DEF Touching, Walking, Goto, call, RollbackKeys
<1>a. TypeOK /\ FreeKeys /\ RInv(r)
  BY DEF IInv
<1>1. TypeOK'
  BY <1>a DEF TypeOK, PCs
<1>2. Frame(r)
  BY <1>a DEF Frame, TypeOK
<1>3. FreeKeys'
  BY <1>a DEF FreeKeys, TypeOK
<1>4. \A l \in Locs : key'[l] # r
  BY <1>a DEF TypeOK
<1>5. OwnerInv(r)' /\ WalkInv(r)' /\ ReleaseInv(r)' /\ OrderInv(r)' /\ LeaseInv(r)'
  BY <1>a, <1>4 DEF TypeOK, OwnerInv, WalkInv, ReleaseInv, OrderInv, LeaseInv, InLease
<1>6. RowInv(r)'
  BY <1>a, <1>4 DEF RInv, RowInv, TypeOK, Mine
<1> QED
  BY <1>1, <1>2, <1>3, <1>5, <1>6, StepKeepsIInv DEF RInv

LEMMA RefuseStep ==
    ASSUME IInv, NEW r \in Requests, Refuse(r), pc[r] \in {"check", "walk", "reread"},
           UNCHANGED <<clock, staff, call, chunks>>
    PROVE  IInv'
  BY RollbackStep DEF Refuse

LEMMA CrashStep ==
    ASSUME IInv, NEW r \in Requests, Crash(r)
    PROVE  IInv'
  BY RollbackStep DEF Crash

LEMMA CheckStep ==
    ASSUME IInv, NEW r \in Requests, Check(r)
    PROVE  IInv'
<1>1. CASE Refuse(r)
  BY <1>1, RefuseStep DEF Check
<1>2. CASE ~ Refuse(r)
  <2> USE ConstantsAssumption DEF Touching, Walking, Goto, table, call
  <2>a. TypeOK /\ FreeKeys /\ RInv(r)
    BY DEF IInv
  <2>b. /\ pc[r] = "check" /\ Goto(r, "walk")
        /\ todo' = [todo EXCEPT ![r] = wanted[r] \cup held[r]]
        /\ UNCHANGED <<clock, staff, table, call, attempt, chunks>>
    BY <1>2 DEF Check
  <2>1. TypeOK'
    BY <2>a, <2>b DEF TypeOK, PCs
  <2>2. Frame(r)
    BY <2>a, <2>b DEF Frame, TypeOK
  <2>3. FreeKeys'
    BY <2>a, <2>b DEF FreeKeys
  <2>4. \A l \in Locs : key[l] # r
    BY <2>a, <2>b DEF RInv, OwnerInv
  <2>5. RInv(r)'
    BY <2>a, <2>b, <2>4 DEF RInv, OwnerInv, WalkInv, ReleaseInv, OrderInv, RowInv,
                            LeaseInv, InLease, TypeOK, Mine
  <2> QED
    BY <2>1, <2>2, <2>3, <2>5, StepKeepsIInv
<1> QED
  BY <1>1, <1>2

\* A walk locks its next key and puts `value` there: its lease, or nothing when
\* it sweeps.
LEMMA WriteStep ==
    ASSUME IInv, NEW r \in Requests, pc[r] \in {"walk", "insert"}, todo[r] # {},
           MayLock(r, NextKey(r)), NEW value, Write(r, NextKey(r), value),
           \/ row[NextKey(r)] = NoRow
           \/ row[NextKey(r)].grp = r
           \/ row[NextKey(r)].exp < now[r],
           \/ /\ value = LeaseOf(r)
              /\ pc' = [pc EXCEPT ![r] = "walk"]
              /\ todo' = [todo EXCEPT ![r] = @ \ {NextKey(r)}]
           \/ /\ value = NoRow /\ pc[r] = "walk"
              /\ pc' = [pc EXCEPT ![r] = "insert"]
              /\ todo' = todo,
           attempt' \in [Requests -> 0..1],
           UNCHANGED <<clock, staff, call, chunks>>
    PROVE  IInv'
<1> DEFINE k == NextKey(r)
<1> USE ConstantsAssumption DEF Touching, Walking, call
<1>a. TypeOK /\ FreeKeys /\ RInv(r)
  BY DEF IInv
<1>b. k \in Locs /\ k \in todo[r] /\ \A m \in todo[r] : k <= m
  BY <1>a, NextKeyIsLeast
<1>c. /\ key' = [key EXCEPT ![k] = r] /\ temp' = [temp EXCEPT ![k] = value]
      /\ row' = row /\ key[k] \in {NoOne, r}
  BY DEF Write, MayLock
<1>d. LeaseOf(r) \in Row /\ LeaseOf(r)' = LeaseOf(r) /\ value \in Row \cup {NoRow}
  BY <1>a DEF TypeOK, LeaseOf, Row
<1> HIDE DEF k
<1>1. TypeOK'
  <2>1. temp' \in [Locs -> Row \cup {NoRow}] /\ key' \in [Locs -> Requests \cup {NoOne}]
    BY <1>a, <1>b, <1>c, <1>d DEF TypeOK
  <2>2. pc' \in [Requests -> PCs] /\ todo' \in [Requests -> SUBSET Locs]
    BY <1>a DEF TypeOK, PCs
  <2> QED
    BY <2>1, <2>2, <1>a, <1>c DEF TypeOK
<1>2. Frame(r)
  BY <1>a, <1>b, <1>c DEF Frame, TypeOK
<1>3. FreeKeys'
  BY <1>a, <1>c DEF FreeKeys, TypeOK
<1>4. OwnerInv(r)'
  BY <1>a, <1>b, <1>c DEF RInv, OwnerInv, TypeOK, k
<1>5. WalkInv(r)'
  <2>1. CASE value = LeaseOf(r) /\ pc'[r] = "walk" /\ todo'[r] = todo[r] \ {k}
    BY <2>1, <1>a, <1>b, <1>c, <1>d DEF RInv, WalkInv, TypeOK, k
  <2>2. CASE value = NoRow /\ pc[r] = "walk" /\ pc'[r] = "insert" /\ todo' = todo
    <3>1. NextKey(r)' = k
      BY <2>2 DEF NextKey, k
    <3> QED
      BY <2>2, <3>1, <1>a, <1>b, <1>c, <1>d DEF RInv, WalkInv, TypeOK
  <2> QED
    BY <2>1, <2>2, <1>a DEF TypeOK, k
<1>6. ReleaseInv(r)' /\ LeaseInv(r)'
  BY <1>a DEF ReleaseInv, LeaseInv, InLease, TypeOK
<1>7. OrderInv(r)'
  <2>1. todo'[r] \subseteq todo[r]
    BY <1>a DEF TypeOK
  <2> QED
    BY <2>1, <1>a, <1>b, <1>c DEF RInv, OrderInv, TypeOK
<1>8. RowInv(r)'
  BY <1>a, <1>c DEF RInv, RowInv, TypeOK, Mine
<1> QED
  BY <1>1, <1>2, <1>3, <1>4, <1>5, <1>6, <1>7, <1>8, StepKeepsIInv DEF RInv

\* A walk goes on without touching its next key: it drops a row that has
\* vanished, finds nothing to sweep, or loses the insert and reads the holder.
LEMMA PassStep ==
    ASSUME IInv, NEW r \in Requests, pc[r] \in Walking, todo[r] # {},
           pc[r] = "insert" /\ key[NextKey(r)] = r => temp[NextKey(r)] # NoRow,
           NEW p \in Walking, Goto(r, p),
           \/ todo' = todo
           \/ /\ NextKey(r) \notin wanted[r] /\ p = "walk" /\ pc[r] = "walk"
              /\ todo' = [todo EXCEPT ![r] = @ \ {NextKey(r)}],
           attempt' \in [Requests -> 0..1],
           UNCHANGED <<clock, staff, table, call, chunks>>
    PROVE  IInv'
<1> DEFINE k == NextKey(r)
<1> USE ConstantsAssumption DEF Touching, Walking, Goto, table, call
<1>a. TypeOK /\ FreeKeys /\ RInv(r)
  BY DEF IInv
<1>b. k \in Locs /\ k \in todo[r] /\ \A m \in todo[r] : k <= m
  BY <1>a, NextKeyIsLeast
<1>c. \A l \in todo[r] : key[l] # r
  BY <1>a, <1>b DEF RInv, WalkInv, TypeOK
<1>d. todo' \in [Requests -> SUBSET Locs] /\ todo'[r] \subseteq todo[r]
  BY <1>a DEF TypeOK
<1>1. TypeOK'
  BY <1>a, <1>d DEF TypeOK, PCs
<1>2. Frame(r)
  BY <1>a DEF Frame, TypeOK
<1>3. FreeKeys' /\ OwnerInv(r)'
  BY <1>a DEF FreeKeys, RInv, OwnerInv, TypeOK
<1>4. WalkInv(r)'
  <2>1. CASE todo' = todo
    BY <2>1, <1>a, <1>c DEF RInv, WalkInv, TypeOK, LeaseOf
  <2>2. CASE /\ k \notin wanted[r] /\ p = "walk" /\ pc[r] = "walk"
             /\ todo' = [todo EXCEPT ![r] = @ \ {k}]
    <3>1. pc'[r] = "walk" /\ todo'[r] = todo[r] \ {k} /\ wanted'[r] = wanted[r]
      BY <2>2, <1>a DEF TypeOK
    <3>2. k \notin wanted[r] /\ key[k] # r
      BY <2>2, <1>b, <1>c
    <3> QED
      BY <3>1, <3>2, <1>a, <1>c DEF RInv, WalkInv, TypeOK, LeaseOf
  <2> QED
    BY <2>1, <2>2
<1>5. ReleaseInv(r)' /\ LeaseInv(r)'
  BY <1>a DEF ReleaseInv, LeaseInv, InLease, TypeOK
<1>6. OrderInv(r)'
  BY <1>a, <1>d DEF RInv, OrderInv, TypeOK
<1>7. RowInv(r)'
  BY <1>a DEF RInv, RowInv, TypeOK, Mine
<1> QED
  BY <1>1, <1>2, <1>3, <1>4, <1>5, <1>6, <1>7, StepKeepsIInv DEF RInv

LEMMA WalkStep ==
    ASSUME IInv, NEW r \in Requests, Walk(r)
    PROVE  IInv'
<1> DEFINE k == NextKey(r)
<1>a. TypeOK /\ RInv(r) /\ pc[r] = "walk" /\ todo[r] # {}
  BY DEF IInv, Walk
<1>b. attempt \in [Requests -> 0..1] /\ pc \in [Requests -> PCs] /\ k \in Locs
  BY <1>a, NextKeyIsLeast DEF TypeOK
<1>c. UNCHANGED <<clock, staff, call, chunks>>
  BY DEF Walk
<1>1. CASE Refresh(r, k)
  <2>1. CASE Refuse(r)
    BY <2>1, <1>a, <1>c, RefuseStep
  <2>2. CASE Mine(r, k) /\ ~ Refuse(r)
    BY <2>2, <1>1, <1>a, <1>b, <1>c, WriteStep DEF Refresh, Mine
  <2>3. CASE ~ Mine(r, k) /\ ~ Refuse(r)
    BY <2>3, <1>1, <1>a, <1>b, <1>c, PassStep DEF Refresh, Goto, Walking
  <2> QED
    BY <2>1, <2>2, <2>3
<1>2. CASE Sweep(r, k)
  <2>1. CASE Expired(k, now[r])
    BY <2>1, <1>2, <1>a, <1>b, <1>c, WriteStep DEF Sweep, Expired, Goto
  <2>2. CASE ~ Expired(k, now[r])
    BY <2>2, <1>2, <1>a, <1>b, <1>c, PassStep DEF Sweep, Walking
  <2> QED
    BY <2>1, <2>2
<1> QED
  BY <1>1, <1>2 DEF Walk

LEMMA InsertStep ==
    ASSUME IInv, NEW r \in Requests, Insert(r)
    PROVE  IInv'
<1> DEFINE k == NextKey(r)
<1>a. TypeOK /\ FreeKeys /\ RInv(r) /\ pc[r] = "insert" /\ todo[r] # {}
  BY DEF IInv, Insert, RInv, WalkInv, Walking
<1>b. attempt \in [Requests -> 0..1] /\ k \in Locs
  BY <1>a, NextKeyIsLeast DEF TypeOK
<1>c. UNCHANGED <<clock, staff, call, chunks>>
  BY DEF Insert
<1>1. CASE /\ row[k] = NoRow \/ temp[k] = NoRow
           /\ MayLock(r, k) /\ Write(r, k, LeaseOf(r))
           /\ todo' = [todo EXCEPT ![r] = @ \ {k}]
           /\ attempt' = [attempt EXCEPT ![r] = 0]
           /\ Goto(r, "walk")
  <2>1. row[k] = NoRow \/ row[k].grp = r \/ row[k].exp < now[r]
    BY <1>1, <1>a, <1>b DEF FreeKeys, RInv, OwnerInv, MayLock
  <2>2. attempt' \in [Requests -> 0..1]
    BY <1>1, <1>b
  <2> QED
    BY <2>1, <2>2, <1>1, <1>a, <1>c, WriteStep DEF Goto
<1>2. CASE /\ row[k] # NoRow /\ temp[k] = row[k]
           /\ Goto(r, "reread")
           /\ UNCHANGED <<table, todo, attempt>>
  BY <1>2, <1>a, <1>b, <1>c, PassStep DEF Walking
<1> QED
  BY <1>1, <1>2 DEF Insert

LEMMA RereadStep ==
    ASSUME IInv, NEW r \in Requests, Reread(r)
    PROVE  IInv'
<1>a. TypeOK /\ pc[r] = "reread" /\ todo[r] # {}
  BY DEF IInv, Reread, RInv, WalkInv, Walking
<1>b. UNCHANGED <<clock, staff, call, chunks>>
  BY DEF Reread
<1>1. CASE Refuse(r)
  BY <1>1, <1>a, <1>b, RefuseStep
<1>2. CASE ~ Refuse(r)
  <2>1. attempt' \in [Requests -> 0..1]
    BY <1>2, <1>a DEF Reread, TypeOK
  <2> QED
    BY <2>1, <1>2, <1>a, <1>b, PassStep DEF Reread, Walking
<1> QED
  BY <1>1, <1>2

LEMMA CommitLockStep ==
    ASSUME IInv, NEW r \in Requests, CommitLock(r)
    PROVE  IInv'
<1> USE ConstantsAssumption DEF Touching, Walking, CommitLock, PublishKeys, Goto, call
<1>a. TypeOK /\ FreeKeys /\ RInv(r)
  BY DEF IInv
<1>b. \A l \in Locs : key[l] = r => temp[l] = LeaseOf(r)
  BY <1>a DEF RInv, WalkInv
<1>c. LeaseOf(r)' = LeaseOf(r) /\ LeaseOf(r) \in Row
  BY <1>a DEF LeaseOf, TypeOK, Row
<1>1. TypeOK'
  BY <1>a DEF TypeOK, PCs
<1>2. Frame(r)
  BY <1>a, <1>b DEF Frame, TypeOK, LeaseOf
<1>3. FreeKeys'
  BY <1>a DEF FreeKeys, TypeOK
<1>4. \A l \in Locs : key'[l] # r
  BY <1>a DEF TypeOK
<1>5. OwnerInv(r)' /\ WalkInv(r)' /\ ReleaseInv(r)' /\ OrderInv(r)'
  BY <1>a, <1>4 DEF TypeOK, OwnerInv, WalkInv, ReleaseInv, OrderInv
<1>6. LeaseInv(r)'
  <2>1. \A l \in wanted[r] : l \in Locs /\ key[l] = r
    BY <1>a DEF RInv, WalkInv, TypeOK
  <2>2. \A l \in wanted[r] : row'[l] = LeaseOf(r)
    BY <2>1, <1>b
  <2> QED
    BY <2>2, <1>c DEF LeaseInv
<1>7. RowInv(r)'
  <2>1. \A l \in Locs : row'[l] = row[l] \/ row'[l] = LeaseOf(r)
    BY <1>b
  <2>2. LeaseOf(r).exp = now[r] + TTL
    BY DEF LeaseOf
  <2>3. pc'[r] \in {"pause", "write"} /\ UNCHANGED <<clock, now>>
    BY <1>a DEF TypeOK
  <2>4. \A l \in Locs : Mine(r, l)' => row'[l].exp <= now[r] + TTL
    BY <2>1, <2>2, <1>a DEF RInv, RowInv, Mine, TypeOK
  <2> QED
    BY <2>3, <2>4, <1>a DEF RInv, RowInv
<1> QED
  BY <1>1, <1>2, <1>3, <1>5, <1>6, <1>7, StepKeepsIInv DEF RInv

LEMMA EndStep ==
    ASSUME IInv, NEW r \in Requests, EndWrite(r) \/ EndStream(r)
    PROVE  IInv'
<1> USE ConstantsAssumption DEF Touching, Walking, Goto, table, call
<1>a. TypeOK /\ FreeKeys /\ RInv(r)
  BY DEF IInv
<1>b. /\ pc[r] \in {"write", "pause"}
      /\ \/ pc' = [pc EXCEPT ![r] = "pause"] /\ todo' = todo
         \/ /\ pc' = [pc EXCEPT ![r] = "release"]
            /\ todo' = [todo EXCEPT ![r] = {l \in Locs : Mine(r, l)}]
      /\ UNCHANGED <<clock, staff, table, call, attempt, chunks>>
  BY DEF EndWrite, EndStream, EnterRelease
<1>1. TypeOK'
  BY <1>a, <1>b DEF TypeOK, PCs
<1>2. Frame(r)
  BY <1>a, <1>b DEF Frame, TypeOK
<1>3. FreeKeys'
  BY <1>a, <1>b DEF FreeKeys
<1>4. \A l \in Locs : key[l] # r
  BY <1>a, <1>b DEF RInv, OwnerInv
<1>5. OwnerInv(r)' /\ WalkInv(r)' /\ ReleaseInv(r)' /\ OrderInv(r)' /\ LeaseInv(r)'
  BY <1>a, <1>b, <1>4 DEF TypeOK, OwnerInv, WalkInv, ReleaseInv, OrderInv, LeaseInv, InLease
<1>6. RowInv(r)'
  BY <1>a, <1>b DEF RInv, RowInv, TypeOK, Mine
<1> QED
  BY <1>1, <1>2, <1>3, <1>5, <1>6, StepKeepsIInv DEF RInv

LEMMA LockGroupRowStep ==
    ASSUME IInv, NEW r \in Requests, LockGroupRow(r)
    PROVE  IInv'
<1> DEFINE k == NextKey(r)
<1> USE ConstantsAssumption DEF Touching, Walking, table, call
<1>a. TypeOK /\ FreeKeys /\ RInv(r)
  BY DEF IInv
<1>b. pc[r] = "release" /\ todo[r] # {} /\ UNCHANGED <<clock, staff, pc, call, attempt, chunks>>
  BY DEF LockGroupRow
<1>c. k \in Locs /\ k \in todo[r] /\ \A m \in todo[r] : k <= m
  BY <1>a, <1>b, NextKeyIsLeast
<1>d. /\ \/ /\ Mine(r, k) /\ key[k] \in {NoOne, r}
            /\ key' = [key EXCEPT ![k] = r]
            /\ temp' = [temp EXCEPT ![k] = row[k]]
         \/ ~ Mine(r, k) /\ key' = key /\ temp' = temp
      /\ row' = row
      /\ todo' = [todo EXCEPT ![r] = @ \ {k}]
  BY DEF LockGroupRow, MayLock, Write
<1> HIDE DEF k
<1>1. TypeOK'
  BY <1>a, <1>b, <1>c, <1>d DEF TypeOK
<1>2. Frame(r)
  BY <1>a, <1>b, <1>c, <1>d DEF Frame, TypeOK
<1>3. FreeKeys'
  BY <1>a, <1>d DEF FreeKeys, TypeOK
<1>4. OwnerInv(r)'
  BY <1>a, <1>b, <1>d DEF RInv, OwnerInv, TypeOK, Mine
<1>5. ReleaseInv(r)'
  BY <1>a, <1>b, <1>d DEF RInv, ReleaseInv, TypeOK, Mine
<1>6. OrderInv(r)'
  BY <1>a, <1>b, <1>c, <1>d DEF RInv, OrderInv, TypeOK
<1>7. RowInv(r)'
  BY <1>a, <1>b, <1>c, <1>d DEF RInv, RowInv, TypeOK, Mine
<1>8. WalkInv(r)' /\ LeaseInv(r)'
  BY <1>b DEF WalkInv, LeaseInv, InLease
<1> QED
  BY <1>1, <1>2, <1>3, <1>4, <1>5, <1>6, <1>7, <1>8, StepKeepsIInv DEF RInv

LEMMA DeleteGroupStep ==
    ASSUME IInv, NEW r \in Requests, DeleteGroup(r)
    PROVE  IInv'
<1> USE ConstantsAssumption DEF Touching, Walking, DeleteGroup, Goto, call
<1>a. TypeOK /\ FreeKeys /\ RInv(r)
  BY DEF IInv
<1>1. TypeOK'
  BY <1>a DEF TypeOK, PCs
<1>2. Frame(r)
  BY <1>a DEF Frame, TypeOK
<1>3. FreeKeys'
  BY <1>a DEF FreeKeys, TypeOK
<1>4. OwnerInv(r)' /\ WalkInv(r)' /\ OrderInv(r)' /\ LeaseInv(r)'
  BY <1>a DEF RInv, OwnerInv, WalkInv, OrderInv, LeaseInv, InLease, TypeOK
<1>5. ReleaseInv(r)' /\ RowInv(r)'
  BY <1>a DEF RInv, ReleaseInv, RowInv, Mine, TypeOK
<1> QED
  BY <1>1, <1>2, <1>3, <1>4, <1>5, StepKeepsIInv DEF RInv

LEMMA ReleasedStep ==
    ASSUME IInv, NEW r \in Requests, Released(r)
    PROVE  IInv'
<1> USE ConstantsAssumption DEF Touching, Walking, Released, PublishKeys, Goto, call
<1>a. TypeOK /\ FreeKeys /\ RInv(r)
  BY DEF IInv
<1>b. \A l \in Locs : IF key[l] = r THEN row'[l] = NoRow ELSE row'[l] = row[l] /\ ~ Mine(r, l)
  BY <1>a DEF RInv, ReleaseInv, RowInv, TypeOK
<1>1. TypeOK'
  BY <1>a DEF TypeOK, PCs
<1>2. Frame(r)
  BY <1>a, <1>b DEF Frame, TypeOK
<1>3. FreeKeys'
  BY <1>a DEF FreeKeys, TypeOK
<1>4. \A l \in Locs : key'[l] # r
  BY <1>a DEF TypeOK
<1>5. OwnerInv(r)' /\ WalkInv(r)' /\ ReleaseInv(r)' /\ OrderInv(r)' /\ LeaseInv(r)'
  BY <1>a, <1>4 DEF TypeOK, OwnerInv, WalkInv, ReleaseInv, OrderInv, LeaseInv, InLease
<1>6. RowInv(r)'
  BY <1>a, <1>b DEF RInv, RowInv, TypeOK, Mine
<1> QED
  BY <1>1, <1>2, <1>3, <1>5, <1>6, StepKeepsIInv DEF RInv

\* Time and the staff list leave the table alone; a lease can only run out.
LEMMA EnvironmentStep ==
    ASSUME IInv, Tick \/ (\E e \in Employees : Reassign(e)) \/ UNCHANGED vars
    PROVE  IInv'
<1> USE ConstantsAssumption DEF Touching, Walking
<1>a. TypeOK /\ FreeKeys /\ \A r \in Requests : RInv(r)
  BY DEF IInv
<1>b. UNCHANGED <<row, temp, key, pc, now, wanted, held, todo, attempt, chunks>>
  BY DEF Tick, Reassign, vars, table, call
<1>c. clock' = clock \/ (clock < MaxClock /\ clock' = clock + 1)
  BY DEF Tick, Reassign, vars
<1>d. staff' \in [Employees -> SUBSET Locs]
  <2>1. CASE Tick \/ UNCHANGED vars
    BY <2>1, <1>a DEF Tick, vars, TypeOK
  <2>2. ASSUME NEW e \in Employees, NEW S \in SUBSET Locs, staff' = [staff EXCEPT ![e] = S]
        PROVE  staff' \in [Employees -> SUBSET Locs]
    BY <2>2, <1>a DEF TypeOK
  <2> QED
    BY <2>1, <2>2 DEF Reassign
<1>1. TypeOK'
  BY <1>a, <1>b, <1>c, <1>d DEF TypeOK
<1>2. FreeKeys'
  BY <1>a, <1>b DEF FreeKeys
<1>3. ASSUME NEW r \in Requests
      PROVE  RInv(r)'
  <2>1. OwnerInv(r)' /\ WalkInv(r)' /\ ReleaseInv(r)' /\ OrderInv(r)'
    BY <1>a, <1>b DEF RInv, OwnerInv, WalkInv, ReleaseInv, OrderInv, LeaseOf, NextKey, Mine
  <2>2. RowInv(r)' /\ LeaseInv(r)'
    BY <1>a, <1>b, <1>c DEF RInv, RowInv, LeaseInv, InLease, LeaseOf, Mine, TypeOK
  <2> QED
    BY <2>1, <2>2 DEF RInv
<1> QED
  BY <1>1, <1>2, <1>3 DEF IInv

\* Every step keeps the invariant.
LEMMA NextIInv == IInv /\ [Next]_vars => IInv'
<1> SUFFICES ASSUME IInv, [Next]_vars PROVE IInv'
  OBVIOUS
<1>1. CASE Tick \/ (\E e \in Employees : Reassign(e)) \/ UNCHANGED vars
  BY <1>1, EnvironmentStep
<1>2. ASSUME NEW r \in Requests, Begin(r) \/ Step(r) \/ Crash(r)
      PROVE  IInv'
  BY <1>2, BeginStep, ReadGroupStep, CheckStep, WalkStep, InsertStep, RereadStep,
     CommitLockStep, EndStep, LockGroupRowStep, DeleteGroupStep, ReleasedStep, CrashStep
     DEF Step
<1> QED
  BY <1>1, <1>2 DEF Next

-----------------------------------------------------------------------------
(* Theorems *)

\* The invariant holds in every reachable state.
THEOREM Invariant == Spec => []IInv
<1> QED
  BY InitIInv, NextIInv, PTL DEF Spec

\* Type correctness: every variable keeps its type.
THEOREM TypeCorrect == Spec => []TypeOK
<1>1. IInv => TypeOK
  BY DEF IInv
<1> QED
  BY <1>1, Invariant, PTL

\* Mutual exclusion of the writers: two requests within their leases never
\* write under overlapping lock sets.  A location in both would have to carry
\* the lease of both.
THEOREM Exclusion == Spec => []ClaimExclusion
<1>1. IInv => ClaimExclusion
  <2> SUFFICES ASSUME IInv, NEW r \in Requests, NEW q \in Requests,
                      r # q, InLease(r), InLease(q), NEW l \in wanted[r] \cap wanted[q]
               PROVE  FALSE
    BY DEF ClaimExclusion
  <2>1. row[l] = LeaseOf(r) /\ row[l] = LeaseOf(q)
    BY DEF IInv, RInv, LeaseInv
  <2> QED
    BY <2>1 DEF LeaseOf
<1> QED
  BY <1>1, Invariant, PTL

\* A refused request and one that released have no rows left in the table.
THEOREM NothingLeft == Spec => []LeavesNothing
<1>1. IInv => LeavesNothing
  BY DEF IInv, RInv, RowInv, LeavesNothing
<1> QED
  BY <1>1, Invariant, PTL

\* Along a wait the next key ascends: a request that waits for another's key
\* has its own next key below the other's.
LEMMA WaitsAscend ==
    ASSUME IInv, NEW r \in Requests, NEW q \in Requests, NEW s \in Requests,
           WaitsOn(r, q), WaitsOn(q, s)
    PROVE  NextKey(r) < NextKey(q)
<1> DEFINE k == NextKey(r)
           m == NextKey(q)
<1>1. k \in Locs /\ key[k] = q /\ q # r /\ todo[r] # {} /\ pc[r] \in Walking \cup {"release"}
  BY DEF WaitsOn, NeedsKey, MayLock, Walking
<1>2. m \in Locs /\ key[m] = s /\ s # q /\ todo[q] # {} /\ pc[q] \in Walking \cup {"release"}
  BY DEF WaitsOn, NeedsKey, MayLock, Walking
<1>3. m \in todo[q]
  BY <1>2, NextKeyIsLeast DEF IInv
<1>4. k <= m
  BY <1>1, <1>2, <1>3 DEF IInv, RInv, OrderInv
<1>5. k # m
  BY <1>1, <1>2
<1>6. k \in Int /\ m \in Int
  BY <1>1, <1>2, ConstantsAssumption DEF Locs
<1> QED
  BY <1>4, <1>5, <1>6

\* No set of requests waits in a circle, however many there are: the one with
\* the highest next key would wait for one with a higher one.
LEMMA NoCircle ==
    ASSUME IInv, NEW S \in SUBSET Requests, S # {},
           \A r \in S : \E q \in S : WaitsOn(r, q)
    PROVE  FALSE
<1> DEFINE Gap(r) == NumLocs - NextKey(r)
           T == {Gap(r) : r \in S}
<1>1. ASSUME NEW r \in S
      PROVE  NextKey(r) \in Locs /\ Gap(r) \in Nat
  <2>1. todo[r] # {} /\ TypeOK
    BY <1>1 DEF WaitsOn, NeedsKey, IInv
  <2>2. NextKey(r) \in Locs
    BY <2>1, NextKeyIsLeast
  <2> QED
    BY <2>2, ConstantsAssumption DEF Locs
<1>2. T \subseteq Nat /\ T # {}
  BY <1>1
<1>3. PICK x \in T : \A y \in T : ~ (<<y, x>> \in OpToRel(<, Nat))
  BY <1>2, WFMin, NatLessThanWellFounded
<1>4. PICK r \in S : x = Gap(r)
  OBVIOUS
<1>5. PICK q \in S : WaitsOn(r, q)
  OBVIOUS
<1>6. PICK s \in S : WaitsOn(q, s)
  OBVIOUS
<1>7. NextKey(r) < NextKey(q)
  BY <1>5, <1>6, WaitsAscend
<1>8. Gap(q) < Gap(r) /\ Gap(q) \in Nat /\ Gap(r) \in Nat
  BY <1>1, <1>7, ConstantsAssumption DEF Locs
<1>9. <<Gap(q), x>> \in OpToRel(<, Nat)
  BY <1>4, <1>8 DEF OpToRel
<1> QED
  BY <1>3, <1>9

\* Requests never wait for one another in a circle.
THEOREM DeadlockFree == Spec => []NoWaitCycle
<1>1. IInv => NoWaitCycle
  BY NoCircle DEF NoWaitCycle
<1> QED
  BY <1>1, Invariant, PTL

\* The commit of a walk is a grant of exactly the keys it owns ...
LEMMA CommitGrants ==
    ASSUME IInv, NEW r \in Requests, CommitLock(r)
    PROVE  Lease!Grant(r)
<1> DEFINE S == {l \in Locs : key[l] = r}
<1>a. TypeOK /\ RInv(r) /\ pc[r] = "walk" /\ todo[r] = {}
  BY DEF IInv, CommitLock
<1>1. now[r] \in 0..clock
  BY <1>a DEF RInv, RowInv, TypeOK
<1>2. ASSUME NEW l \in S
      PROVE  Lease!MayTake(r, l, now[r]) /\ temp[l] = [grp |-> r, exp |-> now[r] + TTL]
  <2>1. row[l] = NoRow \/ row[l].grp = r \/ row[l].exp < now[r]
    BY <1>a DEF RInv, OwnerInv
  <2>2. row[l] # NoRow /\ row[l].grp = r => row[l].exp <= now[r] + TTL
    BY <1>a DEF RInv, RowInv, Mine
  <2>3. temp[l] = LeaseOf(r)
    BY <1>a DEF RInv, WalkInv, Walking
  <2> QED
    BY <2>1, <2>2, <2>3 DEF Lease!MayTake, LeaseOf
<1>3. row' = [l \in Locs |-> IF l \in S THEN [grp |-> r, exp |-> now[r] + TTL] ELSE row[l]]
  BY <1>2 DEF CommitLock, PublishKeys
<1>4. S \in SUBSET Locs /\ UNCHANGED clock
  BY DEF CommitLock
<1> QED
  BY <1>1, <1>2, <1>3, <1>4 DEF Lease!Grant

\* ... and the commit of a release gives back exactly the group's rows.
LEMMA ReleaseGivesBack ==
    ASSUME IInv, NEW r \in Requests, Released(r)
    PROVE  Lease!GiveBack(r)
<1>a. RInv(r) /\ pc[r] = "deleted"
  BY DEF IInv, Released
<1>1. \A l \in Locs : key[l] = r <=> Mine(r, l)
  BY <1>a DEF RInv, ReleaseInv, RowInv
<1>2. \A l \in Locs : key[l] = r => temp[l] = NoRow
  BY <1>a DEF RInv, ReleaseInv
<1>3. row' = [l \in Locs |-> IF Mine(r, l) THEN NoRow ELSE row[l]]
  BY <1>1, <1>2 DEF Released, PublishKeys
<1>4. UNCHANGED clock
  BY DEF Released
<1> QED
  BY <1>3, <1>4 DEF Lease!GiveBack, Lease!HeldBy, Mine

\* Every other step of a request leaves the committed table as it is.
LEMMA OthersStutter ==
    ASSUME IInv, NEW r \in Requests, Begin(r) \/ Step(r) \/ Crash(r),
           ~ CommitLock(r), ~ Released(r)
    PROVE  UNCHANGED <<clock, row>>
<1>1. Refuse(r) => UNCHANGED row
  BY DEF Refuse, RollbackKeys
<1>2. CASE Begin(r) \/ Relock(r) \/ ReadGroup(r) \/ EndWrite(r) \/ EndStream(r)
  BY <1>2 DEF Begin, Relock, BeginCall, ReadGroup, EndWrite, EndStream, table
<1>3. CASE Check(r) \/ Reread(r) \/ Crash(r)
  BY <1>3, <1>1 DEF Check, Reread, Crash, RollbackKeys, table
<1>4. CASE Walk(r) \/ Insert(r)
  BY <1>4, <1>1 DEF Walk, Refresh, Sweep, Insert, Write, table
<1>5. CASE LockGroupRow(r) \/ DeleteGroup(r)
  BY <1>5 DEF LockGroupRow, DeleteGroup, Write, table
<1> QED
  BY <1>2, <1>3, <1>4, <1>5 DEF Step

\* The lock implements the table of leases: whatever the statements of the
\* requests do to each other, what is committed changes by whole grants of
\* free, own or expired locations, by whole returns, and by time.
THEOREM Refinement == Spec => LeaseTable
<1>1. Init => Lease!Init
  BY DEF Init, Lease!Init
<1>2. IInv /\ [Next]_vars => [Lease!Next]_(Lease!leaseVars)
  <2> SUFFICES ASSUME IInv, [Next]_vars
               PROVE  Lease!Next \/ UNCHANGED <<clock, row>>
    BY DEF Lease!leaseVars
  <2>1. CASE Tick
    BY <2>1 DEF Tick, table, Lease!Next, Lease!Pass
  <2>2. CASE (\E e \in Employees : Reassign(e)) \/ UNCHANGED vars
    BY <2>2 DEF Reassign, vars, table
  <2>3. ASSUME NEW r \in Requests, Begin(r) \/ Step(r) \/ Crash(r)
        PROVE  Lease!Next \/ UNCHANGED <<clock, row>>
    BY <2>3, CommitGrants, ReleaseGivesBack, OthersStutter DEF Lease!Next
  <2> QED
    BY <2>1, <2>2, <2>3 DEF Next
<1> QED
  BY <1>1, <1>2, Invariant, PTL DEF Spec, LeaseTable, Lease!Spec
-----------------------------------------------------------------------------
(* The work a request does *)

\* The keys a request has to do are finitely many, and what is left of its
\* work is a number.
LEMMA WorkTypes ==
    ASSUME TypeOK, NEW r \in Requests
    PROVE  /\ CallsLeft(r) \in Nat
           /\ IsFiniteSet(todo[r])
           /\ Cardinality(todo[r]) \in 0..NumLocs
           /\ attempt[r] \in 0..1
           /\ StepsLeft(r) \in Nat
<1>1. CallsLeft(r) \in Nat
  <2>1. MaxChunks - chunks[r] \in Nat /\ 6 * NumLocs + 10 \in Nat
    BY ConstantsAssumption DEF TypeOK
  <2>2. \A a, b \in Nat : a * b \in Nat
    OBVIOUS
  <2> QED
    BY <2>1, <2>2 DEF CallsLeft
<1>2. IsFiniteSet(Locs) /\ Cardinality(Locs) = NumLocs
  BY ConstantsAssumption, FS_Interval DEF Locs
<1>3. IsFiniteSet(todo[r]) /\ Cardinality(todo[r]) \in 0..NumLocs
  <2>1. todo[r] \subseteq Locs
    BY DEF TypeOK
  <2> QED
    BY <1>2, <2>1, FS_Subset, FS_CardinalityType, ConstantsAssumption
<1>4. attempt[r] \in 0..1 /\ pc[r] \in PCs
  BY DEF TypeOK
<1>5. StepsLeft(r) \in Nat
  BY <1>1, <1>3, <1>4, ConstantsAssumption DEF StepsLeft, KeyWork, PCs, Ended
<1> QED
  BY <1>1, <1>3, <1>4, <1>5

\* A key done is a key less.
LEMMA OneKeyLess ==
    ASSUME TypeOK, NEW r \in Requests, todo[r] # {}
    PROVE  Cardinality(todo[r] \ {NextKey(r)}) = Cardinality(todo[r]) - 1
  BY WorkTypes, NextKeyIsLeast, FS_RemoveElement

\* Every step of a request uses up some of its work.
LEMMA StepUsesWork ==
    ASSUME IInv, IInv', NEW r \in Requests, Begin(r) \/ Step(r) \/ Crash(r)
    PROVE  StepsLeft(r)' < StepsLeft(r)
<1> DEFINE k == NextKey(r)
           n == Cardinality(todo[r])
           c == CallsLeft(r)
<1>a. TypeOK /\ RInv(r) /\ TypeOK'
  BY DEF IInv
<1>b. /\ pc \in [Requests -> PCs] /\ todo \in [Requests -> SUBSET Locs]
      /\ attempt \in [Requests -> 0..1] /\ chunks \in [Requests -> 0..MaxChunks]
  BY <1>a DEF TypeOK
<1>c. /\ c \in Nat /\ n \in 0..NumLocs /\ attempt[r] \in 0..1
      /\ NumLocs \in Nat /\ NumLocs > 0
  BY <1>a, WorkTypes, ConstantsAssumption
<1>d. Cardinality(todo'[r]) \in 0..NumLocs
  <2>1. IsFiniteSet(Locs) /\ Cardinality(Locs) = NumLocs
    BY ConstantsAssumption, FS_Interval DEF Locs
  <2>2. todo'[r] \subseteq Locs
    BY <1>a DEF TypeOK
  <2> QED
    BY <2>1, <2>2, FS_Subset, FS_CardinalityType, ConstantsAssumption
<1>e. chunks' = chunks => CallsLeft(r)' = c
  BY DEF CallsLeft
<1> HIDE DEF k, n, c
<1> USE DEF Goto, StepsLeft, KeyWork, Ended, n, c
<1>1. CASE Begin(r)
  BY <1>1, <1>b, <1>c, <1>e DEF Begin
<1>2. CASE Crash(r)
  BY <1>2, <1>b, <1>c DEF Crash, PCs
<1>3. ASSUME Refuse(r), pc[r] \in {"check", "walk", "reread"}, chunks' = chunks
      PROVE  StepsLeft(r)' < StepsLeft(r)
  BY <1>3, <1>b, <1>c, <1>e DEF Refuse
<1>4. CASE Check(r)
  <2>1. CASE Refuse(r)
    BY <2>1, <1>3, <1>4 DEF Check
  <2>2. CASE ~ Refuse(r)
    BY <2>2, <1>4, <1>b, <1>c, <1>d, <1>e DEF Check
  <2> QED
    BY <2>1, <2>2
<1>5. CASE Walk(r) /\ Refresh(r, k)
  <2>1. CASE Refuse(r)
    BY <2>1, <1>3, <1>5 DEF Walk
  <2>2. CASE ~ Refuse(r)
    <3>1. Cardinality(todo'[r]) = n - 1 /\ pc' = pc /\ attempt' = attempt
      BY <2>2, <1>5, <1>a, <1>b, OneKeyLess DEF Walk, Refresh, k
    <3> QED
      BY <3>1, <1>5, <1>b, <1>c, <1>e DEF Walk
  <2> QED
    BY <2>1, <2>2
<1>6. CASE Walk(r) /\ Sweep(r, k)
  BY <1>6, <1>b, <1>c, <1>e DEF Walk, Sweep
<1>7. CASE Insert(r)
  <2>1. todo[r] # {}
    BY <1>7, <1>a DEF Insert, RInv, WalkInv, Walking
  <2>2. CASE pc' = [pc EXCEPT ![r] = "walk"] /\ todo' = [todo EXCEPT ![r] = @ \ {k}]
             /\ attempt' = [attempt EXCEPT ![r] = 0]
    <3>1. Cardinality(todo'[r]) = n - 1
      BY <2>1, <2>2, <1>a, <1>b, OneKeyLess DEF k
    <3> QED
      BY <3>1, <2>2, <1>7, <1>b, <1>c, <1>e DEF Insert
  <2>3. CASE pc' = [pc EXCEPT ![r] = "reread"] /\ UNCHANGED <<todo, attempt>>
    BY <2>3, <1>7, <1>b, <1>c, <1>e DEF Insert
  <2> QED
    BY <2>2, <2>3, <1>7 DEF Insert, k
<1>8. CASE Reread(r)
  <2>1. CASE Refuse(r)
    BY <2>1, <1>3, <1>8 DEF Reread
  <2>2. CASE ~ Refuse(r)
    BY <2>2, <1>8, <1>b, <1>c, <1>e DEF Reread
  <2> QED
    BY <2>1, <2>2
<1>9. CASE CommitLock(r)
  BY <1>9, <1>b, <1>c, <1>e DEF CommitLock
<1>10. CASE Relock(r)
  <2>1. CallsLeft(r)' = c - (6 * NumLocs + 10)
    <3>1. chunks'[r] = chunks[r] + 1 /\ chunks[r] \in Nat
      BY <1>10, <1>b DEF Relock
    <3>2. \A x, y, b \in Int : (x - (y + 1)) * b = (x - y) * b - b
      OBVIOUS
    <3> QED
      BY <3>1, <3>2, ConstantsAssumption DEF CallsLeft
  <2> QED
    BY <2>1, <1>10, <1>b, <1>c DEF Relock
<1>11. CASE ReadGroup(r)
  BY <1>11, <1>b, <1>c, <1>e DEF ReadGroup
<1>12. CASE EndWrite(r) \/ EndStream(r)
  BY <1>12, <1>b, <1>c, <1>d, <1>e DEF EndWrite, EndStream, EnterRelease
<1>13. CASE LockGroupRow(r)
  <2>1. Cardinality(todo'[r]) = n - 1 /\ pc' = pc
    BY <1>13, <1>a, <1>b, OneKeyLess DEF LockGroupRow
  <2> QED
    BY <2>1, <1>13, <1>b, <1>c DEF LockGroupRow
<1>14. CASE DeleteGroup(r) \/ Released(r)
  BY <1>14, <1>b, <1>c DEF DeleteGroup, Released
<1> QED
  BY <1>1, <1>2, <1>4, <1>5, <1>6, <1>7, <1>8, <1>9, <1>10, <1>11, <1>12, <1>13, <1>14
     DEF Step, Walk, k

\* A step of r leaves every other request where it is.
LEMMA OnlyItsOwn ==
    ASSUME IInv, NEW r \in Requests, Begin(r) \/ Step(r) \/ Crash(r),
           NEW q \in Requests \ {r}
    PROVE  UNCHANGED <<pc[q], now[q], wanted[q], held[q], todo[q], attempt[q], chunks[q]>>
<1>a. TypeOK
  BY DEF IInv
<1> USE <1>a DEF TypeOK, Goto, call
<1>1. CASE Begin(r) \/ Relock(r) \/ ReadGroup(r)
  BY <1>1 DEF Begin, Relock, BeginCall, ReadGroup
<1>2. CASE Check(r) \/ Reread(r)
  BY <1>2 DEF Check, Reread, Refuse
<1>3. CASE Walk(r)
  BY <1>3 DEF Walk, Refresh, Sweep, Refuse
<1>4. CASE Insert(r) \/ CommitLock(r)
  BY <1>4 DEF Insert, CommitLock
<1>5. CASE EndWrite(r) \/ EndStream(r)
  BY <1>5 DEF EndWrite, EndStream, EnterRelease
<1>6. CASE LockGroupRow(r) \/ DeleteGroup(r) \/ Released(r) \/ Crash(r)
  BY <1>6 DEF LockGroupRow, DeleteGroup, Released, Crash
<1> QED
  BY <1>1, <1>2, <1>3, <1>4, <1>5, <1>6 DEF Step

\* What is left to a request is always a number, so a request takes a bounded
\* number of steps, whatever the others do.
THEOREM WorkIsANumber == Spec => [](\A r \in Requests : StepsLeft(r) \in Nat)
<1>1. IInv => \A r \in Requests : StepsLeft(r) \in Nat
  BY WorkTypes DEF IInv
<1> QED
  BY <1>1, Invariant, PTL

\* Whatever moves a request uses up some of its work, and nothing anybody else
\* does gives it more: a step of another request does not touch it.
THEOREM WorkIsBounded == Spec => WorkRunsOut
<1> DEFINE Runs(q) ==
               \/ StepsLeft(q)' < StepsLeft(q)
               \/ UNCHANGED <<pc[q], now[q], wanted[q], held[q], todo[q], attempt[q],
                              chunks[q]>>
<1>1. ASSUME IInv, IInv', Next, NEW q \in Requests
      PROVE  Runs(q)
  <2>1. CASE Tick \/ (\E e \in Employees : Reassign(e))
    BY <2>1 DEF Tick, Reassign, call
  <2>2. ASSUME NEW r \in Requests, Begin(r) \/ Step(r) \/ Crash(r)
        PROVE  Runs(q)
    <3>1. CASE q = r
      BY <1>1, <2>2, <3>1, StepUsesWork
    <3>2. CASE q # r
      BY <2>2, <3>2, <1>1, OnlyItsOwn
    <3> QED
      BY <3>1, <3>2
  <2> QED
    BY <1>1, <2>1, <2>2 DEF Next
<1>2. IInv /\ IInv' /\ [Next]_vars =>
         [\A r \in Requests :
             \/ StepsLeft(r)' < StepsLeft(r)
             \/ UNCHANGED <<pc[r], now[r], wanted[r], held[r], todo[r], attempt[r],
                            chunks[r]>>]_vars
  BY <1>1
<1> QED
  BY <1>2, Invariant, PTL DEF Spec, WorkRunsOut

\* A request in the middle of its call, and the guards of its next step: only a
\* key another transaction owns makes it wait.
Busy(r) == pc[r] \notin Ended \cup {"idle"}

CanGoOn(r) ==
    \/ pc[r] \in {"group", "check", "reread", "write", "pause", "deleted"}
    \/ pc[r] \in {"walk", "release"} /\ todo[r] = {}
    \/ /\ todo[r] # {}
       /\ LET l == NextKey(r) IN
          \/ pc[r] = "walk" /\ l \in held[r] /\ (Mine(r, l) => MayLock(r, l))
          \/ pc[r] = "walk" /\ l \notin held[r] /\ (Expired(l, now[r]) => MayLock(r, l))
          \/ pc[r] = "insert" /\ (row[l] = NoRow \/ temp[l] = NoRow) /\ MayLock(r, l)
          \/ pc[r] = "insert" /\ row[l] # NoRow /\ temp[l] = row[l]
          \/ pc[r] = "release" /\ (Mine(r, l) => MayLock(r, l))

\* The transaction that owns a key is in the middle of its call.
LEMMA BusyOwner ==
    ASSUME IInv, NEW l \in Locs, NEW q \in Requests, key[l] = q
    PROVE  Busy(q)
  BY DEF IInv, RInv, OwnerInv, Busy, Touching, Walking, Ended

\* A busy request that cannot go on waits for another busy one.
LEMMA StuckWaits ==
    ASSUME IInv, NEW r \in Requests, Busy(r), ~ CanGoOn(r)
    PROVE  \E q \in Requests : Busy(q) /\ WaitsOn(r, q)
<1> DEFINE l == NextKey(r)
           q == key[l]
<1>a. TypeOK /\ RInv(r) /\ FreeKeys
  BY DEF IInv
<1>1. pc[r] \in {"walk", "insert", "release"} /\ todo[r] # {}
  BY <1>a DEF TypeOK, Busy, CanGoOn, PCs, Ended, RInv, WalkInv, Walking
<1>2. l \in Locs /\ l \in todo[r] /\ q \in Requests \cup {NoOne}
  BY <1>a, <1>1, NextKeyIsLeast DEF TypeOK
<1>3. NeedsKey(r, l) /\ ~ MayLock(r, l)
  <2>1. CASE pc[r] \in {"walk", "release"}
    BY <1>1, <2>1 DEF CanGoOn, NeedsKey
  <2>2. CASE pc[r] = "insert"
    <3>1. key[l] = NoOne => temp[l] = row[l]
      BY <1>a, <1>2 DEF FreeKeys
    <3>2. key[l] = r => temp[l] = NoRow
      BY <1>a, <1>2, <2>2 DEF RInv, WalkInv, Walking
    <3> QED
      BY <1>1, <2>2, <3>1, <3>2 DEF CanGoOn, MayLock, NeedsKey
  <2> QED
    BY <1>1, <2>1, <2>2
<1> QED
  BY <1>2, <1>3, BusyOwner DEF MayLock, WaitsOn

\* As long as a request is in the middle of its call, some request can take its
\* next step: they never all wait for one another's keys.  With WorkIsBounded
\* this is why every request that arrives ends.
THEOREM SomebodyGoesOn ==
    Spec => []((\E r \in Requests : Busy(r)) => \E r \in Requests : Busy(r) /\ CanGoOn(r))
<1>1. ASSUME IInv, NEW r \in Requests, Busy(r),
             \A q \in Requests : Busy(q) => ~ CanGoOn(q)
      PROVE  FALSE
  <2> DEFINE S == {q \in Requests : Busy(q)}
  <2>1. \A q \in S : \E p \in S : WaitsOn(q, p)
    BY <1>1, StuckWaits
  <2> QED
    <3>1. S \in SUBSET Requests /\ r \in S
      BY <1>1
    <3> HIDE DEF S
    <3> QED
      BY <3>1, <2>1, <1>1, NoCircle
<1>2. IInv => ((\E r \in Requests : Busy(r)) => \E r \in Requests : Busy(r) /\ CanGoOn(r))
  BY <1>1
<1> QED
  BY <1>2, Invariant, PTL
=============================================================================
