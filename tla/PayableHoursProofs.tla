------------------------ MODULE PayableHoursProofs ------------------------
(***************************************************************************)
(* Theorems about payable hours, for any number of employees, shifts,      *)
(* ranges, requests and exports.                                           *)
(*                                                                         *)
(* The inductive invariant says what a request has read that is still so   *)
(* when it writes: a scan that has looked back knows who scanned before    *)
(* its code was shown; a derive reports rows that stay; an export owns the *)
(* rows of its file, and nobody else has stamped them since.               *)
(***************************************************************************)
EXTENDS PayableHours, TLAPS

\* Who has not been seen by looking back has none of the codes up to theirs.
ScanInv(r) ==
    /\ at[r] \in {"look", "admit"} =>
          /\ scan[r] \in Scan /\ scan[r].code < MaxScans
          /\ scan[r].code <= Len(arrivals)
    /\ at[r] = "admit" =>
          IF scan[r].old
          THEN \E i \in 1..Len(arrivals) : arrivals[i].who = scan[r].who
          ELSE \A i \in 1..scan[r].code : arrivals[i].who # scan[r].who

WorkInv(r) ==
    /\ at[r] \in {"arrivals", "insert"} => work[r].have \subseteq Entered
    /\ at[r] = "insert" => work[r].have \cap work[r].todo = {}
    /\ at[r] = "told" =>
          /\ work[r].have \cup work[r].todo \subseteq Entered
          /\ work[r].have \cap work[r].todo = {}
    /\ at[r] = "approve" =>
          /\ work[r].have \cup work[r].todo \subseteq Entered
          /\ \A s \in work[r].have : owner[s] = r
    /\ at[r] = "export" =>
          \A s \in work[r].have : owner[s] = r /\ Sendable(s, work[r].again)

IInv ==
    /\ TypeOK /\ FirstScanKeepsTheNumber /\ LogAgreesWithStamps
    /\ \A r \in Requests : ScanInv(r) /\ WorkInv(r)

\* The invariant holds at the start.
LEMMA InitHolds == Init => IInv
<1> SUFFICES ASSUME Init PROVE IInv
  OBVIOUS
<1>1. TypeOK
  BY PayrollAssumption DEF Init, TypeOK, Places, Nothing, Work
<1>2. FirstScanKeepsTheNumber
  BY DEF Init, FirstScanKeepsTheNumber
<1>3. LogAgreesWithStamps
  BY PayrollAssumption DEF Init, LogAgreesWithStamps, Entered, Plain
<1>4. \A r \in Requests : ScanInv(r) /\ WorkInv(r)
  BY DEF Init, ScanInv, WorkInv
<1> QED
  BY <1>1, <1>2, <1>3, <1>4 DEF IInv

-----------------------------------------------------------------------------
(* What one request does leaves the others as they were *)

\* Arrivals are only added, and rows only entered and approved.
Grown ==
    /\ Len(arrivals) <= Len(arrivals')
    /\ \A i \in 1..Len(arrivals) : arrivals'[i] = arrivals[i]
    /\ \A s \in Entered : s \in Entered' /\ (entry[s].approved => entry'[s].approved)

\* A step of r: the others' locals stay, and so do the locks and the stamps of
\* the rows they own.
StepOf(r) ==
    /\ Grown
    /\ \A q \in Requests \ {r} :
          /\ at'[q] = at[q] /\ scan'[q] = scan[q] /\ work'[q] = work[q]
          /\ \A s \in Shifts : owner[s] = q =>
                /\ owner'[s] = q
                /\ s \in Entered => entry'[s].file = entry[s].file

\* A step of r leaves the invariant of another request true.
LEMMA OthersKeep ==
    ASSUME IInv, NEW r, StepOf(r), NEW q \in Requests, q # r
    PROVE  ScanInv(q)' /\ WorkInv(q)'
<1>1. /\ at'[q] = at[q] /\ scan'[q] = scan[q] /\ work'[q] = work[q]
      /\ \A s \in Shifts : owner[s] = q =>
            owner'[s] = q /\ (s \in Entered => entry'[s].file = entry[s].file)
  BY DEF StepOf
<1>2. ScanInv(q) /\ WorkInv(q) /\ TypeOK
  BY DEF IInv
<1>3. Len(arrivals) \in Nat /\ Len(arrivals') >= Len(arrivals) /\ Entered \subseteq Entered'
  BY <1>2 DEF StepOf, Grown, TypeOK
<1>4. ScanInv(q)'
  <2>1. CASE at[q] \in {"look", "admit"}
    <3>1. scan[q].code \in Nat /\ scan[q].code <= Len(arrivals) /\ Len(arrivals') \in Nat
      BY <1>2, <2>1 DEF ScanInv, Scan, StepOf, Grown, TypeOK
    <3> QED
      BY <1>1, <1>2, <1>3, <3>1 DEF ScanInv, StepOf, Grown
  <2>2. CASE at[q] \notin {"look", "admit"}
    BY <1>1, <2>2 DEF ScanInv
  <2> QED
    BY <2>1, <2>2
<1>5. WorkInv(q)'
  <2>1. work[q].have \subseteq Shifts /\ work[q].todo \subseteq Shifts
    BY <1>2 DEF TypeOK, Work
  <2>2. ASSUME NEW s \in Shifts, owner[s] = q, Sendable(s, work[q].again)
        PROVE  Sendable(s, work[q].again)'
    <3>1. s \in Entered
      BY <2>2 DEF Sendable, Entered
    <3> QED
      BY <1>1, <2>2, <3>1 DEF Sendable, Entered, StepOf, Grown
  <2> QED
    BY <1>1, <1>2, <1>3, <2>1, <2>2 DEF WorkInv
<1> QED
  BY <1>4, <1>5

\* To show the invariant after a step of r it is enough to look at r.
LEMMA OnlyMine ==
    ASSUME IInv, NEW r \in Requests, StepOf(r), TypeOK', ScanInv(r)', WorkInv(r)',
           FirstScanKeepsTheNumber', LogAgreesWithStamps'
    PROVE  IInv'
BY OthersKeep DEF IInv

\* Nothing that was recorded changes.
Still == UNCHANGED <<arrivals, entry, log>>

\* Then the parts of the invariant about it stay.
LEMMA StillTrue ==
    ASSUME IInv, Still
    PROVE  /\ Grown /\ Entered' = Entered
           /\ FirstScanKeepsTheNumber' /\ LogAgreesWithStamps'
<1>1. Entered' = Entered
  BY DEF Still, Entered
<1>2. Len(arrivals) \in Nat
  BY DEF IInv, TypeOK
<1>3. Grown
  BY <1>1, <1>2 DEF Still, Grown
<1>4. FirstScanKeepsTheNumber'
  BY DEF Still, IInv, FirstScanKeepsTheNumber
<1>5. LogAgreesWithStamps'
  BY <1>1 DEF Still, IInv, LogAgreesWithStamps, Plain
<1> QED
  BY <1>1, <1>3, <1>4, <1>5

\* A request that ends is idle, has no lock and leaves those of others.
LEMMA EndHelps ==
    ASSUME TypeOK, NEW r \in Requests, End(r)
    PROVE  /\ at' \in [Requests -> Places] /\ scan' \in [Requests -> Scan \cup {NoScan}]
           /\ work' \in [Requests -> Work] /\ owner' \in [Shifts -> Requests \cup {NoOne}]
           /\ at'[r] = "idle"
           /\ \A q \in Requests \ {r} :
                 /\ at'[q] = at[q] /\ scan'[q] = scan[q] /\ work'[q] = work[q]
                 /\ \A s \in Shifts : owner[s] = q => owner'[s] = q
<1>1. Nothing \in Work /\ "idle" \in Places
  BY DEF Nothing, Work, Places
<1> QED
  BY <1>1 DEF End, Goto, TypeOK

\* A request that ends and has recorded nothing keeps the invariant.
LEMMA EndKeeps ==
    ASSUME IInv, NEW r \in Requests, End(r), Still
    PROVE  IInv'
<1>1. TypeOK
  BY DEF IInv
<1>2. TypeOK'
  BY <1>1, EndHelps DEF TypeOK, Still
<1>3. StepOf(r)
  BY <1>1, EndHelps, StillTrue DEF StepOf, Still
<1>4. ScanInv(r)' /\ WorkInv(r)'
  BY <1>1, EndHelps DEF ScanInv, WorkInv
<1> QED
  BY <1>2, <1>3, <1>4, StillTrue, OnlyMine

-----------------------------------------------------------------------------
(* The scans *)

\* Counting.
LEMMA CountKeeps ==
    ASSUME IInv, NEW r \in Requests, NEW e \in Employees, Count(r, e)
    PROVE  IInv'
<1>1. TypeOK /\ Len(arrivals) \in 0..MaxScans
  BY PayrollAssumption DEF IInv, TypeOK
<1>2. [who |-> e, code |-> Len(arrivals), old |-> FALSE] \in Scan
  BY <1>1 DEF Scan
<1>3. TypeOK'
  BY <1>1, <1>2 DEF Count, Goto, TypeOK, Places
<1>4. Still
  BY DEF Count, Still
<1>5. StepOf(r)
  BY <1>1, <1>4, StillTrue DEF Count, Goto, StepOf, TypeOK
<1>6. ScanInv(r)' /\ WorkInv(r)'
  BY <1>1, <1>2 DEF Count, Goto, ScanInv, WorkInv, TypeOK
<1> QED
  BY <1>3, <1>4, <1>5, <1>6, StillTrue, OnlyMine

\* Looking back.
LEMMA LookBackKeeps ==
    ASSUME IInv, NEW r \in Requests, LookBack(r)
    PROVE  IInv'
<1> DEFINE seen == \E i \in 1..Len(arrivals) : arrivals[i].who = scan[r].who
<1>1. TypeOK /\ Len(arrivals) \in Nat
  BY DEF IInv, TypeOK
<1>2. /\ scan[r] \in Scan /\ scan[r].code \in Nat
      /\ scan[r].code <= Len(arrivals) /\ scan[r].code < MaxScans
  BY DEF IInv, ScanInv, LookBack, Scan
<1>3. scan' = [scan EXCEPT ![r].old = seen] /\ at'[r] = "admit"
  BY <1>1 DEF LookBack, Goto, TypeOK
<1>4. /\ scan'[r] \in Scan /\ scan'[r].who = scan[r].who /\ scan'[r].code = scan[r].code
      /\ scan'[r].old = seen
  BY <1>1, <1>2, <1>3 DEF TypeOK, Scan
<1>5. TypeOK'
  BY <1>1, <1>3, <1>4 DEF LookBack, Goto, TypeOK, Places
<1>6. Still
  BY DEF LookBack, Still
<1>7. StepOf(r)
  BY <1>1, <1>6, StillTrue DEF LookBack, Goto, StepOf, TypeOK
<1>8. ScanInv(r)'
  <2>1. arrivals' = arrivals
    BY <1>6 DEF Still
  <2>2. scan'[r].code < MaxScans /\ scan'[r].code <= Len(arrivals')
    BY <1>2, <1>4, <2>1
  <2>3. CASE seen
    BY <1>3, <1>4, <2>1, <2>2, <2>3 DEF ScanInv
  <2>4. CASE ~seen
    <3>1. \A i \in 1..scan[r].code : i \in 1..Len(arrivals)
      BY <1>1, <1>2
    <3> QED
      BY <1>3, <1>4, <2>1, <2>2, <2>4, <3>1 DEF ScanInv
  <2> QED
    BY <2>3, <2>4
<1>9. WorkInv(r)'
  BY <1>3 DEF WorkInv
<1> QED
  BY <1>5, <1>6, <1>7, <1>8, <1>9, StillTrue, OnlyMine

\* An arrival. Its code is that of the count, so all earlier arrivals were there
\* when it looked back.
LEMMA AdmitKeeps ==
    ASSUME IInv, NEW r \in Requests, NEW s \in Shifts \cup {NoShift}, Admit(r, s)
    PROVE  IInv'
<1> DEFINE n == Len(arrivals)
<1> DEFINE new == Arrived(r, s)
<1>1. TypeOK /\ n \in Nat /\ n <= MaxScans
  BY DEF IInv, TypeOK
<1>2. scan[r] \in Scan /\ scan[r].code = n /\ at[r] = "admit" /\ ScanInv(r)
  BY DEF IInv, ScanInv, Admit
<1>3. new \in Arrival /\ new.who = scan[r].who /\ new.first = ~scan[r].old
  BY <1>2 DEF Arrived, Arrival, Scan
<1>4. /\ arrivals' = Append(arrivals, new) /\ arrivals' \in Seq(Arrival)
      /\ Len(arrivals') = n + 1 /\ arrivals'[n + 1] = new
      /\ \A i \in 1..n : arrivals'[i] = arrivals[i]
  BY <1>1, <1>3 DEF Admit, TypeOK
<1>5. n + 1 <= MaxScans /\ MaxScans \in Nat
  BY <1>1, <1>2, PayrollAssumption DEF ScanInv
<1>6. End(r) /\ entry' = entry /\ log' = log /\ Entered' = Entered
  BY DEF Admit, Entered
<1>7. TypeOK'
  BY <1>1, <1>4, <1>5, <1>6, EndHelps DEF TypeOK
<1>8. StepOf(r)
  <2>1. Grown
    BY <1>1, <1>4, <1>6 DEF Grown
  <2> QED
    BY <1>1, <1>6, <2>1, EndHelps DEF StepOf
<1>9. ScanInv(r)' /\ WorkInv(r)'
  BY <1>1, <1>6, EndHelps DEF ScanInv, WorkInv
<1>10. FirstScanKeepsTheNumber'
  <2> SUFFICES ASSUME NEW i \in 1..(n + 1)
               PROVE  arrivals'[i].first <=>
                        \A j \in 1..(i - 1) : arrivals'[j].who # arrivals'[i].who
    BY <1>4 DEF FirstScanKeepsTheNumber
  <2>1. CASE i \in 1..n
    <3>1. \A j \in 1..(i - 1) : j \in 1..n
      BY <1>1, <2>1
    <3>2. arrivals[i].first <=> \A j \in 1..(i - 1) : arrivals[j].who # arrivals[i].who
      BY <2>1 DEF IInv, FirstScanKeepsTheNumber
    <3> QED
      BY <1>4, <2>1, <3>1, <3>2
  <2>2. CASE i = n + 1
    <3>1. 1..(i - 1) = 1..n
      BY <1>1, <2>2
    <3>2. scan[r].old \in BOOLEAN
      BY <1>2 DEF Scan
    <3>3. scan[r].old <=> \E j \in 1..n : arrivals[j].who = scan[r].who
      BY <1>2, <3>2 DEF ScanInv
    <3> HIDE DEF new
    <3> QED
      BY <1>3, <1>4, <2>2, <3>1, <3>2, <3>3
  <2> QED
    BY <1>1, <2>1, <2>2
<1>11. LogAgreesWithStamps'
  BY <1>6 DEF IInv, LogAgreesWithStamps, Plain
<1> QED
  BY <1>7, <1>8, <1>9, <1>10, <1>11, OnlyMine

\* A scan whose code another one has used.
LEMMA CodeUsedKeeps ==
    ASSUME IInv, NEW r \in Requests, CodeUsed(r)
    PROVE  IInv'
BY EndKeeps DEF CodeUsed, Still

-----------------------------------------------------------------------------
(* The payroll requests *)

\* A request that begins has dealt with nothing.
LEMMA BeginKeeps ==
    ASSUME IInv, NEW r \in Requests, NEW to \in {"derive", "check", "approve", "export"},
           NEW range \in SUBSET Shifts, NEW todo \in SUBSET Shifts, NEW again \in BOOLEAN,
           Begin(r, to, range, todo, again), to = "approve" => todo \subseteq Entered
    PROVE  IInv'
<1> DEFINE w == [range |-> range, have |-> {}, todo |-> todo, again |-> again]
<1>1. TypeOK
  BY DEF IInv
<1>2. w \in Work /\ to \in Places
  BY DEF Work, Places
<1>3. at' = [at EXCEPT ![r] = to] /\ work' = [work EXCEPT ![r] = w]
  BY DEF Begin, Goto
<1>4. Still /\ UNCHANGED <<owner, scan>>
  BY DEF Begin, Still
<1>5. TypeOK' /\ at'[r] = to /\ work'[r] = w
  BY <1>1, <1>2, <1>3, <1>4 DEF TypeOK, Still
<1>6. StepOf(r)
  BY <1>1, <1>3, <1>4, StillTrue DEF StepOf, Still, TypeOK
<1>7. ScanInv(r)' /\ WorkInv(r)'
  BY <1>4, <1>5, StillTrue DEF ScanInv, WorkInv
<1> QED
  BY <1>4, <1>5, <1>6, <1>7, StillTrue, OnlyMine

\* Where a request that takes a step goes, and what it has then.
LEMMA StepHelps ==
    ASSUME TypeOK, NEW r \in Requests, NEW to \in Places,
           NEW have \in SUBSET Shifts, NEW todo \in SUBSET Shifts, Step(r, to, have, todo)
    PROVE  /\ at' \in [Requests -> Places] /\ work' \in [Requests -> Work]
           /\ at'[r] = to /\ work'[r].have = have /\ work'[r].todo = todo
           /\ \A q \in Requests \ {r} : at'[q] = at[q] /\ work'[q] = work[q]
           /\ UNCHANGED <<arrivals, log, owner, scan>>
<1>1. /\ at' = [at EXCEPT ![r] = to]
      /\ work' = [work EXCEPT ![r].have = have, ![r].todo = todo]
      /\ UNCHANGED <<arrivals, log, owner, scan>>
  BY DEF Step, Goto
<1>2. at \in [Requests -> Places] /\ work \in [Requests -> Work] /\ work[r] \in Work
  BY DEF TypeOK
<1>3. /\ work'[r] \in Work /\ work'[r].have = have /\ work'[r].todo = todo
      /\ \A q \in Requests \ {r} : work'[q] = work[q]
  BY <1>1, <1>2 DEF Work
<1>4. work' \in [Requests -> Work]
  BY <1>1, <1>2, <1>3
<1> QED
  BY <1>1, <1>2, <1>3, <1>4

\* A step that records nothing, to a place where what the request has is so.
LEMMA StepKeeps ==
    ASSUME IInv, NEW r \in Requests,
           NEW to \in {"arrivals", "insert", "told", "attest"},
           NEW have \in SUBSET Shifts, NEW todo \in SUBSET Shifts,
           Step(r, to, have, todo), entry' = entry,
           to \in {"arrivals", "insert", "told"} => have \subseteq Entered,
           to \in {"insert", "told"} => have \cap todo = {},
           to = "told" => todo = {}
    PROVE  IInv'
<1>1. TypeOK /\ to \in Places
  BY DEF IInv, Places
<1>2. Still
  BY <1>1, StepHelps DEF Still
<1>3. TypeOK'
  BY <1>1, <1>2, StepHelps DEF TypeOK, Still
<1>4. StepOf(r)
  BY <1>1, <1>2, StepHelps, StillTrue DEF StepOf, Still
<1>5. at'[r] = to /\ work'[r].have = have /\ work'[r].todo = todo /\ Entered' = Entered
  BY <1>1, <1>2, StepHelps, StillTrue
<1>6. ScanInv(r)'
  BY <1>5 DEF ScanInv
<1>7. WorkInv(r)'
  <2>1. CASE to = "told"
    BY <1>5, <2>1 DEF WorkInv
  <2>2. CASE to # "told"
    BY <1>5, <2>2 DEF WorkInv
  <2> QED
    BY <2>1, <2>2
<1> QED
  BY <1>2, <1>3, <1>4, <1>6, <1>7, StillTrue, OnlyMine

\* Rows inserted for shifts that have none: the others stay as they are.
LEMMA InsertHelps ==
    ASSUME IInv, NEW T \in SUBSET Shifts, T \cap Entered = {},
           NEW source \in {"checked_in", "manager_attested"},
           entry' = [s \in Shifts |-> IF s \in T THEN New(source) ELSE entry[s]],
           UNCHANGED <<arrivals, log>>
    PROVE  /\ entry' \in [Shifts -> Entry \cup {NoEntry}] /\ Entered' = Entered \cup T
           /\ Grown /\ \A s \in Entered : entry'[s] = entry[s]
           /\ FirstScanKeepsTheNumber' /\ LogAgreesWithStamps'
<1>1. New(source) \in Entry /\ New(source) # NoEntry /\ New(source).file \notin Exports
  <2>1. New(source) \in Entry
    BY DEF New, Entry
  <2>2. New(source).file = NoFile
    BY DEF New
  <2> QED
    BY <2>1, <2>2, PayrollAssumption
<1> HIDE DEF New
<1>2. entry \in [Shifts -> Entry \cup {NoEntry}] /\ Len(arrivals) \in Nat
  BY DEF IInv, TypeOK
<1>3. entry' \in [Shifts -> Entry \cup {NoEntry}]
  BY <1>1, <1>2
<1>4. /\ Entered' = Entered \cup T
      /\ \A s \in Entered : entry'[s] = entry[s]
      /\ \A s \in T : entry'[s] = New(source)
  BY <1>1 DEF Entered
<1>5. Grown
  BY <1>2, <1>4 DEF Grown
<1>6. FirstScanKeepsTheNumber'
  BY DEF IInv, FirstScanKeepsTheNumber
<1>7. LogAgreesWithStamps'
  <2> SUFFICES ASSUME NEW x \in Exports
               PROVE  LET stamped == {s \in Entered' : entry'[s].file = x} IN
                      /\ log[x] = NoFile => stamped = {}
                      /\ log[x] # NoFile =>
                            /\ stamped \subseteq log[x].rows
                            /\ log[x].rows \subseteq {s \in Entered' : entry'[s].approved}
                      /\ log[x] # NoFile /\ ~log[x].again => stamped = log[x].rows
    BY DEF LogAgreesWithStamps, Plain
  <2>1. {s \in Entered' : entry'[s].file = x} = {s \in Entered : entry[s].file = x}
    BY <1>1, <1>4
  <2>2. {s \in Entered : entry[s].approved} \subseteq {s \in Entered' : entry'[s].approved}
    BY <1>4
  <2> QED
    BY <2>1, <2>2 DEF IInv, LogAgreesWithStamps, Plain
<1> QED
  BY <1>3, <1>4, <1>5, <1>6, <1>7

-----------------------------------------------------------------------------
(* derive_time_entries *)

\* It begins.
LEMMA DeriveKeeps ==
    ASSUME IInv, NEW r \in Requests, NEW range \in Ranges, Derive(r, range)
    PROVE  IInv'
BY PayrollAssumption, BeginKeeps DEF Derive

\* It reads the rows that exist: they stay.
LEMMA ReadEntriesKeeps ==
    ASSUME IInv, NEW r \in Requests, ReadEntries(r)
    PROVE  IInv'
<1>1. Entered \cap work[r].range \in SUBSET Shifts
  BY DEF Entered
<1> QED
  BY <1>1, StepKeeps DEF ReadEntries

\* It reads the arrivals: it will insert no row it has read.
LEMMA ReadArrivalsKeeps ==
    ASSUME IInv, NEW r \in Requests, ReadArrivals(r)
    PROVE  IInv'
<1>1. /\ work[r].have \in SUBSET Shifts
      /\ (Scanned \cap work[r].range) \ work[r].have \in SUBSET Shifts
  BY DEF IInv, TypeOK, Work, Scanned
<1>2. work[r].have \subseteq Entered
  BY DEF IInv, WorkInv, ReadArrivals
<1> QED
  BY <1>1, <1>2, StepKeeps DEF ReadArrivals

\* It inserts them all.
LEMMA InsertAllKeeps ==
    ASSUME IInv, NEW r \in Requests, InsertAll(r)
    PROVE  IInv'
<1> DEFINE have == work[r].have
           todo == work[r].todo
<1>1. TypeOK /\ have \in SUBSET Shifts /\ todo \in SUBSET Shifts /\ "told" \in Places
  BY DEF IInv, TypeOK, Work, Places
<1>2. have \subseteq Entered /\ have \cap todo = {}
  BY DEF IInv, WorkInv, InsertAll
<1>3. /\ todo \cap Entered = {} /\ Step(r, "told", have, todo)
      /\ entry' = [s \in Shifts |-> IF s \in todo THEN New("checked_in") ELSE entry[s]]
  BY DEF InsertAll
<1> HIDE DEF have, todo
<1>4. /\ UNCHANGED <<arrivals, log, owner, scan>>
      /\ at' \in [Requests -> Places] /\ work' \in [Requests -> Work]
      /\ at'[r] = "told" /\ work'[r].have = have /\ work'[r].todo = todo
      /\ \A q \in Requests \ {r} : at'[q] = at[q] /\ work'[q] = work[q]
  <2> SUFFICES Step(r, "told", have, todo)
    BY <1>1, StepHelps
  <2> QED
    BY <1>3
<1>5. /\ entry' \in [Shifts -> Entry \cup {NoEntry}] /\ Entered' = Entered \cup todo
      /\ Grown /\ \A s \in Entered : entry'[s] = entry[s]
      /\ FirstScanKeepsTheNumber' /\ LogAgreesWithStamps'
  BY <1>1, <1>3, <1>4, InsertHelps
<1>6. TypeOK'
  BY <1>1, <1>4, <1>5 DEF TypeOK
<1>7. StepOf(r)
  BY <1>4, <1>5 DEF StepOf
<1>8. ScanInv(r)' /\ WorkInv(r)'
  BY <1>2, <1>4, <1>5 DEF ScanInv, WorkInv
<1> QED
  BY <1>5, <1>6, <1>7, <1>8, OnlyMine

\* It has lost, and has nothing.
LEMMA ConflictKeeps ==
    ASSUME IInv, NEW r \in Requests, Conflict(r)
    PROVE  IInv'
<1>1. TypeOK /\ work[r] \in Work
  BY DEF IInv, TypeOK
<1>2. PICK to \in {"requery", "derive"} : at' = [at EXCEPT ![r] = to]
  BY DEF Conflict, Goto
<1>3. /\ work' = [work EXCEPT ![r].have = {}, ![r].todo = {}, ![r].again = TRUE]
      /\ Still /\ UNCHANGED <<owner, scan>>
  BY DEF Conflict, Still
<1>4. work'[r] \in Work /\ \A q \in Requests \ {r} : work'[q] = work[q]
  BY <1>1, <1>3 DEF Work, TypeOK
<1>5. TypeOK' /\ at'[r] = to
  BY <1>1, <1>2, <1>3, <1>4 DEF TypeOK, Places, Still
<1>6. StepOf(r)
  BY <1>1, <1>2, <1>3, <1>4, StillTrue DEF StepOf, Still, TypeOK
<1>7. ScanInv(r)' /\ WorkInv(r)'
  BY <1>5 DEF ScanInv, WorkInv
<1> QED
  BY <1>3, <1>5, <1>6, <1>7, StillTrue, OnlyMine

\* It looks at what is there.
LEMMA RequeryKeeps ==
    ASSUME IInv, NEW r \in Requests, Requery(r)
    PROVE  IInv'
<1>1. Entered \cap work[r].range \in SUBSET Shifts
  BY DEF Entered
<1> QED
  BY <1>1, StepKeeps DEF Requery

\* Any step of it.
LEMMA DeriveNextKeeps ==
    ASSUME IInv, NEW r \in Requests, DeriveNext(r)
    PROVE  IInv'
<1>1. ASSUME Told(r) PROVE IInv'
  BY <1>1, EndKeeps DEF Told, Still
<1> QED
  BY <1>1, DeriveKeeps, ReadEntriesKeeps, ReadArrivalsKeeps, InsertAllKeeps,
     ConflictKeeps, RequeryKeeps DEF DeriveNext

-----------------------------------------------------------------------------
(* attest_shift *)

\* Its one row is inserted.
LEMMA InsertAttestedKeeps ==
    ASSUME IInv, NEW r \in Requests, InsertAttested(r)
    PROVE  IInv'
<1> DEFINE todo == work[r].todo
<1>1. TypeOK /\ todo \in SUBSET Shifts
  BY DEF IInv, TypeOK, Work
<1>2. /\ todo \cap Entered = {} /\ End(r) /\ UNCHANGED <<arrivals, log>>
      /\ entry' = [s \in Shifts |-> IF s \in todo THEN New("manager_attested") ELSE entry[s]]
  BY DEF InsertAttested
<1> HIDE DEF todo
<1>3. /\ entry' \in [Shifts -> Entry \cup {NoEntry}] /\ Grown
      /\ \A s \in Entered : entry'[s] = entry[s]
      /\ FirstScanKeepsTheNumber' /\ LogAgreesWithStamps'
  BY <1>1, <1>2, InsertHelps
<1>4. TypeOK'
  BY <1>1, <1>2, <1>3, EndHelps DEF TypeOK
<1>5. StepOf(r)
  BY <1>1, <1>2, <1>3, EndHelps DEF StepOf
<1>6. ScanInv(r)' /\ WorkInv(r)'
  BY <1>1, <1>2, EndHelps DEF ScanInv, WorkInv
<1> QED
  BY <1>3, <1>4, <1>5, <1>6, OnlyMine

\* Any step of it.
LEMMA AttestNextKeeps ==
    ASSUME IInv, NEW r \in Requests, AttestNext(r)
    PROVE  IInv'
<1>1. ASSUME NEW s \in Shifts, Attest(r, s) PROVE IInv'
  <2>1. {s} \in SUBSET Shifts /\ {} \in SUBSET Shifts
    OBVIOUS
  <2> QED
    BY <1>1, <2>1, BeginKeeps DEF Attest
<1>2. ASSUME CheckScan(r) PROVE IInv'
  <2>1. work[r].todo \in SUBSET Shifts /\ {} \in SUBSET Shifts
    BY DEF IInv, TypeOK, Work
  <2> QED
    BY <1>2, <2>1, StepKeeps DEF CheckScan
<1>3. ASSUME Refuse(r) PROVE IInv'
  BY <1>3, EndKeeps DEF Refuse, Still
<1> QED
  BY <1>1, <1>2, <1>3, InsertAttestedKeeps DEF AttestNext

-----------------------------------------------------------------------------
(* approve_entries and export_approved *)

\* A request that takes a row owns it and what it took before.
LEMMA TakeKeeps ==
    ASSUME IInv, NEW r \in Requests, NEW s \in Shifts, Take(r, s), Still,
           UNCHANGED <<at, scan>>,
           \/ at[r] = "approve" /\ s \in Entered
           \/ at[r] = "export" /\ Sendable(s, work[r].again)
    PROVE  IInv'
<1>1. TypeOK /\ work[r] \in Work
  BY DEF IInv, TypeOK
<1>2. /\ owner[s] = NoOne /\ owner' = [owner EXCEPT ![s] = r]
      /\ work' = [work EXCEPT ![r].todo = work[r].todo \ {s},
                              ![r].have = work[r].have \cup {s}]
  BY DEF Take
<1>3. /\ work'[r] \in Work /\ work'[r].todo = work[r].todo \ {s}
      /\ work'[r].have = work[r].have \cup {s} /\ work'[r].again = work[r].again
      /\ \A q \in Requests \ {r} : work'[q] = work[q]
  BY <1>1, <1>2 DEF Work, TypeOK
<1>4. /\ owner'[s] = r /\ \A t \in Shifts \ {s} : owner'[t] = owner[t]
      /\ owner' \in [Shifts -> Requests \cup {NoOne}]
  BY <1>1, <1>2 DEF TypeOK
<1>5. TypeOK'
  BY <1>1, <1>2, <1>3, <1>4 DEF TypeOK, Still
<1>6. StepOf(r)
  <2>1. Grown /\ entry' = entry
    BY StillTrue DEF Still
  <2>2. \A q \in Requests : q # NoOne
    BY PayrollAssumption
  <2> QED
    BY <1>2, <1>3, <1>4, <2>1, <2>2 DEF StepOf
<1>7. WorkInv(r)'
  <2>1. work[r].have \subseteq Shifts /\ work[r].todo \subseteq Shifts
    BY <1>1 DEF Work
  <2>2. CASE at[r] = "approve"
    BY <1>3, <1>4, <2>1, <2>2, StillTrue DEF IInv, WorkInv, Sendable
  <2>3. CASE at[r] = "export"
    BY <1>3, <1>4, <2>1, <2>3 DEF IInv, WorkInv, Sendable, Still
  <2> QED
    BY <2>2, <2>3
<1>8. ScanInv(r)'
  BY DEF ScanInv
<1> QED
  BY <1>5, <1>6, <1>7, <1>8, StillTrue, OnlyMine

\* The approval is committed: the rows are its own.
LEMMA CommitApproveKeeps ==
    ASSUME IInv, NEW r \in Requests, CommitApprove(r)
    PROVE  IInv'
<1> DEFINE have == work[r].have
<1>1. TypeOK /\ Len(arrivals) \in Nat
  BY DEF IInv, TypeOK
<1>2. have \subseteq Entered
  BY DEF IInv, WorkInv, CommitApprove
<1>3. /\ End(r) /\ UNCHANGED <<arrivals, log>>
      /\ entry' = [s \in Shifts |-> IF s \in have THEN [entry[s] EXCEPT !.approved = TRUE]
                                    ELSE entry[s]]
  BY DEF CommitApprove
<1> HIDE DEF have
<1>4. \A s \in Entered : s \in Shifts /\ entry[s] \in Entry
  BY <1>1 DEF Entered, TypeOK
<1>5. ASSUME NEW s \in Shifts
      PROVE  /\ entry'[s] \in Entry \cup {NoEntry}
             /\ entry[s] # NoEntry <=> entry'[s] # NoEntry
             /\ s \in Entered => /\ entry[s].approved => entry'[s].approved
                                 /\ entry'[s].file = entry[s].file
  <2>1. CASE s \in have
    <3>1. entry[s] \in Entry /\ entry[s] # NoEntry /\ s \in Entered
      BY <1>2, <1>4, <2>1 DEF Entered
    <3>2. entry'[s] = [entry[s] EXCEPT !.approved = TRUE]
      BY <1>3, <2>1
    <3>3. /\ entry'[s] \in Entry /\ entry'[s].approved = TRUE
          /\ entry'[s].file = entry[s].file
      BY <3>1, <3>2 DEF Entry
    <3> QED
      BY <3>1, <3>3, PayrollAssumption
  <2>2. CASE s \notin have
    BY <1>1, <1>3, <2>2 DEF TypeOK
  <2> QED
    BY <2>1, <2>2
<1>6. entry' \in [Shifts -> Entry \cup {NoEntry}] /\ Entered' = Entered
  BY <1>3, <1>5 DEF Entered
<1>7. Grown
  BY <1>1, <1>3, <1>4, <1>5, <1>6 DEF Grown
<1>8. TypeOK'
  BY <1>1, <1>3, <1>6, EndHelps DEF TypeOK
<1>9. StepOf(r)
  BY <1>1, <1>3, <1>5, <1>7, EndHelps DEF StepOf
<1>10. ScanInv(r)' /\ WorkInv(r)'
  BY <1>1, <1>3, EndHelps DEF ScanInv, WorkInv
<1>11. FirstScanKeepsTheNumber'
  BY <1>3 DEF IInv, FirstScanKeepsTheNumber
<1>12. LogAgreesWithStamps'
  <2>1. \A x \in Exports :
           {s \in Entered' : entry'[s].file = x} = {s \in Entered : entry[s].file = x}
    BY <1>4, <1>5, <1>6
  <2>2. {s \in Entered : entry[s].approved} \subseteq {s \in Entered' : entry'[s].approved}
    BY <1>4, <1>5, <1>6
  <2> QED
    BY <1>3, <2>1, <2>2 DEF IInv, LogAgreesWithStamps, Plain
<1> QED
  BY <1>8, <1>9, <1>10, <1>11, <1>12, OnlyMine

\* Any step of an approval.
LEMMA ApproveNextKeeps ==
    ASSUME IInv, NEW r \in Requests, ApproveNext(r)
    PROVE  IInv'
<1>1. ASSUME NEW S \in SUBSET Shifts, Approve(r, S) PROVE IInv'
  <2>1. /\ {s \in S : ~entry[s].approved} \in SUBSET Shifts /\ {} \in SUBSET Shifts
        /\ {s \in S : ~entry[s].approved} \subseteq Entered
    BY <1>1 DEF Approve
  <2> QED
    BY <1>1, <2>1, BeginKeeps DEF Approve
<1>2. ASSUME NEW s \in Shifts, Update(r, s) PROVE IInv'
  <2>1. s \in Entered
    BY <1>2 DEF Update, Foremost, IInv, WorkInv
  <2> QED
    BY <1>2, <2>1, TakeKeeps DEF Update, Still
<1> QED
  BY <1>1, <1>2, CommitApproveKeeps DEF ApproveNext

\* A row that is not sendable any more is left out.
LEMMA SkipRowKeeps ==
    ASSUME IInv, NEW r \in Requests, NEW s \in Shifts, SkipRow(r, s)
    PROVE  IInv'
<1>1. TypeOK /\ work[r] \in Work
  BY DEF IInv, TypeOK
<1>2. work' = [work EXCEPT ![r].todo = work[r].todo \ {s}]
  BY DEF SkipRow
<1>3. /\ work'[r] \in Work /\ work'[r].have = work[r].have /\ work'[r].again = work[r].again
      /\ \A q \in Requests \ {r} : work'[q] = work[q]
  BY <1>1, <1>2 DEF Work, TypeOK
<1>4. Still /\ at[r] = "export" /\ UNCHANGED <<at, owner, scan>>
  BY DEF SkipRow, Still
<1>5. TypeOK'
  BY <1>1, <1>2, <1>3, <1>4 DEF TypeOK, Still
<1>6. StepOf(r)
  BY <1>3, <1>4, StillTrue DEF StepOf, Still
<1>7. ScanInv(r)' /\ WorkInv(r)'
  BY <1>3, <1>4 DEF IInv, ScanInv, WorkInv, Sendable, Still
<1> QED
  BY <1>4, <1>5, <1>6, <1>7, StillTrue, OnlyMine

\* The file is made of rows the export owns: nobody has stamped them since it
\* found them sendable.
LEMMA CommitExportKeeps ==
    ASSUME IInv, NEW r \in Requests, NEW x \in Exports, CommitExport(r, x)
    PROVE  IInv'
<1> DEFINE have == work[r].have
           file == [rows |-> have, again |-> work[r].again]
           fresh == {s \in have : entry[s].file = NoFile}
<1>1. TypeOK /\ Len(arrivals) \in Nat /\ work[r] \in Work /\ have \subseteq Shifts
  BY DEF IInv, TypeOK, Work
<1>2. /\ at[r] = "export" /\ log[x] = NoFile /\ End(r) /\ arrivals' = arrivals
      /\ log' = [log EXCEPT ![x] = file]
      /\ entry' = [s \in Shifts |-> IF s \in fresh THEN [entry[s] EXCEPT !.file = x]
                                    ELSE entry[s]]
  BY DEF CommitExport
<1>3. file \in File /\ file # NoFile /\ file.rows = have /\ file.again = work[r].again
  BY <1>1, PayrollAssumption DEF File, Work
<1>4. \A s \in have : owner[s] = r /\ Sendable(s, file.again)
  BY <1>2, <1>3 DEF IInv, WorkInv
<1> HIDE DEF file, have
<1>5. \A s \in Entered : s \in Shifts /\ entry[s] \in Entry
  BY <1>1 DEF Entered, TypeOK
<1>6. have \subseteq Entered
  BY <1>1, <1>4 DEF Sendable, Entered
<1>7. ASSUME NEW s \in Shifts
      PROVE  /\ entry'[s] \in Entry \cup {NoEntry}
             /\ entry[s] # NoEntry <=> entry'[s] # NoEntry
             /\ s \in Entered =>
                  /\ entry'[s].approved = entry[s].approved
                  /\ entry'[s].file = IF s \in fresh THEN x ELSE entry[s].file
  <2>1. CASE s \in fresh
    BY <1>2, <1>5, <1>6, <2>1, PayrollAssumption DEF Entered, Entry
  <2>2. CASE s \notin fresh
    BY <1>1, <1>2, <2>2 DEF TypeOK
  <2> QED
    BY <2>1, <2>2
<1>8. entry' \in [Shifts -> Entry \cup {NoEntry}] /\ Entered' = Entered
  BY <1>2, <1>7 DEF Entered
<1>9. Grown
  BY <1>1, <1>2, <1>5, <1>7, <1>8 DEF Grown
<1>10. TypeOK'
  BY <1>1, <1>2, <1>3, <1>8, EndHelps DEF TypeOK
<1>11. StepOf(r)
  <2>1. \A q \in Requests \ {r}, s \in Shifts :
           owner[s] = q /\ s \in Entered => entry'[s].file = entry[s].file
    BY <1>4, <1>7
  <2> QED
    BY <1>1, <1>2, <1>9, <2>1, EndHelps DEF StepOf
<1>12. ScanInv(r)' /\ WorkInv(r)'
  BY <1>1, <1>2, EndHelps DEF ScanInv, WorkInv
<1>13. FirstScanKeepsTheNumber'
  BY <1>2 DEF IInv, FirstScanKeepsTheNumber
<1>14. LogAgreesWithStamps'
  <2>1. {s \in Entered' : entry'[s].approved} = {s \in Entered : entry[s].approved}
    BY <1>5, <1>7, <1>8
  <2>2. \A y \in Exports \ {x} : log'[y] = log[y] /\
           {s \in Entered' : entry'[s].file = y} = {s \in Entered : entry[s].file = y}
    BY <1>1, <1>2, <1>5, <1>7, <1>8, PayrollAssumption DEF TypeOK
  <2>3. {s \in Entered : entry[s].file = x} = {}
    BY <1>2 DEF IInv, LogAgreesWithStamps
  <2>4. {s \in Entered' : entry'[s].file = x} = fresh
    BY <1>5, <1>6, <1>7, <1>8, <2>3
  <2>5. log'[x] = file
    BY <1>1, <1>2 DEF TypeOK
  <2>6. have \subseteq {s \in Entered : entry[s].approved}
    BY <1>4, <1>6 DEF Sendable
  <2>7. ~file.again => fresh = have
    BY <1>4 DEF Sendable
  <2>8. fresh \subseteq have
    OBVIOUS
  <2> HIDE DEF fresh
  <2> QED
    BY <1>3, <2>1, <2>2, <2>4, <2>5, <2>6, <2>7, <2>8 DEF IInv, LogAgreesWithStamps, Plain
<1> QED
  BY <1>10, <1>11, <1>12, <1>13, <1>14, OnlyMine

\* Any step of an export.
LEMMA ExportNextKeeps ==
    ASSUME IInv, NEW r \in Requests, ExportNext(r)
    PROVE  IInv'
<1>1. ASSUME NEW range \in Ranges, NEW again \in BOOLEAN, Export(r, range, again)
      PROVE  IInv'
  <2>1. {s \in range : Sendable(s, again)} \in SUBSET Shifts /\ {} \in SUBSET Shifts
    BY PayrollAssumption
  <2> QED
    BY <1>1, <2>1, BeginKeeps DEF Export
<1>2. ASSUME NEW s \in Shifts, LockRow(r, s) PROVE IInv'
  BY <1>2, TakeKeeps DEF LockRow, Still
<1>3. ASSUME NothingToExport(r) PROVE IInv'
  BY <1>3, EndKeeps DEF NothingToExport, Still
<1> QED
  BY <1>1, <1>2, <1>3, SkipRowKeeps, CommitExportKeeps DEF ExportNext

-----------------------------------------------------------------------------
(* The theorems *)

\* Every step keeps the invariant.
LEMMA NextKeeps == IInv /\ [Next]_vars => IInv'
<1> SUFFICES ASSUME IInv, [Next]_vars PROVE IInv'
  OBVIOUS
<1>1. ASSUME NEW r \in Requests, ScanNext(r) PROVE IInv'
  BY <1>1, CountKeeps, LookBackKeeps, AdmitKeeps, CodeUsedKeeps DEF ScanNext
<1>2. ASSUME NEW r \in Requests, Crash(r) PROVE IInv'
  BY <1>2, EndKeeps DEF Crash, Still
<1>3. CASE UNCHANGED vars
  BY <1>3 DEF vars, IInv, TypeOK, FirstScanKeepsTheNumber, LogAgreesWithStamps, Plain,
              Entered, ScanInv, WorkInv, Sendable
<1> QED
  BY <1>1, <1>2, <1>3, DeriveNextKeeps, AttestNextKeeps, ApproveNextKeeps,
     ExportNextKeeps DEF Next

\* The invariant is one of the specification.
THEOREM Invariance == Spec => []IInv
BY InitHolds, NextKeeps, PTL DEF Spec

\* Types, and the bound on scans.
THEOREM TypeCorrect == Spec => []TypeOK
<1>1. IInv => TypeOK
  BY DEF IInv
<1> QED
  BY <1>1, Invariance, PTL

\* However scans interleave, of an employee's the earliest counts, and it alone
\* (record_check_in).
THEOREM EarliestScanCounts == Spec => []FirstScanKeepsTheNumber
<1>1. IInv => FirstScanKeepsTheNumber
  BY DEF IInv
<1> QED
  BY <1>1, Invariance, PTL

\* What derive reports is in the database (derive_time_entries).
THEOREM ReportsAreTrue == Spec => []ReportedRowsExist
<1>1. IInv => ReportedRowsExist
  BY DEF IInv, WorkInv, ReportedRowsExist
<1> QED
  BY <1>1, Invariance, PTL

\* The audit rows and the stamps agree (export_approved).
THEOREM AuditAgrees == Spec => []LogAgreesWithStamps
<1>1. IInv => LogAgreesWithStamps
  BY DEF IInv
<1> QED
  BY <1>1, Invariance, PTL

\* A row has one stamp, and a plain file's rows are those with its stamp: no two
\* of them have one in common (export_approved).
THEOREM PaidOnce == Spec => []NoHoursSentTwice
<1>1. IInv => NoHoursSentTwice
  <2> SUFFICES ASSUME IInv, NEW x \in Exports, NEW y \in Exports,
                      Plain(x), Plain(y), x # y
               PROVE  log[x].rows \cap log[y].rows = {}
    BY DEF NoHoursSentTwice
  <2>1. \A z \in {x, y} : log[z].rows = {s \in Entered : entry[s].file = z}
    BY DEF IInv, LogAgreesWithStamps
  <2> QED
    BY <2>1
<1> QED
  BY <1>1, Invariance, PTL
=============================================================================
