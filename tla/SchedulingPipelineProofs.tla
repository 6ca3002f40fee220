----------------------- MODULE SchedulingPipelineProofs -----------------------
(***************************************************************************)
(* Proofs about the scheduling graph, for any company: the types; that     *)
(* nobody is emitted at two locations at once; that a frequency cap holds  *)
(* over all the locations of a run; that two who are to be kept apart      *)
(* share no hours; and that what is emitted keeps the minimum rest.        *)
(*                                                                         *)
(* The invariant follows a shift from the check to the result.  What is in *)
(* valid was compared with the draft and with the rest of valid; until the *)
(* location commits, the draft does not change; and what is emitted was    *)
(* committed, unless a first conflict is waved through - which the graph   *)
(* of the model sends back, and which the local graph cannot meet as long  *)
(* as the locations share a clock, for its shifts lie in windows that what *)
(* earlier locations took was taken out of.                                *)
(***************************************************************************)
EXTENDS SchedulingPipeline, FiniteSetTheorems, SequenceTheorems, TLAPS

\* Where the run is, and which of its fields can be filled there.
PlaceInv ==
    /\ pc \in {"ask", "assign", "check", "route"} => here \in left
    /\ pc = "ask" => path = "llm" /\ asked < MaxAnswers
    /\ pc = "assign" => path = "local" /\ valid = {}
    /\ pc \in {"ask", "assign", "check"} => clashed = {}

\* A location's own windows hold nothing of what its staff have elsewhere.
FreeInv ==
    path = "local" /\ Reconciled /\ pc \in {"assign", "check"} =>
        \A d \in draft : d.who \in Staff[here] => Hours(d) \cap free[d.who] = {}

\* Nobody in S is with somebody they are kept apart from.
Friendly(S) ==
    \A s, t \in S :
        s # t /\ s.at = t.at /\ Day(s) = Day(t) /\ Overlap(s, t) => <<s.who, t.who>> \notin Apart

\* The shifts of S leave their location's rest to those of T.
RestedTo(S, T) ==
    \A s \in S, t \in T :
        s.who = t.who /\ Day(s) # Day(t) /\ MinRest[s.at] # 0 => Rested(s, t, MinRest[s.at])

Mine == {s \in Shift : s.at = here}

\* What the check has found legal so far.
ValidInv ==
    /\ pc \in {"assign", "check"} => answer \in Seq(Mine)
    /\ pc = "check" =>
          /\ valid \subseteq Mine /\ IsFiniteSet(valid)
          /\ \A s \in valid : s.who \in Staff[here] /\ Hours(s) \subseteq free[s.who]
          /\ Friendly(valid)
          /\ RestedTo(valid, valid \cup draft)

\* What the location will emit is committed, but for a first conflict.
KeptInv ==
    pc = "route" =>
        /\ kept \subseteq Mine /\ Friendly(kept)
        /\ Reconciled /\ ~WantsRetry => kept \subseteq draft /\ RestedTo(kept, draft)

\* Nobody is committed at two locations at once, nor above a cap.
DraftInv ==
    /\ IsFiniteSet(draft)
    /\ \A s, t \in draft : s.who = t.who /\ s.at # t.at => ~Overlap(s, t)
    /\ \A e \in Employees : Cardinality(Counted(e, draft)) <= MaxPerWeek[e]

\* The hours that Worked counts.
Spent(e, S) == UNION {{s} \X Hours(s) : s \in Of(e, S)}

\* What is committed, and what was found legal beside it, is within the week's hours.
HoursInv ==
    \A e \in Employees :
        /\ IsFiniteSet(Spent(e, draft)) /\ Worked(e, draft) <= MaxHours[e]
        /\ pc = "check" =>
              /\ IsFiniteSet(Spent(e, valid))
              /\ Worked(e, draft) + Worked(e, valid) <= MaxHours[e]

\* What is emitted was committed, by locations that are done.
EmitInv ==
    /\ \A s \in emitted : s.at \notin left
    /\ Reconciled => emitted \subseteq draft
    /\ Friendly(emitted)

\* What is left to do: locations, answers that may still come, the node, and how far it
\* has to walk.
PlacesLeft  == 2 * Cardinality(left) + (IF pc = "load" THEN 1 ELSE 0)
AnswersLeft == MaxAnswers - asked
NodesLeft   == CASE pc = "assign" -> 4 [] pc = "check" -> 3 [] pc = "route" -> 2
                 [] pc = "ask" -> 1 [] OTHER -> 0
ItemsLeft   == CASE pc = "assign" -> Len(Template[here]) + 1 - seat [] pc = "check" -> Len(answer)
                 [] OTHER -> 0
Remaining   == <<PlacesLeft, AnswersLeft, NodesLeft, ItemsLeft>>

\* Of two such counts, the first that differs is lower in m.
Before(m, n) ==
    \E j \in 1..4 : m[j] < n[j] /\ \A i \in 1..(j - 1) : m[i] = n[i]

Counts  == [1..4 -> Nat]
Descent == {p \in Counts \X Counts : Before(p[1], p[2])}
CountsDown == <<Remaining', Remaining>> \in Descent

\* A run that is not over can go on: a commit always finds a way to trim.
CanGoOn ==
    \/ pc = "load" /\ left # {}
    \/ pc \in {"ask", "assign"}
    \/ pc = "check" /\ answer # <<>>
    \/ pc = "check" /\ Conflicts # {} /\ retries = 0
    \/ /\ pc = "check" /\ (Conflicts = {} \/ retries = 1)
       /\ \E K \in SUBSET (valid \ Conflicts) : Trimmed(valid \ Conflicts, K)
    \/ pc = "route" /\ (WantsRetry => asked <= MaxAnswers)

\* It is over when all locations have a result, or the model was asked too often.
Over ==
    \/ pc = "overrun" /\ path = "llm"
    \/ pc = "done" /\ \A l \in Locations : outcome[l] # "none"

\* Locations without a result are those still to do, until there are none.
LeftInv ==
    /\ \A l \in Locations : l \in left <=> outcome[l] = "none"
    /\ pc = "done" <=> left = {}
    /\ pc = "overrun" => path = "llm"
    /\ pc = "assign" => seat <= Len(Template[here]) + 1

IInv ==
    /\ TypeOK /\ PlaceInv /\ FreeInv /\ ValidInv /\ KeptInv /\ DraftInv /\ HoursInv /\ EmitInv
    /\ LeftInv

-----------------------------------------------------------------------------
(* Types *)

\* What a shift is made of, and where it lies in time.
LEMMA ShiftTypes ==
    ASSUME TypeOK, NEW s \in Shift
    PROVE  /\ s.who \in Employees /\ s.at \in Locations /\ s.span \in Spans
           /\ Start(s) \in Nat /\ End(s) \in Nat /\ Start(s) < End(s)
           /\ MinRest[s.at] \in Nat
<1>1. s.who \in Employees /\ s.at \in Locations /\ s.span \in Spans
  BY DEF Shift
<1>2. s.span[1] \in Nat /\ s.span[2] \in Nat /\ s.span[1] < s.span[2]
  BY <1>1, PipelineAssumption
<1>3. zone[s.at] \in Nat
  BY <1>1, PipelineAssumption DEF TypeOK
<1>4. MinRest[s.at] \in Nat
  BY <1>1, PipelineAssumption
<1>5. Start(s) \in Nat /\ End(s) \in Nat /\ Start(s) < End(s)
  BY <1>2, <1>3 DEF Start, End
<1> QED BY <1>1, <1>4, <1>5

\* Nothing moves the locations to another zone or the run to another graph.
LEMMA RunStays ==
    ASSUME [Next]_vars
    PROVE  zone' = zone /\ path' = path /\ (Reconciled' <=> Reconciled)
<1>1. zone' = zone /\ path' = path
  BY DEF Next, vars, Load, Ask, AskInVain, Answered, Assign, LeaveOpen, Walked, Check, Reconsider,
         Commit, AskAgain, Overrun, EmitResult
<1> QED BY <1>1 DEF Reconciled

\* The list shrinks from its head, and what is checked was proposed.
LEMMA NextOfList ==
    ASSUME NEW S, NEW a \in Seq(S), a # <<>>
    PROVE  Head(a) \in S /\ Tail(a) \in Seq(S)
BY HeadTailProperties

\* An answer of the model is a list of shifts at the location.
LEMMA AnswerTypes ==
    ASSUME NEW l, NEW a \in Answers(l)
    PROVE  a \in Seq({s \in Shift : s.at = l})
BY SeqDef, PipelineAssumption DEF Answers

\* Every step keeps the types.
LEMMA TypeStep ==
    ASSUME TypeOK, PlaceInv, [Next]_vars
    PROVE  TypeOK'
<1> USE DEF TypeOK
<1>1. ASSUME NEW l \in Locations, Load(l) PROVE TypeOK'
  <2>1. free' \in [Employees -> SUBSET Nat]
    BY <1>1 DEF Load
  <2>2. answer' \in Seq(Shift)
    BY <1>1, EmptySeq DEF Load
  <2>3. asked' \in 0..MaxAnswers
    BY <1>1, PipelineAssumption DEF Load
  <2>4. /\ pc' \in {"ask", "assign"} /\ here' = l
        /\ seat' = 1 /\ valid' = {} /\ clashed' = {} /\ kept' = {}
        /\ retries' = 0 /\ notes' \in BOOLEAN /\ failed' \in BOOLEAN
        /\ UNCHANGED <<path, zone, draft, left, emitted, outcome>>
    BY <1>1 DEF Load, results
  <2> QED BY <2>1, <2>2, <2>3, <2>4
<1>2. CASE Ask \/ AskInVain
  <2>1. asked < MaxAnswers /\ here \in Locations
    BY <1>2 DEF Ask, AskInVain, Answered, PlaceInv
  <2>2. answer' \in Seq(Shift)
    <3>1. CASE Ask
      <4>1. PICK a \in Answers(here) : Answered(a)
        BY <3>1 DEF Ask
      <4>2. a \in Seq({s \in Shift : s.at = here})
        BY AnswerTypes
      <4> QED BY <4>1, <4>2, SeqMonotonic DEF Answered
    <3>2. CASE AskInVain
      BY <3>2, EmptySeq DEF AskInVain, Answered
    <3> QED BY <1>2, <3>1, <3>2
  <2>3. asked' \in 0..MaxAnswers
    BY <1>2, <2>1, PipelineAssumption DEF Ask, AskInVain, Answered
  <2> QED BY <1>2, <2>2, <2>3 DEF Ask, AskInVain, Answered, results
<1>3. ASSUME NEW e \in Employees, Assign(e) PROVE TypeOK'
  <2>1. here \in Locations /\ Template[here] \in Seq(Spans)
    BY <1>3, PipelineAssumption DEF Assign, Seated, PlaceInv
  <2>2. Template[here][seat] \in Spans
    BY <1>3, <2>1, ElementOfSeq, LenProperties DEF Assign, Seated
  <2>3. At(e) \in Shift
    BY <2>1, <2>2 DEF At, Shift
  <2>4. answer' \in Seq(Shift)
    BY <1>3, <2>3, AppendProperties DEF Assign
  <2> QED BY <1>3, <2>4 DEF Assign, context, results
<1>4. CASE LeaveOpen
  BY <1>4 DEF LeaveOpen, context, results
<1>5. CASE Walked
  BY <1>5 DEF Walked, context, results, shifts
<1>6. CASE Check
  <2>1. Head(answer) \in Shift /\ Tail(answer) \in Seq(Shift)
    BY <1>6, NextOfList DEF Check
  <2> QED BY <1>6, <2>1 DEF Check, context, results
<1>7. CASE Reconsider
  BY <1>7 DEF Reconsider, results
<1>8. CASE Commit
  <2>1. Conflicts \subseteq valid /\ kept' \subseteq valid
    BY <1>8 DEF Commit, Conflicts
  <2> QED BY <1>8, <2>1 DEF Commit, context, results
<1>9. CASE AskAgain \/ Overrun
  BY <1>9 DEF AskAgain, Overrun, context, results, shifts
<1>10. CASE EmitResult
  BY <1>10 DEF EmitResult, context, shifts
<1>11. CASE UNCHANGED vars
  BY <1>11 DEF vars, context, results, shifts
<1> QED BY <1>1, <1>2, <1>3, <1>4, <1>5, <1>6, <1>7, <1>8, <1>9, <1>10, <1>11 DEF Next

-----------------------------------------------------------------------------
(* The location at hand *)

\* Every step keeps what is said of the node that is next.
LEMMA PlaceStep ==
    ASSUME TypeOK, PlaceInv, [Next]_vars
    PROVE  PlaceInv'
<1> USE DEF PlaceInv
<1>1. ASSUME NEW l \in Locations, Load(l) PROVE PlaceInv'
  <2>1. asked' < MaxAnswers
    BY <1>1, PipelineAssumption DEF Load
  <2>2. path' = path /\ path \in {"llm", "local"}
    BY <1>1 DEF Load, TypeOK
  <2>3. /\ pc' = IF path = "llm" THEN "ask" ELSE "assign"
        /\ here' = l /\ l \in left /\ left' = left
        /\ valid' = {} /\ clashed' = {}
    BY <1>1 DEF Load, results
  <2> QED BY <2>1, <2>2, <2>3
<1>2. CASE Ask \/ AskInVain
  BY <1>2 DEF Ask, AskInVain, Answered, results
<1>3. ASSUME NEW e \in Employees, Assign(e) PROVE PlaceInv'
  BY <1>3 DEF Assign, Seated, context, results
<1>4. CASE LeaveOpen \/ Walked
  BY <1>4 DEF LeaveOpen, Walked, Seated, context, shifts, results
<1>5. CASE Check
  BY <1>5 DEF Check, context, results
<1>6. CASE Reconsider \/ Commit
  BY <1>6 DEF Reconsider, Commit, context, results
<1>7. CASE AskAgain \/ Overrun
  <2>1. asked \in 0..MaxAnswers
    BY DEF TypeOK
  <2> QED BY <1>7, <2>1 DEF AskAgain, Overrun, WantsRetry, context, shifts, results
<1>8. CASE EmitResult
  BY <1>8 DEF EmitResult, context, shifts
<1>9. CASE UNCHANGED vars
  BY <1>9 DEF vars, context, shifts, results
<1> QED BY <1>1, <1>2, <1>3, <1>4, <1>5, <1>6, <1>7, <1>8, <1>9 DEF Next

\* The windows are cut when a location is loaded, and nothing is committed until it
\* has been checked.
LEMMA FreeStep ==
    ASSUME TypeOK, FreeInv, PlaceInv, [Next]_vars
    PROVE  FreeInv'
<1>1. ASSUME NEW l \in Locations, Load(l) PROVE FreeInv'
  <2> SUFFICES ASSUME NEW d \in draft, d.who \in Staff[l]
               PROVE  Hours(d) \cap free'[d.who] = {}
    BY <1>1 DEF FreeInv, Load
  <2>1. d.who \in Employees
    BY ShiftTypes DEF TypeOK
  <2>2. free'[d.who] = free[d.who] \ UNION {Hours(t) : t \in Of(d.who, draft)}
    BY <1>1, <2>1 DEF Load
  <2>3. d \in Of(d.who, draft)
    BY DEF Of
  <2> QED BY <2>2, <2>3
<1>2. CASE UNCHANGED <<here, free, draft>> /\ (pc' \in {"assign", "check"} => pc' = pc \/ pc \in {"ask", "assign"})
  BY <1>2, RunStays DEF FreeInv, PlaceInv
<1>3. CASE pc' \notin {"assign", "check"}
  BY <1>3 DEF FreeInv
<1>4. ASSUME Next, ~ \E l \in Locations : Load(l)
      PROVE  \/ pc' \notin {"assign", "check"}
             \/ /\ UNCHANGED <<here, free, draft>>
                /\ pc' \in {"assign", "check"} => pc' = pc \/ pc \in {"ask", "assign"}
  BY <1>4 DEF Next, Ask, AskInVain, Answered, Assign, Seated, LeaveOpen, Walked, Check,
              Reconsider, Commit, AskAgain, Overrun, EmitResult, context, shifts
<1>5. CASE UNCHANGED vars
  BY <1>5, <1>2 DEF vars, context
<1> QED BY <1>1, <1>2, <1>3, <1>4, <1>5

-----------------------------------------------------------------------------
(* What the check lets through *)

\* The rest between two shifts is the same seen from either.
LEMMA RestedSymmetric ==
    ASSUME TypeOK, NEW s \in Shift, NEW t \in Shift, NEW m \in Nat, Rested(s, t, m)
    PROVE  Rested(t, s, m)
<1>1. /\ Start(s) \in Nat /\ End(s) \in Nat /\ Start(s) < End(s)
      /\ Start(t) \in Nat /\ End(t) \in Nat /\ Start(t) < End(t)
  BY ShiftTypes
<1> QED BY <1>1 DEF Rested

\* The rules about shifts do not change while a run goes on.
LEMMA RulesStay ==
    ASSUME [Next]_vars
    PROVE  /\ \A S : Friendly(S)' <=> Friendly(S)
           /\ \A S, T : RestedTo(S, T)' <=> RestedTo(S, T)
<1>1. zone' = zone
  BY RunStays
<1> QED BY <1>1 DEF Friendly, RestedTo, Overlap, Rested, Start, End

\* A legal shift may join the ones found legal before it.
LEMMA LegalJoins ==
    ASSUME TypeOK, NEW s \in Mine, Legal(s), valid \subseteq Mine,
           Friendly(valid), RestedTo(valid, valid \cup draft)
    PROVE  Friendly(valid \cup {s}) /\ RestedTo(valid \cup {s}, valid \cup {s} \cup draft)
<1>1. s \in Shift /\ s.at = here /\ \A t \in valid : t \in Shift /\ t.at = here
  BY DEF Mine
<1>2. Friendly(valid \cup {s})
  <2> SUFFICES ASSUME NEW x \in valid \cup {s}, NEW y \in valid \cup {s}, x # y, x.at = y.at,
                      Day(x) = Day(y), Overlap(x, y)
               PROVE  <<x.who, y.who>> \notin Apart
    BY DEF Friendly
  <2>1. CASE x \in valid /\ y \in valid
    BY <2>1 DEF Friendly
  <2>2. CASE x = s /\ y \in valid
    BY <2>2 DEF Legal, Compatible
  <2>3. CASE x \in valid /\ y = s
    <3>1. Overlap(s, x)
      BY <2>3 DEF Overlap
    <3> QED BY <2>3, <3>1 DEF Legal, Compatible
  <2> QED BY <2>1, <2>2, <2>3
<1>3. RestedTo(valid \cup {s}, valid \cup {s} \cup draft)
  <2> SUFFICES ASSUME NEW x \in valid \cup {s}, NEW y \in valid \cup {s} \cup draft, x.who = y.who,
                      Day(x) # Day(y), MinRest[x.at] # 0
               PROVE  Rested(x, y, MinRest[x.at])
    BY DEF RestedTo
  <2>1. CASE x \in valid /\ y # s
    BY <2>1 DEF RestedTo
  <2>2. CASE x = s /\ y # s
    <3>1. y \in Of(s.who, draft \cup valid)
      BY <2>2 DEF Of
    <3> QED BY <2>2, <3>1 DEF Legal, RestKept
  <2>3. CASE x \in valid /\ y = s
    <3>1. x \in Of(s.who, draft \cup valid) /\ s.at = x.at
      BY <1>1, <2>3 DEF Of
    <3>2. Rested(s, x, MinRest[x.at])
      BY <2>3, <3>1 DEF Legal, RestKept
    <3>3. x \in Shift /\ MinRest[x.at] \in Nat
      BY <1>1, <2>3, ShiftTypes
    <3> QED BY <1>1, <2>3, <3>2, <3>3, RestedSymmetric
  <2> QED BY <2>1, <2>2, <2>3
<1> QED BY <1>2, <1>3

\* Every step keeps what is said of the shifts found legal: they start from none, and
\* each check adds one at most.
LEMMA ValidStep ==
    ASSUME TypeOK, PlaceInv, ValidInv, [Next]_vars
    PROVE  ValidInv'
<1>0. Friendly({})' /\ RestedTo({}, {} \cup draft)' /\ IsFiniteSet({})
  BY FS_EmptySet DEF Friendly, RestedTo
<1>1. ASSUME NEW l \in Locations, Load(l) PROVE ValidInv'
  <2>1. answer' \in Seq(Mine')
    BY <1>1, EmptySeq DEF Load
  <2>2. pc' # "check"
    BY <1>1 DEF Load
  <2> QED BY <2>1, <2>2 DEF ValidInv
<1>2. CASE Ask \/ AskInVain
  <2>1. answer' \in Seq(Mine)
    BY <1>2, AnswerTypes, EmptySeq DEF Ask, AskInVain, Answered, Mine
  <2>2. here' = here /\ Mine' = Mine /\ valid' = {}
    BY <1>2 DEF Ask, AskInVain, Answered, Mine
  <2> QED BY <1>0, <2>1, <2>2 DEF ValidInv
<1>3. ASSUME NEW e \in Employees, Assign(e) PROVE ValidInv'
  <2>1. here \in Locations /\ Template[here] \in Seq(Spans)
    BY <1>3, PipelineAssumption DEF Assign, Seated, PlaceInv, TypeOK
  <2>2. Template[here][seat] \in Spans
    BY <1>3, <2>1, ElementOfSeq, LenProperties DEF Assign, Seated, TypeOK
  <2>3. At(e) \in Mine
    BY <2>1, <2>2 DEF At, Shift, Mine
  <2>4. answer' \in Seq(Mine) /\ Mine' = Mine /\ pc' = "assign"
    BY <1>3, <2>3, AppendProperties DEF Assign, Seated, ValidInv, Mine, context
  <2> QED BY <2>4 DEF ValidInv
<1>4. CASE LeaveOpen \/ Walked
  <2>1. answer \in Seq(Mine) /\ UNCHANGED <<answer, here, valid>> /\ valid = {}
    BY <1>4 DEF LeaveOpen, Walked, Seated, ValidInv, PlaceInv, context, shifts
  <2>2. Mine' = Mine
    BY <2>1 DEF Mine
  <2> QED BY <1>0, <2>1, <2>2 DEF ValidInv
<1>5. CASE Check
  <2>1. /\ UNCHANGED <<here, free, draft, pc>> /\ pc = "check" /\ Mine' = Mine
        /\ Head(answer) \in Mine /\ answer' \in Seq(Mine)
    BY <1>5, NextOfList DEF Check, context, ValidInv, Mine
  <2>2. CASE ~Legal(Head(answer))
    <3>1. valid' = valid
      BY <1>5, <2>2 DEF Check
    <3> QED BY <2>1, <3>1, RulesStay DEF ValidInv
  <2>3. CASE Legal(Head(answer))
    <3> DEFINE s == Head(answer)
    <3>1. valid' = valid \cup {s}
      BY <1>5, <2>3 DEF Check
    <3>2. Friendly(valid \cup {s}) /\ RestedTo(valid \cup {s}, valid \cup {s} \cup draft)
      BY <2>1, <2>3, LegalJoins DEF ValidInv
    <3>3. IsFiniteSet(valid \cup {s})
      BY <2>1, FS_AddElement DEF ValidInv
    <3>4. s.who \in Staff[here] /\ Hours(s) \subseteq free[s.who]
      BY <2>3 DEF Legal
    <3>5. Friendly(valid)' /\ RestedTo(valid, valid \cup draft)'
      <4>1. zone' = zone
        BY RunStays
      <4>2. Friendly(valid)'
        BY <3>1, <3>2, <4>1 DEF Friendly, Overlap, Start, End
      <4>3. RestedTo(valid, valid \cup draft)'
        BY <2>1, <3>1, <3>2, <4>1 DEF RestedTo, Rested, Start, End
      <4> QED BY <4>2, <4>3
    <3> QED BY <2>1, <3>1, <3>3, <3>4, <3>5 DEF ValidInv
  <2> QED BY <2>2, <2>3
<1>6. CASE Reconsider \/ Commit \/ AskAgain \/ Overrun \/ EmitResult
  <2>1. pc' \notin {"assign", "check"}
    BY <1>6 DEF Reconsider, Commit, AskAgain, Overrun, EmitResult
  <2> QED BY <2>1 DEF ValidInv
<1>7. CASE UNCHANGED vars
  <2>1. UNCHANGED <<pc, here, free, answer, valid, draft>> /\ Mine' = Mine
    BY <1>7 DEF vars, context, shifts, Mine
  <2> QED BY <2>1, RulesStay DEF ValidInv
<1> QED BY <1>1, <1>2, <1>3, <1>4, <1>5, <1>6, <1>7 DEF Next

-----------------------------------------------------------------------------
(* What is committed and emitted *)

\* In one zone the local graph meets no conflict: two spans that overlap share an hour,
\* and the windows have none that was given away.
LEMMA NoneOnOneClock ==
    ASSUME TypeOK, FreeInv, ValidInv, Reconciled, path = "local", pc = "check"
    PROVE  Conflicts = {}
<1> SUFFICES ASSUME NEW s \in valid, NEW d \in Of(s.who, draft), Overlap(s, d)
             PROVE  FALSE
  BY DEF Conflicts
<1>1. s \in Shift /\ d \in Shift /\ d \in draft /\ d.who = s.who
  BY DEF ValidInv, Mine, Of, TypeOK
<1>2. zone[s.at] = zone[d.at] /\ zone[s.at] \in Nat
  BY <1>1, ShiftTypes, PipelineAssumption DEF Reconciled, TypeOK
<1>3. /\ s.span[1] \in Nat /\ s.span[2] \in Nat /\ d.span[1] \in Nat /\ d.span[2] \in Nat
      /\ s.span[1] < s.span[2] /\ d.span[1] < d.span[2]
  <2>1. s.span \in Spans /\ d.span \in Spans
    BY <1>1, ShiftTypes
  <2> QED BY <2>1, PipelineAssumption
<1>4. s.span[1] < d.span[2] /\ d.span[1] < s.span[2]
  BY <1>2, <1>3 DEF Overlap, Start, End
<1>5. PICK h \in Nat : h \in Hours(s) /\ h \in Hours(d)
  <2>1. CASE s.span[1] <= d.span[1]
    BY <2>1, <1>3, <1>4 DEF Hours
  <2>2. CASE d.span[1] <= s.span[1]
    BY <2>2, <1>3, <1>4 DEF Hours
  <2> QED BY <2>1, <2>2, <1>3
<1>6. s.who \in Staff[here] /\ Hours(s) \subseteq free[s.who]
  BY DEF ValidInv
<1>7. Hours(d) \cap free[d.who] = {}
  BY <1>1, <1>6 DEF FreeInv
<1> QED BY <1>1, <1>5, <1>6, <1>7

\* What a commit keeps was found legal, has no conflict, and fits under the caps.
LEMMA CommitKeeps ==
    ASSUME Commit
    PROVE  /\ kept' \subseteq valid \ Conflicts
           /\ draft' = draft \cup kept'
           /\ \E K \in SUBSET valid : Trimmed(valid \ Conflicts, K) /\ kept' \subseteq K
BY DEF Commit

\* Every step keeps what is said of the shifts to emit.
LEMMA KeptStep ==
    ASSUME TypeOK, PlaceInv, FreeInv, ValidInv, KeptInv, [Next]_vars
    PROVE  KeptInv'
<1>0. zone' = zone /\ path' = path /\ (Reconciled' <=> Reconciled)
  BY RunStays
<1>1. CASE Reconsider
  <2>1. pc = "check" /\ kept' = valid /\ here' = here /\ Conflicts # {}
    BY <1>1 DEF Reconsider
  <2>2. clashed' = {} /\ notes' /\ retries' = 1
    BY <1>1 DEF Reconsider, PlaceInv
  <2>3. Reconciled => WantsRetry'
    <3>1. path \in {"llm", "local"}
      BY DEF TypeOK
    <3>2. Reconciled => path = "llm"
      BY <2>1, <3>1, NoneOnOneClock
    <3> QED BY <1>0, <2>2, <3>2 DEF WantsRetry
  <2>4. kept' \subseteq Mine'
    BY <2>1 DEF ValidInv, Mine
  <2>5. Friendly(kept)'
    BY <1>0, <2>1 DEF ValidInv, Friendly, Overlap, Start, End
  <2> QED BY <1>0, <2>3, <2>4, <2>5 DEF KeptInv
<1>2. CASE Commit
  <2>1. pc = "check" /\ here' = here
    BY <1>2 DEF Commit, context
  <2>2. kept' \subseteq valid /\ draft' = draft \cup kept'
    BY <1>2, CommitKeeps
  <2>3. kept' \subseteq Mine'
    BY <2>1, <2>2 DEF ValidInv, Mine
  <2>4. Friendly(kept)'
    BY <1>0, <2>1, <2>2 DEF ValidInv, Friendly, Overlap, Start, End
  <2>5. RestedTo(kept, draft)'
    BY <1>0, <2>1, <2>2 DEF ValidInv, RestedTo, Rested, Start, End
  <2>6. kept' \subseteq draft'
    BY <2>2
  <2> QED BY <2>3, <2>4, <2>5, <2>6 DEF KeptInv
<1>3. CASE UNCHANGED vars
  <2>1. UNCHANGED <<pc, here, kept, draft, path, notes, clashed, retries>>
    BY <1>3 DEF vars, context, shifts
  <2>2. Mine' = Mine /\ WantsRetry' = WantsRetry
    BY <2>1 DEF Mine, WantsRetry
  <2> QED BY <1>0, <2>1, <2>2
          DEF KeptInv, Friendly, RestedTo, Overlap, Rested, Start, End
<1>4. CASE pc' # "route"
  BY <1>4 DEF KeptInv
<1>5. ASSUME Next, ~Reconsider, ~Commit PROVE pc' # "route"
  BY <1>5 DEF Next, Load, Ask, AskInVain, Answered, Assign, Seated, LeaveOpen, Walked, Check,
              AskAgain, Overrun, EmitResult, context, shifts
<1> QED BY <1>1, <1>2, <1>3, <1>4, <1>5

\* A commit adds to a cap's count what the trim left room for.
LEMMA CapStep ==
    ASSUME TypeOK, ValidInv, DraftInv, Commit, NEW e \in Employees
    PROVE  Cardinality(Counted(e, draft)') <= MaxPerWeek[e]
<1>1. PICK K \in SUBSET valid : Trimmed(valid \ Conflicts, K) /\ kept' \subseteq K
  BY CommitKeeps
<1>2. IsFiniteSet(K)
  BY <1>1, FS_Subset DEF Commit, ValidInv
<1> DEFINE C == Counted(e, draft)
           N == Counted(e, K)
<1>3. Counted(e, draft)' \subseteq C \cup N
  BY <1>1, CommitKeeps DEF Counted, Of
<1>4. IsFiniteSet(C) /\ IsFiniteSet(N)
  <2>1. C \in SUBSET draft /\ N \in SUBSET K
    BY DEF Counted, Of
  <2> QED BY <2>1, <1>2, FS_Subset DEF DraftInv
<1>5. Cardinality(C) \in Nat /\ Cardinality(N) \in Nat /\ Cardinality(C) <= MaxPerWeek[e]
  BY <1>4, FS_CardinalityType DEF DraftInv
<1>6. MaxPerWeek[e] \in Nat
  BY PipelineAssumption
<1>7. CASE N = {}
  <2>1. Counted(e, draft)' \in SUBSET C
    BY <1>3, <1>7
  <2>2. Cardinality(Counted(e, draft)') <= Cardinality(C) /\ IsFiniteSet(Counted(e, draft)')
    BY <1>4, <2>1, FS_Subset
  <2>3. Cardinality(Counted(e, draft)') \in Nat
    BY <2>2, FS_CardinalityType
  <2> QED BY <1>5, <1>6, <2>2, <2>3
<1>8. CASE N # {}
  <2>1. Cardinality(C) + Cardinality(N) <= MaxPerWeek[e]
    BY <1>1, <1>8 DEF Trimmed
  <2>2. /\ IsFiniteSet(C \cup N)
        /\ Cardinality(C \cup N) = Cardinality(C) + Cardinality(N) - Cardinality(C \cap N)
    BY <1>4, FS_Union
  <2>3. Cardinality(C \cap N) \in Nat
    <3>1. C \cap N \in SUBSET C
      OBVIOUS
    <3> QED BY <1>4, <3>1, FS_Subset, FS_CardinalityType
  <2>4. Counted(e, draft)' \in SUBSET (C \cup N)
    BY <1>3
  <2>5. /\ IsFiniteSet(Counted(e, draft)')
        /\ Cardinality(Counted(e, draft)') <= Cardinality(C \cup N)
    BY <2>2, <2>4, FS_Subset
  <2>6. Cardinality(Counted(e, draft)') \in Nat /\ Cardinality(C \cup N) \in Nat
    BY <2>2, <2>5, FS_CardinalityType
  <2> QED BY <1>5, <1>6, <2>1, <2>2, <2>3, <2>5, <2>6
<1> QED BY <1>7, <1>8

\* Every step keeps what is said of the draft, and only a commit adds to it.
LEMMA DraftStep ==
    ASSUME TypeOK, ValidInv, DraftInv, [Next]_vars
    PROVE  DraftInv'
<1>0. zone' = zone
  BY RunStays
<1>1. CASE Commit
  <2>1. pc = "check" /\ draft' = draft \cup kept' /\ kept' \subseteq valid \ Conflicts
    BY <1>1, CommitKeeps DEF Commit
  <2>2. IsFiniteSet(draft')
    <3>1. IsFiniteSet(kept')
      <4>1. kept' \in SUBSET valid
        BY <2>1
      <4> QED BY <2>1, <4>1, FS_Subset DEF ValidInv
    <3> QED BY <2>1, <3>1, FS_Union DEF DraftInv
  <2>3. ASSUME NEW s \in draft', NEW t \in draft', s.who = t.who, s.at # t.at
        PROVE  ~Overlap(s, t)
    <3>1. CASE s \in draft /\ t \in draft
      BY <2>3, <3>1 DEF DraftInv
    <3>2. CASE s \in kept' /\ t \in draft
      <4>1. t \in Of(s.who, draft)
        BY <2>3, <3>2 DEF Of
      <4> QED BY <2>1, <3>2, <4>1 DEF Conflicts
    <3>3. CASE s \in draft /\ t \in kept'
      <4>1. s \in Of(t.who, draft)
        BY <2>3, <3>3 DEF Of
      <4>2. ~Overlap(t, s)
        BY <2>1, <3>3, <4>1 DEF Conflicts
      <4> QED BY <4>2 DEF Overlap
    <3>4. CASE s \in kept' /\ t \in kept'
      BY <2>1, <2>3, <3>4 DEF ValidInv, Mine
    <3> QED BY <2>1, <3>1, <3>2, <3>3, <3>4
  <2>4. \A s, t \in draft' : s.who = t.who /\ s.at # t.at => ~Overlap(s, t)'
    BY <1>0, <2>3 DEF Overlap, Start, End
  <2>5. \A e \in Employees : Cardinality(Counted(e, draft)') <= MaxPerWeek[e]
    BY <1>1, CapStep
  <2> QED BY <2>2, <2>4, <2>5 DEF DraftInv
<1>2. CASE draft' = draft
  BY <1>0, <1>2 DEF DraftInv, Overlap, Start, End, Counted, Of
<1>3. ASSUME Next, ~Commit PROVE draft' = draft
  BY <1>3 DEF Next, Load, Ask, AskInVain, Answered, Assign, LeaveOpen, Walked, Check, Reconsider,
              AskAgain, Overrun, EmitResult
<1>4. CASE UNCHANGED vars
  BY <1>2, <1>4 DEF vars
<1> QED BY <1>1, <1>2, <1>3, <1>4

\* Every step keeps what is said of the results, and each location adds to them once.
LEMMA EmitStep ==
    ASSUME TypeOK, PlaceInv, KeptInv, EmitInv, [Next]_vars
    PROVE  EmitInv'
<1>0. zone' = zone /\ (Reconciled' <=> Reconciled)
  BY RunStays
<1>1. CASE EmitResult
  <2>1. /\ emitted' = emitted \cup kept /\ left' = left \ {here} /\ draft' = draft
        /\ here \in left /\ \A s \in kept : s.at = here
    BY <1>1 DEF EmitResult, PlaceInv, KeptInv, Mine
  <2>2. Friendly(kept) /\ (Reconciled => kept \subseteq draft)
    BY <1>1 DEF EmitResult, KeptInv
  <2>3. \A s \in emitted' : s.at \notin left'
    BY <2>1 DEF EmitInv
  <2>4. Reconciled' => emitted' \subseteq draft'
    BY <1>0, <2>1, <2>2 DEF EmitInv
  <2>5. Friendly(emitted \cup kept)
    BY <2>1, <2>2 DEF EmitInv, Friendly
  <2>6. Friendly(emitted)'
    BY <1>0, <2>1, <2>5 DEF Friendly, Overlap, Start, End
  <2> QED BY <2>3, <2>4, <2>6 DEF EmitInv
<1>2. CASE emitted' = emitted /\ left' = left /\ draft \subseteq draft'
  BY <1>0, <1>2 DEF EmitInv, Friendly, Overlap, Start, End
<1>3. ASSUME Next, ~EmitResult PROVE emitted' = emitted /\ left' = left /\ draft \subseteq draft'
  BY <1>3 DEF Next, Load, Ask, AskInVain, Answered, Assign, LeaveOpen, Walked, Check, Reconsider,
              Commit, AskAgain, Overrun, results
<1>4. CASE UNCHANGED vars
  BY <1>2, <1>4 DEF vars, results
<1> QED BY <1>1, <1>2, <1>3, <1>4

-----------------------------------------------------------------------------
(* Hours *)

\* What is counted in two sets of shifts is counted in both together, once.
LEMMA WorkedOver ==
    ASSUME NEW e, NEW S, NEW T, IsFiniteSet(Spent(e, S)), IsFiniteSet(Spent(e, T))
    PROVE  /\ IsFiniteSet(Spent(e, S \cup T))
           /\ Worked(e, S) \in Nat /\ Worked(e, T) \in Nat /\ Worked(e, S \cup T) \in Nat
           /\ Worked(e, S \cup T) <= Worked(e, S) + Worked(e, T)
<1>1. Spent(e, S \cup T) = Spent(e, S) \cup Spent(e, T)
  BY DEF Spent, Of
<1>2. /\ IsFiniteSet(Spent(e, S \cup T))
      /\ Cardinality(Spent(e, S \cup T)) =
            Cardinality(Spent(e, S)) + Cardinality(Spent(e, T))
              - Cardinality(Spent(e, S) \cap Spent(e, T))
  BY <1>1, FS_Union
<1>3. Cardinality(Spent(e, S) \cap Spent(e, T)) \in Nat
  BY FS_Intersection, FS_CardinalityType
<1>4. /\ Cardinality(Spent(e, S)) \in Nat /\ Cardinality(Spent(e, T)) \in Nat
      /\ Cardinality(Spent(e, S \cup T)) \in Nat
  BY <1>2, FS_CardinalityType
<1> QED BY <1>2, <1>3, <1>4 DEF Worked, Spent

\* Fewer shifts are no more hours.
LEMMA WorkedMonotonic ==
    ASSUME NEW e, NEW S, NEW T \in SUBSET S, IsFiniteSet(Spent(e, S))
    PROVE  /\ IsFiniteSet(Spent(e, T))
           /\ Worked(e, S) \in Nat /\ Worked(e, T) \in Nat /\ Worked(e, T) <= Worked(e, S)
<1>1. Spent(e, T) \in SUBSET Spent(e, S)
  BY DEF Spent, Of
<1>2. IsFiniteSet(Spent(e, T)) /\ Cardinality(Spent(e, T)) <= Cardinality(Spent(e, S))
  BY <1>1, FS_Subset
<1>3. Cardinality(Spent(e, S)) \in Nat /\ Cardinality(Spent(e, T)) \in Nat
  BY <1>2, FS_CardinalityType
<1> QED BY <1>2, <1>3 DEF Worked, Spent

\* One shift is as many hours as it is long, of nobody else.
LEMMA WorkedOne ==
    ASSUME NEW s \in Shift, NEW e
    PROVE  /\ IsFiniteSet(Spent(e, {s})) /\ Length(s) \in Nat
           /\ Worked(e, {s}) = IF s.who = e THEN Length(s) ELSE 0
<1>1. s.span \in Spans
  BY DEF Shift
<1>2. s.span[1] \in Nat /\ s.span[2] \in Nat /\ s.span[1] < s.span[2]
  BY <1>1, PipelineAssumption
<1>3. Length(s) \in Nat
  BY <1>2 DEF Length
<1>4. IsFiniteSet(Hours(s)) /\ Cardinality(Hours(s)) = Length(s)
  <2> DEFINE a == s.span[1]
             b == s.span[2] - 1
  <2>1. a \in Int /\ b \in Int /\ a <= b /\ b - a + 1 = Length(s)
    BY <1>2 DEF Length
  <2> HIDE DEF a, b
  <2>2. IsFiniteSet(a..b) /\ Cardinality(a..b) = b - a + 1
    BY <2>1, FS_Interval
  <2> QED BY <2>1, <2>2 DEF Hours, a, b
<1>5. IsFiniteSet({s} \X Hours(s)) /\ Cardinality({s} \X Hours(s)) = Length(s)
  <2>1. IsFiniteSet({s}) /\ Cardinality({s}) = 1
    BY FS_Singleton
  <2>2. /\ IsFiniteSet({s} \X Hours(s))
        /\ Cardinality({s} \X Hours(s)) = Cardinality({s}) * Cardinality(Hours(s))
    BY <1>4, <2>1, FS_Product
  <2> QED BY <1>3, <1>4, <2>1, <2>2
<1>6. CASE s.who = e
  <2>1. Spent(e, {s}) = {s} \X Hours(s)
    BY <1>6 DEF Spent, Of
  <2> QED BY <1>3, <1>5, <1>6, <2>1 DEF Worked, Spent
<1>7. CASE s.who # e
  <2>1. Spent(e, {s}) = {}
    BY <1>7 DEF Spent, Of
  <2> QED BY <1>3, <1>7, <2>1, FS_EmptySet DEF Worked, Spent
<1> QED BY <1>6, <1>7

\* A legal shift has room beside what its person has already.
LEMMA LegalHours ==
    ASSUME TypeOK, HoursInv, pc = "check", NEW s \in Shift, Legal(s), NEW e \in Employees
    PROVE  /\ IsFiniteSet(Spent(e, valid \cup {s}))
           /\ Worked(e, draft) + Worked(e, valid \cup {s}) <= MaxHours[e]
<1>1. IsFiniteSet(Spent(e, draft)) /\ IsFiniteSet(Spent(e, valid))
  BY DEF HoursInv
<1>2. /\ IsFiniteSet(Spent(e, {s})) /\ Length(s) \in Nat
      /\ Worked(e, {s}) = IF s.who = e THEN Length(s) ELSE 0
  BY WorkedOne
<1>3. /\ IsFiniteSet(Spent(e, valid \cup {s}))
      /\ Worked(e, valid) \in Nat /\ Worked(e, valid \cup {s}) \in Nat
      /\ Worked(e, valid \cup {s}) <= Worked(e, valid) + Worked(e, {s})
  BY <1>1, <1>2, WorkedOver
<1>4. Worked(e, draft) \in Nat /\ MaxHours[e] \in Nat
  BY <1>1, WorkedMonotonic, PipelineAssumption
<1>5. CASE s.who = e
  <2>1. Worked(e, draft) + Worked(e, valid) + Length(s) <= MaxHours[e]
    BY <1>5 DEF Legal, WithinHours
  <2> QED BY <1>2, <1>3, <1>4, <1>5, <2>1
<1>6. CASE s.who # e
  <2>1. Worked(e, draft) + Worked(e, valid) <= MaxHours[e]
    BY DEF HoursInv
  <2> QED BY <1>2, <1>3, <1>4, <1>6, <2>1
<1> QED BY <1>5, <1>6

\* Every step keeps the hours: a check adds a shift there is room for, and a commit
\* moves to the draft some of what was checked.
LEMMA HoursStep ==
    ASSUME TypeOK, PlaceInv, ValidInv, HoursInv, [Next]_vars
    PROVE  HoursInv'
<1>0. \A e : Spent(e, {}) = {} /\ IsFiniteSet({}) /\ Cardinality({}) = 0
  BY FS_EmptySet DEF Spent, Of
<1>1. CASE draft' = draft /\ (pc' = "check" => valid' = {})
  <2> SUFFICES ASSUME NEW e \in Employees, pc' = "check"
               PROVE  /\ IsFiniteSet(Spent(e, {}))
                      /\ Worked(e, draft) + Worked(e, {}) <= MaxHours[e]
    BY <1>1 DEF HoursInv, Spent, Worked, Of
  <2>1. Worked(e, draft) \in Nat /\ Worked(e, draft) <= MaxHours[e] /\ MaxHours[e] \in Nat
    BY WorkedMonotonic, PipelineAssumption DEF HoursInv
  <2>2. Worked(e, {}) = 0
    BY <1>0 DEF Worked, Spent
  <2> QED BY <1>0, <2>1, <2>2
<1>2. CASE Check
  <2>1. UNCHANGED <<pc, draft>> /\ pc = "check" /\ Head(answer) \in Mine
    BY <1>2, NextOfList DEF Check, context, ValidInv
  <2>2. CASE valid' = valid
    BY <2>1, <2>2 DEF HoursInv, Spent, Worked, Of
  <2>3. CASE Legal(Head(answer)) /\ valid' = valid \cup {Head(answer)}
    <3>1. Head(answer) \in Shift
      BY <2>1 DEF Mine
    <3>2. \A e \in Employees :
              /\ IsFiniteSet(Spent(e, valid'))
              /\ Worked(e, draft) + Worked(e, valid') <= MaxHours[e]
      BY <2>1, <2>3, <3>1, LegalHours
    <3> QED BY <2>1, <3>2 DEF HoursInv, Spent, Worked, Of
  <2> QED BY <1>2, <2>2, <2>3 DEF Check
<1>3. CASE Commit
  <2>1. pc = "check" /\ pc' = "route" /\ draft' = draft \cup kept' /\ kept' \in SUBSET valid
    BY <1>3, CommitKeeps DEF Commit
  <2>2. ASSUME NEW e \in Employees
        PROVE  IsFiniteSet(Spent(e, draft')) /\ Worked(e, draft') <= MaxHours[e]
    <3>1. /\ IsFiniteSet(Spent(e, draft)) /\ IsFiniteSet(Spent(e, valid))
          /\ Worked(e, draft) + Worked(e, valid) <= MaxHours[e]
      BY <2>1 DEF HoursInv
    <3>2. /\ IsFiniteSet(Spent(e, kept')) /\ Worked(e, valid) \in Nat
          /\ Worked(e, kept') <= Worked(e, valid)
      BY <2>1, <3>1, WorkedMonotonic
    <3>3. /\ IsFiniteSet(Spent(e, draft'))
          /\ Worked(e, draft) \in Nat /\ Worked(e, kept') \in Nat /\ Worked(e, draft') \in Nat
          /\ Worked(e, draft') <= Worked(e, draft) + Worked(e, kept')
      BY <2>1, <3>1, <3>2, WorkedOver
    <3>4. MaxHours[e] \in Nat
      BY PipelineAssumption
    <3> QED BY <3>1, <3>2, <3>3, <3>4
  <2> QED BY <2>1, <2>2 DEF HoursInv, Spent, Worked, Of
<1>4. ASSUME Next, ~Check, ~Commit
      PROVE  draft' = draft /\ (pc' = "check" => valid' = {})
  BY <1>4 DEF Next, Load, Ask, AskInVain, Answered, Assign, Seated, LeaveOpen, Walked, Reconsider,
              AskAgain, Overrun, EmitResult, PlaceInv, context, shifts
<1>5. CASE UNCHANGED vars
  <2>1. UNCHANGED <<pc, draft, valid>>
    BY <1>5 DEF vars, shifts
  <2> QED BY <2>1 DEF HoursInv, Spent, Worked, Of
<1> QED BY <1>1, <1>2, <1>3, <1>4, <1>5

-----------------------------------------------------------------------------
(* The end of a run *)

\* Every step keeps what is said of the locations still to do.
LEMMA LeftStep ==
    ASSUME TypeOK, PlaceInv, LeftInv, [Next]_vars
    PROVE  LeftInv'
<1> USE DEF LeftInv
<1>1. ASSUME NEW l \in Locations, Load(l) PROVE LeftInv'
  <2>1. /\ UNCHANGED <<left, outcome>> /\ l \in left /\ here' = l /\ seat' = 1
        /\ pc' \in {"ask", "assign"}
    BY <1>1 DEF Load, results
  <2>2. Len(Template[l]) \in Nat
    BY PipelineAssumption, LenProperties
  <2> QED BY <2>1, <2>2
<1>2. CASE EmitResult
  <2>1. /\ here \in left /\ left' = left \ {here} /\ here \in Locations
        /\ outcome' = [outcome EXCEPT ![here] =
              IF failed THEN "PARSE_ERROR" ELSE IF clashed # {} THEN "CONFLICT" ELSE "ok"]
        /\ pc' = IF left' = {} THEN "done" ELSE "load"
    BY <1>2 DEF EmitResult, PlaceInv, TypeOK
  <2>2. \A l \in Locations : l \in left' <=> outcome'[l] = "none"
    BY <2>1 DEF TypeOK
  <2> QED BY <2>1, <2>2
<1>3. ASSUME NEW e \in Employees, Assign(e) PROVE LeftInv'
  <2>1. /\ UNCHANGED <<left, outcome, path, pc, here>> /\ pc = "assign"
        /\ seat <= Len(Template[here]) /\ seat' = seat + 1
    BY <1>3 DEF Assign, Seated, context, results
  <2>2. Len(Template[here]) \in Nat /\ seat \in Nat
    BY <2>1, PipelineAssumption, LenProperties DEF PlaceInv, TypeOK
  <2> QED BY <2>1, <2>2
<1>4. CASE LeaveOpen
  <2>1. /\ UNCHANGED <<left, outcome, path, pc, here>> /\ pc = "assign"
        /\ seat <= Len(Template[here]) /\ seat' = seat + 1
    BY <1>4 DEF LeaveOpen, Seated, context, results
  <2>2. Len(Template[here]) \in Nat /\ seat \in Nat
    BY <2>1, PipelineAssumption, LenProperties DEF PlaceInv, TypeOK
  <2> QED BY <2>1, <2>2
<1>5. CASE Ask \/ AskInVain \/ Walked \/ Check \/ Reconsider \/ Commit \/ AskAgain \/ Overrun
  <2>1. /\ UNCHANGED <<left, outcome, path>> /\ left # {}
        /\ pc' \in {"ask", "check", "route", "overrun"} /\ (pc' = "overrun" => path = "llm")
    BY <1>5 DEF Ask, AskInVain, Answered, Walked, Check, Reconsider, Commit, AskAgain, Overrun,
                WantsRetry, context, shifts, results
  <2> QED BY <2>1
<1>6. CASE UNCHANGED vars
  BY <1>6 DEF vars, context, shifts, results
<1> QED BY <1>1, <1>2, <1>3, <1>4, <1>5, <1>6 DEF Next

\* What is left is counted by natural numbers.
LEMMA RemainingTypes ==
    ASSUME TypeOK, PlaceInv, LeftInv
    PROVE  /\ PlacesLeft \in Nat /\ AnswersLeft \in Nat /\ NodesLeft \in Nat /\ ItemsLeft \in Nat
           /\ Remaining \in Counts
<1>1. PlacesLeft \in Nat
  <2>1. IsFiniteSet(left)
    BY FS_Subset, PipelineAssumption DEF TypeOK
  <2>2. Cardinality(left) \in Nat
    BY <2>1, FS_CardinalityType
  <2> QED BY <2>2 DEF PlacesLeft
<1>2. AnswersLeft \in Nat
  BY PipelineAssumption DEF AnswersLeft, TypeOK
<1>3. NodesLeft \in Nat
  BY DEF NodesLeft
<1>4. ItemsLeft \in Nat
  <2>1. Len(answer) \in Nat
    BY LenProperties DEF TypeOK
  <2>2. pc = "assign" => Len(Template[here]) + 1 - seat \in Nat
    <3>1. SUFFICES ASSUME pc = "assign" PROVE Len(Template[here]) + 1 - seat \in Nat
      OBVIOUS
    <3>2. Len(Template[here]) \in Nat /\ seat \in Nat
      BY <3>1, PipelineAssumption, LenProperties DEF PlaceInv, TypeOK
    <3> QED BY <3>1, <3>2 DEF LeftInv
  <2> QED BY <2>1, <2>2 DEF ItemsLeft
<1> QED BY <1>1, <1>2, <1>3, <1>4 DEF Remaining, Counts

\* The first count that differs decides.
LEMMA LowerAt ==
    ASSUME \/ PlacesLeft' < PlacesLeft
           \/ PlacesLeft' = PlacesLeft /\ AnswersLeft' < AnswersLeft
           \/ PlacesLeft' = PlacesLeft /\ AnswersLeft' = AnswersLeft /\ NodesLeft' < NodesLeft
           \/ /\ PlacesLeft' = PlacesLeft /\ AnswersLeft' = AnswersLeft /\ NodesLeft' = NodesLeft
              /\ ItemsLeft' < ItemsLeft
    PROVE  Before(Remaining', Remaining)
<1>1. CASE PlacesLeft' < PlacesLeft
  <2>1. Remaining'[1] < Remaining[1] /\ \A i \in 1..(1 - 1) : Remaining'[i] = Remaining[i]
    BY <1>1 DEF Remaining
  <2> QED BY <2>1 DEF Before
<1>2. CASE PlacesLeft' = PlacesLeft /\ AnswersLeft' < AnswersLeft
  <2>1. Remaining'[2] < Remaining[2] /\ \A i \in 1..(2 - 1) : Remaining'[i] = Remaining[i]
    BY <1>2 DEF Remaining
  <2> QED BY <2>1 DEF Before
<1>3. CASE PlacesLeft' = PlacesLeft /\ AnswersLeft' = AnswersLeft /\ NodesLeft' < NodesLeft
  <2>1. Remaining'[3] < Remaining[3] /\ \A i \in 1..(3 - 1) : Remaining'[i] = Remaining[i]
    BY <1>3 DEF Remaining
  <2> QED BY <2>1 DEF Before
<1>4. CASE /\ PlacesLeft' = PlacesLeft /\ AnswersLeft' = AnswersLeft /\ NodesLeft' = NodesLeft
           /\ ItemsLeft' < ItemsLeft
  <2>1. Remaining'[4] < Remaining[4] /\ \A i \in 1..(4 - 1) : Remaining'[i] = Remaining[i]
    BY <1>4 DEF Remaining
  <2> QED BY <2>1 DEF Before
<1> QED BY <1>1, <1>2, <1>3, <1>4

\* A step that stays at its location, in another node or further on in this one.
LEMMA SamePlace ==
    ASSUME left' = left, pc # "load", pc' # "load"
    PROVE  PlacesLeft' = PlacesLeft
BY DEF PlacesLeft

\* With every step there is less left to do.
LEMMA LessLeft ==
    ASSUME TypeOK, PlaceInv, LeftInv, Next
    PROVE  Before(Remaining', Remaining)
<1>0. PlacesLeft \in Nat /\ AnswersLeft \in Nat /\ NodesLeft \in Nat /\ ItemsLeft \in Nat
  BY RemainingTypes
<1>1. ASSUME NEW l \in Locations, Load(l) PROVE PlacesLeft' < PlacesLeft
  <2>1. left' = left /\ pc = "load" /\ pc' # "load"
    BY <1>1 DEF Load, results
  <2>2. Cardinality(left) \in Nat
    BY FS_Subset, FS_CardinalityType, PipelineAssumption DEF TypeOK
  <2> QED BY <2>1, <2>2 DEF PlacesLeft
<1>2. CASE Ask \/ AskInVain
  <2>1. /\ left' = left /\ pc = "ask" /\ pc' = "check" /\ asked' = asked + 1
    BY <1>2 DEF Ask, AskInVain, Answered, results
  <2>2. AnswersLeft' < AnswersLeft
    BY <2>1, PipelineAssumption DEF AnswersLeft, TypeOK
  <2> QED BY <2>1, <2>2, SamePlace, LowerAt
<1>3. ASSUME \/ \E e \in Employees : Assign(e)
             \/ LeaveOpen
      PROVE  Before(Remaining', Remaining)
  <2>1. /\ UNCHANGED <<left, pc, asked, here>> /\ pc = "assign"
        /\ seat' = seat + 1
    BY <1>3 DEF Assign, LeaveOpen, Seated, context, results
  <2>2. Len(Template[here]) \in Nat /\ seat \in Nat
    BY <2>1, PipelineAssumption, LenProperties DEF PlaceInv, TypeOK
  <2>3. ItemsLeft' < ItemsLeft
    BY <2>1, <2>2 DEF ItemsLeft
  <2>4. AnswersLeft' = AnswersLeft /\ NodesLeft' = NodesLeft
    BY <2>1 DEF AnswersLeft, NodesLeft
  <2> QED BY <2>1, <2>3, <2>4, SamePlace, LowerAt
<1>4. CASE Check
  <2>1. UNCHANGED <<left, pc, asked>> /\ pc = "check" /\ answer # <<>> /\ answer' = Tail(answer)
    BY <1>4 DEF Check, context, results
  <2>2. Len(answer') < Len(answer)
    BY <2>1, HeadTailProperties, LenProperties DEF TypeOK
  <2>3. ItemsLeft' < ItemsLeft
    BY <2>1, <2>2 DEF ItemsLeft
  <2>4. AnswersLeft' = AnswersLeft /\ NodesLeft' = NodesLeft
    BY <2>1 DEF AnswersLeft, NodesLeft
  <2> QED BY <2>1, <2>3, <2>4, SamePlace, LowerAt
<1>5. CASE Walked \/ Reconsider \/ Commit \/ AskAgain \/ Overrun
  <2>1. /\ UNCHANGED <<left, asked>>
        /\ \/ pc = "assign" /\ pc' = "check"
           \/ pc = "check" /\ pc' = "route"
           \/ pc = "route" /\ pc' \in {"ask", "overrun"}
    BY <1>5 DEF Walked, Reconsider, Commit, AskAgain, Overrun, context, results
  <2>2. NodesLeft' < NodesLeft
    BY <2>1 DEF NodesLeft
  <2>3. AnswersLeft' = AnswersLeft
    BY <2>1 DEF AnswersLeft
  <2> QED BY <2>1, <2>2, <2>3, SamePlace, LowerAt
<1>6. CASE EmitResult
  <2>1. here \in left /\ left' = left \ {here} /\ pc = "route"
    BY <1>6 DEF EmitResult, PlaceInv
  <2>2. IsFiniteSet(left)
    BY FS_Subset, PipelineAssumption DEF TypeOK
  <2>3. Cardinality(left') = Cardinality(left) - 1 /\ Cardinality(left) \in Nat
    BY <2>1, <2>2, FS_RemoveElement, FS_CardinalityType
  <2>4. PlacesLeft' < PlacesLeft
    BY <2>1, <2>3 DEF PlacesLeft
  <2> QED BY <2>4, LowerAt
<1> QED BY <1>1, <1>2, <1>3, <1>4, <1>5, <1>6, LowerAt DEF Next

\* A set of numbers that is not empty has a least one.
LEMMA LeastNumber ==
    ASSUME NEW T \in SUBSET Nat, T # {}
    PROVE  \E m \in T : \A k \in T : m <= k
<1> DEFINE Upto(n) == T \cap 0..n
           U == {Upto(n) : n \in T}
<1>1. U \subseteq FiniteSubsetsOf(Nat) /\ U # {}
  <2>1. \A n \in T : IsFiniteSet(0..n) /\ Upto(n) \in SUBSET (0..n)
    BY FS_Interval
  <2>2. \A n \in T : IsFiniteSet(Upto(n)) /\ Upto(n) \in SUBSET Nat
    BY <2>1, FS_Subset
  <2> QED BY <2>2 DEF FiniteSubsetsOf
<1>2. PICK x \in U : \A y \in U : <<y, x>> \notin StrictSubsetOrdering(Nat)
  BY <1>1, WFMin, FS_StrictSubsetOrderingWellFounded
<1>3. PICK m \in T : x = Upto(m)
  OBVIOUS
<1>4. ASSUME NEW t \in T, ~(m <= t) PROVE FALSE
  <2>1. Upto(t) \subseteq Upto(m) /\ m \in Upto(m) /\ m \notin Upto(t)
    BY <1>4
  <2>2. <<Upto(t), x>> \in StrictSubsetOrdering(Nat)
    BY <1>3, <2>1 DEF StrictSubsetOrdering
  <2> QED BY <1>2, <2>2
<1> QED BY <1>4

\* Of any shifts one can keep the earliest, as many as there is room for.
LEMMA EarliestFew ==
    ASSUME NEW N \in SUBSET Shift, IsFiniteSet(N), NEW r \in Nat
    PROVE  \E K \in SUBSET N :
              /\ Cardinality(K) \in Nat /\ Cardinality(K) <= r
              /\ K # N => Cardinality(K) = r
              /\ \A s \in K, t \in N \ K : s.span[1] <= t.span[1]
<1> DEFINE First(K) == \A s \in K, t \in N \ K : s.span[1] <= t.span[1]
           Spare == {m \in Nat : \E K \in SUBSET N : Cardinality(K) + m = r /\ First(K)}
<1>1. r \in Spare
  <2>1. {} \in SUBSET N /\ Cardinality({}) + r = r /\ First({})
    BY FS_EmptySet
  <2> QED BY <2>1
<1>2. PICK m \in Spare : \A k \in Spare : m <= k
  <2>1. Spare \in SUBSET Nat /\ Spare # {}
    BY <1>1
  <2> QED BY <2>1, LeastNumber
<1>3. PICK K \in SUBSET N : Cardinality(K) + m = r /\ First(K)
  BY <1>2
<1>4. IsFiniteSet(K) /\ Cardinality(K) \in Nat
  BY FS_Subset, FS_CardinalityType
<1>5. CASE m = 0 \/ K = N
  BY <1>3, <1>4, <1>5
<1>6. CASE m # 0 /\ K # N
  <2> DEFINE Starts == {t.span[1] : t \in N \ K}
  <2>1. \A t \in N : t.span[1] \in Nat
    <3>1. \A t \in N : t.span \in Spans
      BY DEF Shift
    <3> QED BY <3>1, PipelineAssumption
  <2>2. PICK b \in Starts : \A k \in Starts : b <= k
    <3>1. Starts \in SUBSET Nat /\ Starts # {}
      BY <1>6, <2>1
    <3> QED BY <3>1, LeastNumber
  <2>3. PICK u \in N \ K : u.span[1] = b
    OBVIOUS
  <2>4. First(K \cup {u})
    BY <1>3, <2>2, <2>3
  <2>5. Cardinality(K \cup {u}) = Cardinality(K) + 1
    BY <1>4, <2>3, FS_AddElement
  <2>6. m - 1 \in Nat /\ Cardinality(K \cup {u}) + (m - 1) = r
    BY <1>2, <1>3, <1>4, <1>6, <2>5
  <2>7. m - 1 \in Spare
    BY <2>3, <2>4, <2>6
  <2> QED BY <1>2, <2>6, <2>7
<1> QED BY <1>5, <1>6

\* Whatever the draft has used of the caps, the rest can be trimmed to what is left.
LEMMA TrimExists ==
    ASSUME IsFiniteSet(draft), NEW S \in SUBSET Shift, IsFiniteSet(S)
    PROVE  \E K \in SUBSET S : Trimmed(S, K)
<1> DEFINE used(e) == Cardinality(Counted(e, draft))
           room(e) == IF used(e) >= MaxPerWeek[e] THEN 0 ELSE MaxPerWeek[e] - used(e)
           Few(e, K) ==
               /\ Cardinality(K) \in Nat /\ Cardinality(K) <= room(e)
               /\ K # Counted(e, S) => Cardinality(K) = room(e)
               /\ \A s \in K, t \in Counted(e, S) \ K : s.span[1] <= t.span[1]
           few == [e \in Employees |-> CHOOSE K \in SUBSET Counted(e, S) : Few(e, K)]
           Kept == {s \in S : s \in Counted(s.who, S) => s \in few[s.who]}
<1>1. \A e \in Employees : used(e) \in Nat /\ room(e) \in Nat /\ MaxPerWeek[e] \in Nat
  <2>1. \A e \in Employees : Counted(e, draft) \in SUBSET draft
    BY DEF Counted, Of
  <2>2. \A e \in Employees : used(e) \in Nat
    BY <2>1, FS_Subset, FS_CardinalityType
  <2> QED BY <2>2, PipelineAssumption
<1>2. \A e \in Employees : few[e] \in SUBSET Counted(e, S) /\ Few(e, few[e])
  <2> SUFFICES ASSUME NEW e \in Employees
               PROVE  \E K \in SUBSET Counted(e, S) : Few(e, K)
    OBVIOUS
  <2>1. Counted(e, S) \in SUBSET S
    BY DEF Counted, Of
  <2>2. Counted(e, S) \in SUBSET Shift /\ IsFiniteSet(Counted(e, S))
    BY <2>1, FS_Subset
  <2> HIDE DEF room
  <2> QED BY <1>1, <2>2, EarliestFew
<1>3. \A e \in Employees : Counted(e, Kept) = few[e]
  <2> SUFFICES ASSUME NEW e \in Employees
               PROVE  Counted(e, Kept) = few[e]
    OBVIOUS
  <2>1. few[e] \in SUBSET Counted(e, S)
    BY <1>2
  <2> HIDE DEF few
  <2>2. \A s \in Counted(e, S) : s \in S /\ s.who = e /\ s.span \in Capped[e]
    BY DEF Counted, Of
  <2> QED BY <2>1, <2>2 DEF Counted, Of
<1>4. \A s \in S \ Kept : s \in Counted(s.who, S)
  OBVIOUS
<1>5. ASSUME NEW e \in Employees
      PROVE  /\ few[e] # {} => used(e) + Cardinality(few[e]) <= MaxPerWeek[e]
             /\ few[e] # Counted(e, S) => used(e) + Cardinality(few[e]) >= MaxPerWeek[e]
             /\ \A s \in few[e], t \in Counted(e, S \ Kept) : s.span[1] <= t.span[1]
  <2>1. Few(e, few[e]) /\ few[e] \in SUBSET Counted(e, S)
    BY <1>2
  <2> HIDE DEF few
  <2>2. ASSUME few[e] # {} PROVE used(e) + Cardinality(few[e]) <= MaxPerWeek[e]
    <3>1. Cardinality(few[e]) # 0
      <4>1. Counted(e, S) \in SUBSET S
        BY DEF Counted, Of
      <4>2. IsFiniteSet(few[e])
        BY <2>1, <4>1, FS_Subset
      <4> QED BY <2>2, <4>2, FS_EmptySet
    <3>2. room(e) > 0 /\ Cardinality(few[e]) <= room(e) /\ Cardinality(few[e]) \in Nat
      BY <1>1, <2>1, <3>1
    <3> QED BY <1>1, <3>2
  <2>3. ASSUME few[e] # Counted(e, S) PROVE used(e) + Cardinality(few[e]) >= MaxPerWeek[e]
    <3>1. Cardinality(few[e]) = room(e)
      BY <2>1, <2>3
    <3> QED BY <1>1, <3>1
  <2>4. Counted(e, S \ Kept) \subseteq Counted(e, S) \ few[e]
    <3> SUFFICES ASSUME NEW t \in Counted(e, S \ Kept)
                 PROVE  t \in Counted(e, S) /\ t \notin few[e]
      OBVIOUS
    <3> QED BY DEF Counted, Of
  <2> QED BY <2>1, <2>2, <2>3, <2>4
<1>6. Trimmed(S, Kept)
  <2> HIDE DEF Kept, few
  <2> QED BY <1>3, <1>4, <1>5 DEF Trimmed
<1> QED BY <1>6

-----------------------------------------------------------------------------
(* The theorems *)

\* A run begins with nothing given to anybody.
LEMMA InitInv ==
    ASSUME Init
    PROVE  IInv
<1>1. TypeOK
  <2>1. answer \in Seq(Shift)
    BY EmptySeq DEF Init
  <2>2. asked \in 0..MaxAnswers
    BY PipelineAssumption DEF Init
  <2>3. notes \in BOOLEAN /\ failed \in BOOLEAN
    BY DEF Init
  <2> QED BY <2>1, <2>2, <2>3, PipelineAssumption DEF Init, TypeOK
<1>2. PlaceInv /\ FreeInv /\ ValidInv /\ KeptInv
  BY DEF Init, PlaceInv, FreeInv, ValidInv, KeptInv
<1>3. DraftInv
  <2>1. \A e \in Employees : Counted(e, draft) = {}
    BY DEF Init, Counted, Of
  <2>2. Cardinality({}) = 0 /\ IsFiniteSet({})
    BY FS_EmptySet
  <2>3. \A e \in Employees : MaxPerWeek[e] \in Nat
    BY PipelineAssumption
  <2>4. \A e \in Employees : Cardinality(Counted(e, draft)) <= MaxPerWeek[e]
    BY <2>1, <2>2, <2>3
  <2> QED BY <2>2, <2>4 DEF Init, DraftInv
<1>4. EmitInv
  BY DEF Init, EmitInv, Friendly
<1>5. HoursInv
  <2> SUFFICES ASSUME NEW e \in Employees
               PROVE  IsFiniteSet(Spent(e, draft)) /\ Worked(e, draft) <= MaxHours[e]
    BY DEF Init, HoursInv
  <2>1. Spent(e, draft) = {}
    BY DEF Init, Spent, Of
  <2>2. Cardinality({}) = 0 /\ IsFiniteSet({}) /\ MaxHours[e] \in Nat
    BY FS_EmptySet, PipelineAssumption
  <2> QED BY <2>1, <2>2 DEF Worked, Spent
<1>6. LeftInv
  BY PipelineAssumption DEF Init, LeftInv
<1> QED BY <1>1, <1>2, <1>3, <1>4, <1>5, <1>6 DEF IInv

\* Every step keeps the invariant.
LEMMA NextInv ==
    ASSUME IInv, [Next]_vars
    PROVE  IInv'
BY TypeStep, PlaceStep, FreeStep, ValidStep, KeptStep, DraftStep, HoursStep, EmitStep, LeftStep
   DEF IInv

\* The invariant holds of every run of the scheduling graph.
THEOREM Invariance == Spec => []IInv
<1>1. Init => IInv
  BY InitInv
<1>2. IInv /\ [Next]_vars => IInv'
  BY NextInv
<1> QED BY <1>1, <1>2, PTL DEF Spec

\* The fields keep their types: the state _load_initial_state makes, and the updates the
\* nodes return, whatever the model answers.
THEOREM TypeCorrect == Spec => []TypeOK
<1>1. IInv => TypeOK
  BY DEF IInv
<1> QED BY <1>1, Invariance, PTL

\* Nobody is emitted at two locations at once, where a first conflict is sent back or
\* cannot be: what the graphs emit was compared with all that was committed before.
THEOREM NobodyIsInTwoPlaces == Spec => []NobodyInTwoPlaces
<1>1. IInv => NobodyInTwoPlaces
  BY DEF IInv, EmitInv, DraftInv, NobodyInTwoPlaces
<1> QED BY <1>1, Invariance, PTL

\* Nobody is given more than their weekly hours over all the locations of a run, though
\* each is checked against what was committed before it (employee_weekly_hours_draft).
THEOREM HoursHold == Spec => []HoursWithinCap
<1>1. ASSUME IInv, Reconciled, NEW e \in Employees
      PROVE  Worked(e, emitted) <= MaxHours[e]
  <2>1. emitted \in SUBSET draft
    BY <1>1 DEF IInv, EmitInv
  <2>2. IsFiniteSet(Spent(e, draft)) /\ Worked(e, draft) <= MaxHours[e]
    BY <1>1 DEF IInv, HoursInv
  <2>3. /\ Worked(e, draft) \in Nat /\ Worked(e, emitted) \in Nat
        /\ Worked(e, emitted) <= Worked(e, draft)
    BY <2>1, <2>2, WorkedMonotonic
  <2>4. MaxHours[e] \in Nat
    BY PipelineAssumption
  <2> QED BY <2>2, <2>3, <2>4
<1>2. IInv => HoursWithinCap
  BY <1>1 DEF HoursWithinCap
<1> QED BY <1>2, Invariance, PTL

\* A frequency cap holds over all the locations of a run, though each is trimmed by
\* itself (_trim_cap_violations).
THEOREM CapsHold == Spec => []FrequencyKept
<1>1. ASSUME IInv, Reconciled, NEW e \in Employees
      PROVE  Cardinality(Counted(e, emitted)) <= MaxPerWeek[e]
  <2>1. Counted(e, emitted) \in SUBSET Counted(e, draft)
    BY <1>1 DEF IInv, EmitInv, Counted, Of
  <2>2. IsFiniteSet(Counted(e, draft))
    <3>1. Counted(e, draft) \in SUBSET draft
      BY DEF Counted, Of
    <3> QED BY <1>1, <3>1, FS_Subset DEF IInv, DraftInv
  <2>3. /\ IsFiniteSet(Counted(e, emitted))
        /\ Cardinality(Counted(e, emitted)) <= Cardinality(Counted(e, draft))
    BY <2>1, <2>2, FS_Subset
  <2>4. Cardinality(Counted(e, emitted)) \in Nat /\ Cardinality(Counted(e, draft)) \in Nat
    BY <2>2, <2>3, FS_CardinalityType
  <2>5. Cardinality(Counted(e, draft)) <= MaxPerWeek[e] /\ MaxPerWeek[e] \in Nat
    BY <1>1, PipelineAssumption DEF IInv, DraftInv
  <2> QED BY <2>3, <2>4, <2>5
<1>2. IInv => FrequencyKept
  BY <1>1 DEF FrequencyKept
<1> QED BY <1>2, Invariance, PTL

\* Two who are kept apart share no hours at a location, whichever of them named the
\* other (the -1.0 affinities of validate_schedule).
THEOREM ApartStay == Spec => []ApartKept
<1>1. IInv => ApartKept
  BY DEF IInv, EmitInv, Friendly, ApartKept
<1> QED BY <1>1, Invariance, PTL

\* What is emitted leaves its location's rest to all that was emitted with it and
\* before it (_min_rest_violation).
THEOREM RestHolds == Spec => RestIsKept
<1> DEFINE Rest ==
      Reconciled =>
        \A s \in emitted' \ emitted, t \in emitted' :
            s.who = t.who /\ Day(s) # Day(t) /\ MinRest[s.at] # 0 => Rested(s, t, MinRest[s.at])
<1>1. ASSUME IInv, Next, ~EmitResult PROVE emitted' = emitted
  BY <1>1 DEF Next, Load, Ask, AskInVain, Answered, Assign, LeaveOpen, Walked, Check, Reconsider,
              Commit, AskAgain, Overrun, results
<1>2. ASSUME IInv, EmitResult PROVE Rest
  <2>1. emitted' = emitted \cup kept
    BY <1>2 DEF EmitResult
  <2>2. Reconciled => RestedTo(kept, draft) /\ emitted \cup kept \subseteq draft
    BY <1>2 DEF EmitResult, IInv, KeptInv, EmitInv
  <2> QED BY <2>1, <2>2 DEF RestedTo
<1>3. IInv /\ [Next]_vars => [Rest]_vars
  BY <1>1, <1>2
<1> QED BY <1>3, Invariance, PTL DEF Spec, RestIsKept

\* The numbers from which a run counts down have no way down without an end.
THEOREM DescentEnds == IsWellFoundedOn(Descent, Counts)
<1> DEFINE Less == {p \in Nat \X Nat : p[1] < p[2]}
<1>1. IsWellFoundedOn(Less, Nat)
  <2>1. ASSUME NEW T \in SUBSET Nat, T # {}
        PROVE  \E x \in T : \A y \in T : <<y, x>> \notin Less
    <3>1. PICK m \in T : \A k \in T : m <= k
      BY <2>1, LeastNumber
    <3> QED BY <3>1
  <2> HIDE DEF Less
  <2> QED BY <2>1, MinWF
<1>2. Descent \cap (Counts \X Counts) \subseteq LexProductOrdering(Less, Nat, 4)
  <2> SUFFICES ASSUME NEW p \in Descent
               PROVE  p \in LexProductOrdering(Less, Nat, 4)
    OBVIOUS
  <2>1. p \in Counts \X Counts /\ Before(p[1], p[2])
    BY DEF Descent
  <2>2. PICK j \in 1..4 : p[1][j] < p[2][j] /\ \A i \in 1..(j - 1) : p[1][i] = p[2][i]
    BY <2>1 DEF Before
  <2>3. p[1][j] \in Nat /\ p[2][j] \in Nat
    BY <2>1 DEF Counts
  <2>4. <<p[1][j], p[2][j]>> \in Less
    BY <2>2, <2>3
  <2> HIDE DEF Less
  <2> QED BY <2>1, <2>2, <2>4 DEF LexProductOrdering, Counts
<1>3. IsWellFoundedOn(LexProductOrdering(Less, Nat, 4), Counts)
  <2> HIDE DEF Less
  <2> QED BY <1>1, WFLexProductOrdering DEF Counts
<1> QED BY <1>2, <1>3, IsWellFoundedOnSubrelation

\* Every step of a run counts down: no node and no edge of either graph goes round
\* without end (build_scheduling_graph), given LangGraph's limit on steps.
THEOREM RunsCountDown == Spec => [][CountsDown]_vars
<1> DEFINE Counting == Remaining \in Counts
<1>1. IInv => Counting
  BY RemainingTypes DEF IInv
<1>2. Counting /\ Counting' /\ IInv /\ [Next]_vars => [CountsDown]_vars
  BY LessLeft DEF IInv, Descent, CountsDown
<1> HIDE DEF Counting
<1> QED BY <1>1, <1>2, Invariance, PTL DEF Spec

\* And a run is over, with a result of every location unless the limit ended it, or can
\* go on: what was found legal can always be trimmed to the caps (_trim_cap_violations).
THEOREM NeverStuck == Spec => [](Over \/ CanGoOn)
<1>1. ASSUME IInv PROVE Over \/ CanGoOn
  <2>1. CASE pc = "check" /\ answer = <<>> /\ (Conflicts = {} \/ retries = 1)
    <3>1. valid \ Conflicts \in SUBSET Shift /\ IsFiniteSet(valid \ Conflicts)
      BY <1>1, <2>1, FS_Difference DEF IInv, ValidInv, TypeOK
    <3>2. \E K \in SUBSET (valid \ Conflicts) : Trimmed(valid \ Conflicts, K)
      BY <1>1, <3>1, TrimExists DEF IInv, DraftInv
    <3> QED BY <2>1, <3>2 DEF CanGoOn
  <2>2. CASE pc = "check" /\ ~(answer = <<>> /\ (Conflicts = {} \/ retries = 1))
    <3>1. retries \in 0..1
      BY <1>1 DEF IInv, TypeOK
    <3>2. answer # <<>> \/ (Conflicts # {} /\ retries = 0)
      BY <2>2, <3>1
    <3> QED BY <2>2, <3>2 DEF CanGoOn
  <2>3. CASE pc = "route"
    <3>1. asked \in 0..MaxAnswers
      BY <1>1 DEF IInv, TypeOK
    <3>2. asked <= MaxAnswers
      BY <3>1, PipelineAssumption
    <3> QED BY <2>3, <3>2 DEF CanGoOn
  <2>4. CASE pc \in {"load", "ask", "assign"}
    BY <1>1, <2>4 DEF CanGoOn, IInv, LeftInv
  <2>5. CASE pc \in {"overrun", "done"}
    <3>1. pc = "done" => \A l \in Locations : outcome[l] # "none"
      BY <1>1 DEF IInv, LeftInv
    <3> QED BY <1>1, <2>5, <3>1 DEF Over, IInv, LeftInv
  <2> QED BY <1>1, <2>1, <2>2, <2>3, <2>4, <2>5 DEF IInv, TypeOK
<1> QED BY <1>1, Invariance, PTL

-----------------------------------------------------------------------------
(* Why a location may be asked about more than twice *)

\* A commit that follows a retry finds the conflict again.
ClashesAgain == Commit /\ path = "llm" /\ notes => clashed' # {}

\* The first answer is the only one before the retry, and the second the only one
\* after it.
RetryInv ==
    /\ RetriedOnce
    /\ retries = 0 => ~notes
    /\ pc = "ask" => asked <= retries
    /\ pc \in {"assign", "check"} => asked <= 1 \/ retries = 1
    /\ pc = "route" /\ WantsRetry => asked <= 1

LEMMA RetryStep ==
    ASSUME IInv, RetryInv, [Next]_vars, [ClashesAgain]_vars
    PROVE  RetryInv'
<1>a. asked \in Nat /\ retries \in {0, 1}
  BY DEF IInv, TypeOK
<1>1. ASSUME NEW l \in Locations, Load(l) PROVE RetryInv'
  BY <1>1 DEF Load, RetryInv, RetriedOnce, WantsRetry
<1>2. CASE Ask \/ AskInVain
  <2>1. /\ pc = "ask" /\ pc' = "check" /\ asked' = asked + 1
        /\ UNCHANGED <<retries, notes>>
    BY <1>2 DEF Ask, AskInVain, Answered
  <2> QED
    BY <1>a, <2>1 DEF RetryInv, RetriedOnce
<1>3. CASE (\E e \in Employees : Assign(e)) \/ LeaveOpen \/ Check \/ UNCHANGED vars
  BY <1>3 DEF Assign, LeaveOpen, Check, vars, context, shifts, RetryInv, RetriedOnce, WantsRetry,
     Seated
<1>4. CASE Walked
  <2>1. pc = "assign" /\ pc' = "check" /\ UNCHANGED <<asked, retries, notes>>
    BY <1>4 DEF Walked, context
  <2> QED
    BY <2>1 DEF RetryInv, RetriedOnce
<1>5. CASE Reconsider
  BY <1>a, <1>5 DEF Reconsider, RetryInv, RetriedOnce
<1>6. CASE Commit
  <2>1. pc = "check" /\ pc' = "route" /\ UNCHANGED <<path, asked, retries, notes>>
    BY <1>6 DEF Commit, context
  <2>2. vars' # vars
    BY <2>1 DEF vars
  <2>3. ~WantsRetry'
    BY <1>6, <2>1, <2>2 DEF ClashesAgain, WantsRetry
  <2> QED
    BY <2>1, <2>3 DEF RetryInv, RetriedOnce
<1>7. CASE AskAgain
  BY <1>7 DEF AskAgain, context, RetryInv, RetriedOnce, WantsRetry
<1>8. CASE Overrun \/ EmitResult
  BY <1>8 DEF Overrun, EmitResult, context, RetryInv, RetriedOnce
<1> QED
  BY <1>1, <1>2, <1>3, <1>4, <1>5, <1>6, <1>7, <1>8 DEF Next

\* A location is asked about again and again only because a retry that resolved
\* the conflict leaves the notes of it: if what was asked for a second time always
\* clashed again, the second answer would be the last, as it is meant to be.
THEOREM RetriedOnceUnlessResolved ==
    Spec /\ [][ClashesAgain]_vars => []RetriedOnce
<1>1. Init => RetryInv
  BY DEF Init, RetryInv, RetriedOnce
<1>2. RetryInv => RetriedOnce
  BY DEF RetryInv
<1> QED
  BY <1>1, <1>2, RetryStep, Invariance, PTL DEF Spec
=============================================================================
