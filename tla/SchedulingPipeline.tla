-------------------------- MODULE SchedulingPipeline --------------------------
(***************************************************************************)
(* The scheduling graph: a generate run takes the locations one at a time, *)
(* has shifts proposed for each by the language model or by the local      *)
(* scheduler, drops the illegal ones, reconciles the rest with what was    *)
(* committed for the earlier locations, and emits a result                 *)
(* (backend/scheduling/graph.py, nodes.py, local_scheduler.py,             *)
(* rest_rules.py, preferences.py, prompts.py).                             *)
(*                                                                         *)
(* The model is not trusted: it may answer any shifts, in any order, or    *)
(* nothing that can be read.  The local scheduler walks the template seat  *)
(* by seat; its strategies differ in whom they prefer among the candidates *)
(* left, so here it may take any of them.                                  *)
(*                                                                         *)
(* A shift is somebody's span of hours at a location.  Hours count from    *)
(* the beginning of the week on the wall clock; the moment an hour is at a *)
(* location is the hour plus the zone's offset.  Availability is compared  *)
(* by the clock, overlap and rest by the moment.  There is one role, and   *)
(* no shift goes on into the next day.                                     *)
(*                                                                         *)
(* Each employee has at most one hard frequency cap: the spans it counts   *)
(* and how many of them a week may have.                                   *)
(***************************************************************************)
EXTENDS Naturals, Sequences, FiniteSets

CONSTANTS
    Locations, Employees,
    Spans,        \* pairs of hours, of shifts
    DayLength,    \* hours of a day
    Zones,        \* offsets the locations may have
    Staff,        \* of a location, who works there and has the role
    Windows,      \* of an employee, the hours available, less blackouts and approved shifts
    Template,     \* of a location, a sequence of seats: the spans, each headcount times
    MaxHours,     \* max_hours_per_week
    MinRest,      \* of a location, min_rest_hours, or 0
    Apart,        \* pairs of employees, the first -1.0 towards the second
    Capped,       \* of an employee, the spans a weight-1.0 hour_range_cap counts
    MaxPerWeek,   \* and how many it allows
    Refused,      \* of an employee, the spans that weight-1.0 preferences forbid
    Nowhere,      \* no location is loaded
    MaxShifts,    \* bound: shifts of an answer
    MaxAnswers    \* bound: answers to a location, LangGraph's limit on steps

Shift   == [who : Employees, at : Locations, span : Spans]
Day(s)  == s.span[1] \div DayLength
Hours(s) == s.span[1]..(s.span[2] - 1)

ASSUME PipelineAssumption ==
    /\ Locations # {}  \* run_scheduling_pipeline returns before there is a graph
    /\ IsFiniteSet(Locations) /\ IsFiniteSet(Employees) /\ IsFiniteSet(Spans)
    /\ DayLength \in Nat \ {0}
    /\ \A sp \in Spans : sp \in Nat \X Nat /\ sp[1] < sp[2]
    /\ \A sp \in Spans : sp[1] \div DayLength = (sp[2] - 1) \div DayLength
    /\ Zones \subseteq [Locations -> Nat]
    /\ Staff \in [Locations -> SUBSET Employees]
    /\ Windows \in [Employees -> SUBSET Nat]
    /\ Template \in [Locations -> Seq(Spans)]
    /\ MaxHours \in [Employees -> Nat]
    /\ MinRest \in [Locations -> Nat]
    /\ Apart \subseteq Employees \X Employees
    /\ Capped \in [Employees -> SUBSET Spans]
    /\ MaxPerWeek \in [Employees -> Nat]
    /\ Refused \in [Employees -> SUBSET Spans]
    /\ Nowhere \notin Locations
    /\ MaxShifts \in Nat /\ MaxAnswers \in Nat \ {0}

VARIABLES
    path,      \* use_local: which of the two graphs runs
    zone,      \* the locations' offsets
    pc,        \* the node that is next
    left,      \* locations still to do
    here,      \* current_location
    free,      \* available_windows, as current_employees has them
    seat,      \* where the local scheduler is in the template
    answer,    \* current_parsed_shifts: proposed, still to be checked
    valid,     \* and those that were found legal
    retries,   \* retry_count
    notes,     \* conflict_notes is not empty
    asked,     \* answers of the model to this location
    failed,    \* errors has a PARSE_ERROR of this location
    clashed,   \* shifts marked CONFLICT
    kept,      \* shifts that are "ok" after the reconciliation
    draft,     \* availability_draft, with what the other two drafts count
    emitted,   \* "ok" shifts of the results
    outcome    \* and their status

context == <<here, free, retries, notes, asked, failed>>
shifts  == <<seat, answer, valid, clashed, kept>>
results == <<left, emitted, outcome>>
vars    == <<path, zone, pc, context, shifts, draft, results>>

-----------------------------------------------------------------------------
(* Rules about shifts *)

Of(e, S)      == {s \in S : s.who = e}
Start(s)      == s.span[1] + zone[s.at]
End(s)        == s.span[2] + zone[s.at]
Overlap(s, t) == Start(s) < End(t) /\ Start(t) < End(s)
Length(s)     == s.span[2] - s.span[1]

\* Somebody's hours in S, each shift's counted for itself.
Worked(e, S)  == Cardinality(UNION {{s} \X Hours(s) : s \in Of(e, S)})
Counted(e, S) == {s \in Of(e, S) : s.span \in Capped[e]}

\* _rest_gap_hours: from the end of the earlier shift to the start of the later.
Rested(s, t, m) ==
    IF Start(s) <= Start(t) THEN End(s) + m <= Start(t) ELSE End(t) + m <= Start(s)

\* (Mutant: the hours of earlier locations are not seeded.)
WithinHours_Reset(s, S) == Worked(s.who, S) + Length(s) <= MaxHours[s.who]

\* The weekly cap, over the run's earlier locations and this one's shifts S.
WithinHours(s, S) ==
    Worked(s.who, draft) + Worked(s.who, S) + Length(s) <= MaxHours[s.who]

\* (Mutant: the shifts of earlier locations are not seeded.)
RestKept_Reset(s, S) ==
    MinRest[s.at] = 0 \/
        \A t \in Of(s.who, S) : Day(t) # Day(s) => Rested(s, t, MinRest[s.at])

\* _min_rest_violation, against the same.  Split shifts of a day are exempt.
RestKept(s, S) ==
    MinRest[s.at] = 0 \/
        \A t \in Of(s.who, draft \cup S) : Day(t) # Day(s) => Rested(s, t, MinRest[s.at])

\* (Mutant: only the affinities of the one who is placed are looked at.)
Compatible_OneWay(s, S) ==
    \A t \in S : Day(t) = Day(s) /\ Overlap(s, t) => <<s.who, t.who>> \notin Apart

\* Nobody with a -1.0 affinity, in either direction, on a shift that overlaps.
Compatible(s, S) ==
    \A t \in S : Day(t) = Day(s) /\ Overlap(s, t) =>
        <<s.who, t.who>> \notin Apart /\ <<t.who, s.who>> \notin Apart

\* validate_schedule's checks.  The shifts found legal before s are in valid.
Legal(s) ==
    /\ s.who \in Staff[here]
    /\ Hours(s) \subseteq free[s.who]
    /\ WithinHours(s, valid)
    /\ RestKept(s, valid)
    /\ Compatible(s, valid)

-----------------------------------------------------------------------------
Init ==
    /\ path \in {"llm", "local"}
    /\ zone \in Zones
    /\ pc = "load" /\ left = Locations
    /\ here = Nowhere /\ free = Windows
    /\ seat = 1 /\ answer = <<>>
    /\ valid = {} /\ clashed = {} /\ kept = {}
    /\ retries = 0 /\ notes = FALSE
    /\ asked = 0 /\ failed = FALSE
    /\ draft = {} /\ emitted = {}
    /\ outcome = [l \in Locations |-> "none"]

\* (Mutant: what earlier locations took is left in the windows.)
Load_Whole(l) ==
    /\ pc = "load" /\ l \in left
    /\ pc' = IF path = "llm" THEN "ask" ELSE "assign"
    /\ here' = l
    /\ UNCHANGED free
    /\ seat' = 1 /\ answer' = <<>>
    /\ valid' = {} /\ clashed' = {} /\ kept' = {}
    /\ retries' = 0 /\ notes' = FALSE
    /\ asked' = 0 /\ failed' = FALSE
    /\ UNCHANGED <<path, zone, draft, results>>

\* The next location, in the order the database returned them.  What its staff
\* were given at earlier ones is taken out of their windows.
Load(l) ==
    /\ pc = "load" /\ l \in left
    /\ pc' = IF path = "llm" THEN "ask" ELSE "assign"
    /\ here' = l
    /\ free' = [e \in Employees |->
          IF e \in Staff[l] THEN free[e] \ UNION {Hours(d) : d \in Of(e, draft)} ELSE free[e]]
    /\ seat' = 1 /\ answer' = <<>>
    /\ valid' = {} /\ clashed' = {} /\ kept' = {}
    /\ retries' = 0 /\ notes' = FALSE
    /\ asked' = 0 /\ failed' = FALSE
    /\ UNCHANGED <<path, zone, draft, results>>

-----------------------------------------------------------------------------
(* The language model *)

\* A list of shifts at l, none of them twice.
Answers(l) ==
    {a \in UNION {[1..n -> {s \in Shift : s.at = l}] : n \in 0..MaxShifts} :
        \A i, j \in DOMAIN a : a[i] = a[j] => i = j}

Answered(a) ==
    /\ pc = "ask"
    /\ pc' = "check"
    /\ asked' = asked + 1
    /\ answer' = a /\ valid' = {}
    /\ UNCHANGED <<path, zone, here, free, retries, notes, seat, clashed, kept, draft, results>>

\* build_prompt, call_llm and parse_schedule.
Ask == \E a \in Answers(here) : Answered(a) /\ UNCHANGED failed

\* The call fails, or nothing in the answer can be read.
AskInVain == Answered(<<>>) /\ failed' = TRUE

-----------------------------------------------------------------------------
(* The local scheduler *)

Picks == {answer[i] : i \in DOMAIN answer}

\* The seat of the same day that comes last: _build_eligible_map keeps one list per
\* day and role, the last one.
LastOfDay(k) ==
    LET days == {j \in DOMAIN Template[here] :
                    Template[here][j][1] \div DayLength = Template[here][k][1] \div DayLength}
    IN  CHOOSE j \in days : \A i \in days : i <= j

\* blocked_by_hard_preference, with the cap's count so far.
Blocked(s, used) ==
    \/ s.span \in Refused[s.who]
    \/ s.span \in Capped[s.who] /\ used >= MaxPerWeek[s.who]

\* eligible_for_slot: before any seat is taken.
Eligible(s) ==
    /\ s.who \in Staff[here]
    /\ Hours(s) \subseteq free[s.who]
    /\ ~Blocked(s, 0)

Candidate(s) ==
    /\ Eligible([s EXCEPT !.span = Template[here][LastOfDay(seat)]])
    /\ \A t \in Of(s.who, Picks) : ~(Day(t) = Day(s) /\ Overlap(s, t))
    /\ WithinHours(s, Picks)
    /\ RestKept(s, Picks)
    /\ Compatible(s, Picks)
    /\ ~Blocked(s, Cardinality(Counted(s.who, draft \cup Picks)))

At(e) == [who |-> e, at |-> here, span |-> Template[here][seat]]

Seated == pc = "assign" /\ seat <= Len(Template[here])

\* Any candidate may be the one its strategy ranks first.
Assign(e) ==
    /\ Seated /\ Candidate(At(e))
    /\ answer' = Append(answer, At(e))
    /\ seat' = seat + 1
    /\ UNCHANGED <<path, zone, pc, context, valid, clashed, kept, draft, results>>

\* (Mutant: a seat nobody can take is tried again.)
LeaveOpen_Stuck ==
    /\ Seated /\ \A e \in Employees : ~Candidate(At(e))
    /\ UNCHANGED vars

\* Nobody can: the walk goes on to the next slot.
LeaveOpen ==
    /\ Seated /\ \A e \in Employees : ~Candidate(At(e))
    /\ seat' = seat + 1
    /\ UNCHANGED <<path, zone, pc, context, answer, valid, clashed, kept, draft, results>>

Walked ==
    /\ pc = "assign" /\ ~Seated
    /\ pc' = "check"
    /\ UNCHANGED <<path, zone, context, shifts, draft, results>>

-----------------------------------------------------------------------------
(* The nodes both graphs have *)

\* validate_schedule: the next shift of the list is kept, or dropped.
Check ==
    /\ pc = "check" /\ answer # <<>>
    /\ answer' = Tail(answer)
    /\ valid' = IF Legal(Head(answer)) THEN valid \cup {Head(answer)} ELSE valid
    /\ UNCHANGED <<path, zone, pc, context, seat, clashed, kept, draft, results>>

Conflicts == {s \in valid : \E d \in Of(s.who, draft) : Overlap(s, d)}

\* validate_and_update_availability, the first time there is a conflict: nothing is
\* marked and nothing is committed.
Reconsider ==
    /\ pc = "check" /\ answer = <<>>
    /\ Conflicts # {} /\ retries = 0
    /\ pc' = "route"
    /\ retries' = 1 /\ notes' = TRUE
    /\ kept' = valid
    /\ UNCHANGED <<path, zone, here, free, asked, failed, seat, answer, valid, clashed,
                   draft, results>>

\* (Mutant: the count starts again at each location.)
Trimmed_Reset(S, K) ==
    /\ \A s \in S \ K : s \in Counted(s.who, S)
    /\ \A e \in Employees :
          /\ Cardinality(Counted(e, K)) <= MaxPerWeek[e]
          /\ Counted(e, K) # Counted(e, S) => Cardinality(Counted(e, K)) >= MaxPerWeek[e]
          /\ \A s \in Counted(e, K), t \in Counted(e, S \ K) : s.span[1] <= t.span[1]

\* _trim_cap_violations leaves K of S: of those a cap counts the earliest, as many as
\* the week has room for.
Trimmed(S, K) ==
    /\ \A s \in S \ K : s \in Counted(s.who, S)
    /\ \A e \in Employees :
          LET used == Cardinality(Counted(e, draft)) + Cardinality(Counted(e, K))
          IN  /\ Counted(e, K) # {} => used <= MaxPerWeek[e]
              /\ Counted(e, K) # Counted(e, S) => used >= MaxPerWeek[e]
              /\ \A s \in Counted(e, K), t \in Counted(e, S \ K) : s.span[1] <= t.span[1]

\* There is no conflict, or there is one again and it is marked.  What a cap or a
\* preference forbids is vacated, and the rest is committed.
Commit ==
    /\ pc = "check" /\ answer = <<>>
    /\ Conflicts = {} \/ retries = 1
    /\ pc' = "route"
    /\ clashed' = Conflicts
    /\ \E K \in SUBSET (valid \ Conflicts) :
          /\ Trimmed(valid \ Conflicts, K)
          /\ kept' = {s \in K : s.span \notin Refused[s.who]}
    /\ draft' = draft \cup kept'
    /\ UNCHANGED <<path, zone, context, seat, answer, valid, results>>

\* _should_retry_or_emit.  Neither retry_count nor conflict_notes is ever reset by a
\* commit.
WantsRetry == path = "llm" /\ notes /\ clashed = {} /\ retries = 1

\* (Mutant: the run's steps are not limited.)
AskAgain_Unlimited ==
    /\ pc = "route" /\ WantsRetry
    /\ pc' = "ask"
    /\ UNCHANGED <<path, zone, context, shifts, draft, results>>

AskAgain ==
    /\ pc = "route" /\ WantsRetry /\ asked < MaxAnswers
    /\ pc' = "ask"
    /\ UNCHANGED <<path, zone, context, shifts, draft, results>>

\* LangGraph's limit is reached: astream raises and the run is over.
Overrun ==
    /\ pc = "route" /\ WantsRetry /\ asked = MaxAnswers
    /\ pc' = "overrun"
    /\ UNCHANGED <<path, zone, context, shifts, draft, results>>

\* annotate_preferences and emit_result.
EmitResult ==
    /\ pc = "route" /\ ~WantsRetry
    /\ emitted' = emitted \cup kept
    /\ outcome' = [outcome EXCEPT ![here] =
          IF failed THEN "PARSE_ERROR" ELSE IF clashed # {} THEN "CONFLICT" ELSE "ok"]
    /\ left' = left \ {here}
    /\ pc' = IF left' = {} THEN "done" ELSE "load"
    /\ UNCHANGED <<path, zone, context, shifts, draft>>

-----------------------------------------------------------------------------
Next ==
    \/ \E l \in Locations : Load(l)
    \/ Ask
    \/ AskInVain
    \/ \E e \in Employees : Assign(e)
    \/ LeaveOpen
    \/ Walked
    \/ Check
    \/ Reconsider
    \/ Commit
    \/ AskAgain
    \/ Overrun
    \/ EmitResult

\* The runtime goes from node to node by itself.
Spec == Init /\ [][Next]_vars /\ WF_vars(Next)

-----------------------------------------------------------------------------
TypeOK ==
    /\ path \in {"llm", "local"}
    /\ zone \in Zones
    /\ pc \in {"load", "ask", "assign", "check", "route", "overrun", "done"}
    /\ left \in SUBSET Locations
    /\ here \in Locations \cup {Nowhere}
    /\ free \in [Employees -> SUBSET Nat]
    /\ seat \in Nat \ {0}
    /\ answer \in Seq(Shift)
    /\ valid \in SUBSET Shift /\ clashed \in SUBSET Shift /\ kept \in SUBSET Shift
    /\ retries \in 0..1 /\ notes \in BOOLEAN
    /\ asked \in 0..MaxAnswers /\ failed \in BOOLEAN
    /\ draft \in SUBSET Shift /\ emitted \in SUBSET Shift
    /\ outcome \in [Locations -> {"none", "ok", "CONFLICT", "PARSE_ERROR"}]

\* The graph of the model asks again after a first conflict.  The local one goes on
\* as it is; but where the locations have one zone it meets none.
Reconciled == path = "llm" \/ \A l, m \in Locations : zone[l] = zone[m]

\* Nobody is emitted at two locations at once (README.md:35, layer 4).
NobodyInTwoPlaces ==
    Reconciled => \A s, t \in emitted :
        s.who = t.who /\ s.at # t.at => ~Overlap(s, t)

\* Over all locations of the run nobody is given more than their weekly hours.
HoursWithinCap ==
    Reconciled => \A e \in Employees : Worked(e, emitted) <= MaxHours[e]

\* Nor more shifts in a capped range than the cap allows.
FrequencyKept ==
    Reconciled => \A e \in Employees : Cardinality(Counted(e, emitted)) <= MaxPerWeek[e]

\* Two with a -1.0 affinity, in either direction, never share hours at a location.
ApartKept ==
    \A s, t \in emitted :
        s # t /\ s.at = t.at /\ Day(s) = Day(t) /\ Overlap(s, t) =>
            <<s.who, t.who>> \notin Apart

\* A location's shifts leave its own minimum rest before and after every shift of
\* another day the run has emitted, there and at earlier locations.
RestIsKept ==
    [][Reconciled =>
        \A s \in emitted' \ emitted, t \in emitted' :
            s.who = t.who /\ Day(s) # Day(t) /\ MinRest[s.at] # 0 =>
                Rested(s, t, MinRest[s.at])]_vars

\* A run ends: the local one with a result of every location, the other so too,
\* unless LangGraph stops it.
RunEnds ==
    <>(\/ pc = "overrun" /\ path = "llm"
       \/ pc = "done" /\ \A l \in Locations : outcome[l] # "none")

\* One retry, then the location is emitted as CONFLICT (README.md:17).
RetriedOnce == asked <= 2
=============================================================================
