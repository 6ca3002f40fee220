----------------------------- MODULE DraftReview -----------------------------
(***************************************************************************)
(* The Schedule page, on which a manager reviews the drafts of a generate  *)
(* run, against the routes it calls: the stream of results, edits that are *)
(* saved as they are made, approvals, rejections, resets and further runs  *)
(* (frontend/src/pages/manager/Schedule.tsx, hooks/useScheduleStream.ts,   *)
(* api/schedules.ts, backend/routers/schedules.py).                        *)
(*                                                                         *)
(* The page has one card per location, and any number of requests in       *)
(* flight.  The server serves them in any order, reading and writing in    *)
(* separate statements; answers arrive in any order, or are lost.  A       *)
(* handler that awaits answers is continued by them with what it had when  *)
(* it was called, whatever the page shows by then.                         *)
(*                                                                         *)
(* A draft's list of shifts is the run that made it and the edits that     *)
(* have been made to it.                                                   *)
(***************************************************************************)
EXTENDS Naturals

CONSTANTS
    Locs,      \* locations, and so cards
    Requests,  \* bound: requests in flight at once
    MaxRuns,   \* bound: generate runs
    MaxEdits,  \* bound: edits a manager makes
    Nobody,    \* no card's shift is being edited
    NoList     \* a card with no list

Runs  == 1..MaxRuns
Edits == 1..MaxEdits
List  == [run : Runs, has : SUBSET Edits]

\* What a run drafts.
Empty(g) == [run |-> g, has |-> {}]

ASSUME ReviewAssumption ==
    /\ MaxRuns \in Nat /\ MaxEdits \in Nat
    /\ Nobody \notin Locs
    /\ NoList \notin List

VARIABLES
    \* The page
    run,        \* runs it has started, over its reloads
    streaming,  \* isStreaming
    results,    \* by location, the run whose result is there, or 0
    edited,     \* editedShifts
    approved,   \* approvedLocations
    rejected,   \* rejectedLocations
    seq,        \* saveSeq
    saving,     \* saving
    locked,     \* lockActive
    editing,    \* editingShift
    edits,      \* edits made so far
    \* The network
    req,        \* the requests in flight
    \* The server: of each location's schedule of each run
    status,     \* shift_schedules.status
    draft       \* shift_schedules.raw_llm_output

stream == <<run, streaming, results>>
marks  == <<approved, rejected>>
page   == <<stream, marks, edited, seq, saving, locked, editing, edits>>
server == <<status, draft>>
vars   == <<page, req, server>>

\* A request: what it is for, its schedule, the list it was clicked on with, and
\* where it is.  heard: the page still waits.  alone: of an approval, no other
\* save of its location was in flight when it was clicked.
Idle == [kind |-> "none"]
Request ==
    [kind : {"put", "save", "approve", "reject"}, loc : Locs, run : Runs,
     list : List, seq : 0..MaxEdits, alone : BOOLEAN,
     at : {"sent", "read", "same", "ok"}, heard : BOOLEAN]

-----------------------------------------------------------------------------
Busy(r)    == req[r] # Idle
Decided(l) == l \in approved \cup rejected
Card(l)    == results[l] # 0
Saves(l)   == {r \in Requests : req[r].kind \in {"put", "save"} /\ req[r].loc = l}

\* editingShift's modal covers the page.
Clickable == editing = Nobody

\* Nobody waits for a request any more: what it was numbered is forgotten with it.
Orphan(q) == IF q.at = "ok" THEN Idle ELSE [q EXCEPT !.heard = FALSE, !.seq = 0]

Send(r, kind, l, list, n) ==
    /\ ~Busy(r)
    /\ req' = [req EXCEPT ![r] =
          [kind |-> kind, loc |-> l, run |-> results[l], list |-> list, seq |-> n,
           alone |-> kind = "save" /\ Saves(l) = {}, at |-> "sent", heard |-> TRUE]]

Init ==
    /\ run = 0
    /\ streaming = FALSE
    /\ results = [l \in Locs |-> 0]
    /\ edited = [l \in Locs |-> NoList]
    /\ approved = {} /\ rejected = {}
    /\ seq = [l \in Locs |-> 0]
    /\ saving = FALSE /\ locked = FALSE
    /\ editing = Nobody
    /\ edits = 0
    /\ req = [r \in Requests |-> Idle]
    /\ status = [l \in Locs |-> [g \in Runs |-> "none"]]
    /\ draft = [l \in Locs |-> [g \in Runs |-> NoList]]

-----------------------------------------------------------------------------
(* The stream *)

\* handleConfirmGenerate: the page forgets the last run, not the saves of it that
\* are in flight, nor their numbers.  A lock that is heard of while the templates
\* are picked does not disable it.
Generate ==
    /\ Clickable /\ ~streaming /\ run < MaxRuns
    /\ run' = run + 1
    /\ streaming' = TRUE
    /\ results' = [l \in Locs |-> 0]
    /\ edited' = [l \in Locs |-> NoList]
    /\ approved' = {} /\ rejected' = {}
    /\ UNCHANGED <<seq, saving, locked, editing, edits, req, server>>

\* (Mutant: the effect that fills editedShifts is gone.)
Result_NotSeeded(l) ==
    /\ streaming /\ ~Card(l)
    /\ results' = [results EXCEPT ![l] = run]
    /\ UNCHANGED edited
    /\ status' = [status EXCEPT ![l][run] = "draft"]
    /\ draft' = [draft EXCEPT ![l][run] = Empty(run)]
    /\ UNCHANGED <<run, streaming, marks, seq, saving, locked, editing, edits, req>>

\* A location's draft is inserted and its result streamed.  editedShifts gets the
\* list if it has none there.
Result(l) ==
    /\ streaming /\ ~Card(l)
    /\ results' = [results EXCEPT ![l] = run]
    /\ edited' = [edited EXCEPT ![l] = IF @ = NoList THEN Empty(run) ELSE @]
    /\ status' = [status EXCEPT ![l][run] = "draft"]
    /\ draft' = [draft EXCEPT ![l][run] = Empty(run)]
    /\ UNCHANGED <<run, streaming, marks, seq, saving, locked, editing, edits, req>>

\* The stream ends, or breaks; or was refused with a 409 schedule_locked.
EndStream ==
    /\ streaming
    /\ streaming' = FALSE
    /\ \/ UNCHANGED locked
       \/ (\A l \in Locs : ~Card(l)) /\ locked' = TRUE
    /\ UNCHANGED <<run, results, marks, edited, seq, saving, editing, edits, req, server>>

\* The reset button.
Reset ==
    /\ Clickable /\ ~streaming /\ \E l \in Locs : Card(l)
    /\ results' = [l \in Locs |-> 0]
    /\ edited' = [l \in Locs |-> NoList]
    /\ UNCHANGED <<run, streaming, marks, seq, saving, locked, editing, edits, req, server>>

\* The page is closed or reloaded: nobody waits for what is in flight.
Reload ==
    /\ streaming' = FALSE
    /\ results' = [l \in Locs |-> 0]
    /\ edited' = [l \in Locs |-> NoList]
    /\ approved' = {} /\ rejected' = {}
    /\ seq' = [l \in Locs |-> 0]
    /\ saving' = FALSE /\ locked' = FALSE
    /\ editing' = Nobody
    /\ req' = [r \in Requests |-> IF Busy(r) THEN Orphan(req[r]) ELSE Idle]
    /\ UNCHANGED <<run, edits, server>>

\* The toast has counted down.
LockExpires ==
    /\ locked /\ locked' = FALSE
    /\ UNCHANGED <<stream, marks, edited, seq, saving, editing, edits, req, server>>

-----------------------------------------------------------------------------
(* The manager *)

\* A shift of a card that is not decided is opened, or an open shift is to be
\* added.  The modal stays when the card is decided meanwhile.
OpenEditor(l) ==
    /\ Clickable /\ Card(l) /\ ~Decided(l)
    /\ editing' = l
    /\ UNCHANGED <<stream, marks, edited, seq, saving, locked, edits, req, server>>

CloseEditor ==
    /\ ~Clickable
    /\ editing' = Nobody
    /\ UNCHANGED <<stream, marks, edited, seq, saving, locked, edits, req, server>>

\* handleSaveShift, handleDeleteShift, handleAddOpenShift: the list is shown, and
\* persistDraft saves it under the next number.
Edit(r) ==
    LET l == editing
        next == [edited[l] EXCEPT !.has = @ \cup {edits + 1}]
    IN
    /\ ~Clickable /\ Card(l) /\ edits < MaxEdits
    /\ edits' = edits + 1
    /\ edited' = [edited EXCEPT ![l] = next]
    /\ editing' = Nobody
    /\ seq' = [seq EXCEPT ![l] = @ + 1]
    /\ Send(r, "put", l, next, seq[l] + 1)
    /\ UNCHANGED <<stream, marks, saving, locked, server>>

\* (Mutant: edits have been saved already, so approve does not save.)
Approve_Unsaved(r, l) ==
    /\ Clickable /\ Card(l) /\ ~Decided(l) /\ ~saving /\ ~locked
    /\ ~Busy(r)
    /\ req' = [req EXCEPT ![r] =
          [kind |-> "approve", loc |-> l, run |-> results[l], list |-> edited[l], seq |-> 0,
           alone |-> Saves(l) = {}, at |-> "sent", heard |-> TRUE]]
    /\ UNCHANGED <<page, server>>

\* handleApprove: the list is saved first, under no number.
Approve(r, l) ==
    /\ Clickable /\ Card(l) /\ ~Decided(l) /\ ~saving /\ ~locked
    /\ saving' = TRUE
    /\ Send(r, "save", l, edited[l], 0)
    /\ UNCHANGED <<stream, marks, edited, seq, locked, editing, edits, server>>

\* handleReject: the button is never disabled.
Reject(r, l) ==
    /\ Clickable /\ Card(l) /\ ~Decided(l)
    /\ Send(r, "reject", l, Empty(results[l]), 0)
    /\ UNCHANGED <<page, server>>

-----------------------------------------------------------------------------
(* The server *)

\* Served: an answer for who waits.  A refusal changes nothing here: see Unanswered.
Serve(r) == req' = [req EXCEPT ![r] = IF @.heard THEN [@ EXCEPT !.at = "ok"] ELSE Idle]

\* update_shifts reads the schedule, and finds its status and its list, which may
\* be word for word the one it is sent,
ReadStatus(r) ==
    /\ req[r].kind \in {"put", "save"} /\ req[r].at = "sent"
    /\ status[req[r].loc][req[r].run] # "approved"
    /\ \/ req' = [req EXCEPT ![r].at = "read"]
       \/ /\ draft[req[r].loc][req[r].run] = req[r].list
          /\ req' = [req EXCEPT ![r].at = "same"]
    /\ UNCHANGED <<page, server>>

\* and writes the list later.  A column set to what was read is not written.
WriteDraft(r) ==
    /\ req[r].kind \in {"put", "save"}
    /\ \/ /\ req[r].at = "read"
          /\ draft' = [draft EXCEPT ![req[r].loc][req[r].run] = req[r].list]
       \/ /\ req[r].at = "same"
          /\ UNCHANGED draft
    /\ Serve(r)
    /\ UNCHANGED <<page, status>>

\* approve_schedule turns the list that is there into shifts.
Materialise(r) ==
    /\ req[r].kind = "approve" /\ req[r].at = "sent"
    /\ status[req[r].loc][req[r].run] # "approved"
    /\ status' = [status EXCEPT ![req[r].loc][req[r].run] = "approved"]
    /\ Serve(r)
    /\ UNCHANGED <<page, draft>>

\* reject_schedule.
SetRejected(r) ==
    /\ req[r].kind = "reject" /\ req[r].at = "sent"
    /\ status' = [status EXCEPT ![req[r].loc][req[r].run] = "rejected"]
    /\ Serve(r)
    /\ UNCHANGED <<page, draft>>

\* A request nobody waits for is refused, fails, or never arrives.
Drop(r) ==
    /\ Busy(r) /\ ~req[r].heard
    /\ req' = [req EXCEPT ![r] = Idle]
    /\ UNCHANGED <<page, server>>

-----------------------------------------------------------------------------
(* The answers *)

Done(r) == req' = [req EXCEPT ![r] = Idle]

\* (Mutant: any answer updates the page.)
Saved_Unguarded(r) ==
    /\ req[r].kind = "put" /\ req[r].at = "ok"
    /\ edited' = [edited EXCEPT ![req[r].loc] = req[r].list]
    /\ Done(r)
    /\ UNCHANGED <<stream, marks, seq, saving, locked, editing, edits, server>>

\* persistDraft goes on: only the latest save's answer is shown.
Saved(r) ==
    /\ req[r].kind = "put" /\ req[r].at = "ok"
    /\ edited' = [edited EXCEPT ![req[r].loc] =
          IF seq[req[r].loc] = req[r].seq THEN req[r].list ELSE @]
    /\ Done(r)
    /\ UNCHANGED <<stream, marks, seq, saving, locked, editing, edits, server>>

\* handleApprove goes on: the schedule that was clicked is approved.
SavedFirst(r) ==
    /\ req[r].kind = "save" /\ req[r].at = "ok"
    /\ saving' = FALSE
    /\ req' = [req EXCEPT ![r].kind = "approve", ![r].at = "sent"]
    /\ UNCHANGED <<stream, marks, edited, seq, locked, editing, edits, server>>

\* approvedLocations and rejectedLocations name locations, not schedules.
Approved(r) ==
    /\ req[r].kind = "approve" /\ req[r].at = "ok"
    /\ approved' = approved \cup {req[r].loc}
    /\ Done(r)
    /\ UNCHANGED <<stream, rejected, edited, seq, saving, locked, editing, edits, server>>

Rejected(r) ==
    /\ req[r].kind = "reject" /\ req[r].at = "ok"
    /\ rejected' = rejected \cup {req[r].loc}
    /\ Done(r)
    /\ UNCHANGED <<stream, approved, edited, seq, saving, locked, editing, edits, server>>

\* 409 schedule_locked.
ShowLock(r) ==
    /\ req[r].kind = "approve" /\ req[r].at = "sent" /\ req[r].heard
    /\ locked' = TRUE
    /\ Done(r)
    /\ UNCHANGED <<stream, marks, edited, seq, saving, editing, edits, server>>

\* The page hears no more of a request: it was refused ("Schedule already
\* approved", an employee who is gone), or failed, or the connection breaks and the
\* server may go on.
Unanswered(r) == Done(r) \/ req' = [req EXCEPT ![r] = Orphan(@)]

\* (Mutant: saving is reset where the save went well, not in the finally.)
ShowError_StillSaving(r) ==
    /\ Busy(r) /\ req[r].heard
    /\ UNCHANGED saving
    /\ Unanswered(r)
    /\ UNCHANGED <<stream, marks, edited, seq, locked, editing, edits, server>>

\* An error is shown, and the finally of saveShifts runs.
ShowError(r) ==
    /\ Busy(r) /\ req[r].heard
    /\ saving' = (saving /\ req[r].kind # "save")
    /\ Unanswered(r)
    /\ UNCHANGED <<stream, marks, edited, seq, locked, editing, edits, server>>

-----------------------------------------------------------------------------
Server(r) ==
    ReadStatus(r) \/ WriteDraft(r) \/ Materialise(r) \/ SetRejected(r) \/ Drop(r)

Hear(r) ==
    Saved(r) \/ SavedFirst(r) \/ Approved(r) \/ Rejected(r) \/ ShowLock(r) \/ ShowError(r)

Next ==
    \/ Generate \/ EndStream \/ Reset \/ Reload \/ LockExpires \/ CloseEditor
    \/ \E l \in Locs : Result(l) \/ OpenEditor(l)
    \/ \E r \in Requests :
          \/ Edit(r) \/ Server(r) \/ Hear(r)
          \/ \E l \in Locs : Approve(r, l) \/ Reject(r, l)

Spec == Init /\ [][Next]_vars

-----------------------------------------------------------------------------
(* Properties *)

\* Every variable has its type, and every card has a list (Schedule.tsx:583).
TypeOK ==
    /\ run \in 0..MaxRuns
    /\ streaming \in BOOLEAN
    /\ results \in [Locs -> 0..MaxRuns]
    /\ edited \in [Locs -> List \cup {NoList}]
    /\ approved \in SUBSET Locs /\ rejected \in SUBSET Locs
    /\ edits \in 0..MaxEdits
    /\ seq \in [Locs -> 0..edits]
    /\ saving \in BOOLEAN /\ locked \in BOOLEAN
    /\ editing \in Locs \cup {Nobody}
    /\ req \in [Requests -> Request \cup {Idle}]
    /\ status \in [Locs -> [Runs -> {"none", "draft", "approved", "rejected"}]]
    /\ draft \in [Locs -> [Runs -> List \cup {NoList}]]
    /\ \A l \in Locs : Card(l) => edited[l] # NoList

\* No answer, in whatever order they come, takes an edit back from what a card
\* shows of a draft: a slower earlier save does not clobber a newer edit or
\* resurrect a shift that was removed (Schedule.tsx:428, 773-777).
EditsAreKept ==
    [][\A l \in Locs :
          edited[l] # NoList /\ edited'[l] # NoList /\ edited'[l].run = edited[l].run
          => edited[l].has \subseteq edited'[l].has]_vars

\* What an approval turns into shifts has every edit the card showed when Approve
\* was clicked, though saves may have failed, been lost or been written in another
\* order before, and edits go on meanwhile.  It takes that no other save of the
\* location was still in flight at the click (Schedule.tsx:720, "Persist any edits
\* first").
ApprovedAsShown ==
    [][\A r \in Requests :
          Materialise(r) /\ req[r].alone =>
              LET d == draft[req[r].loc][req[r].run]
              IN  d.run = req[r].list.run /\ req[r].list.has \subseteq d.has]_vars

\* The flag that disables Approve on every card is up exactly while the page waits
\* for the save of an approval: a failure, a lost answer, a reload or a further run
\* meanwhile leaves no card with a button that stays disabled, or that is enabled
\* while its save is under way (Schedule.tsx:705-710, 1608).
SavingIsAwaited ==
    saving <=> \E r \in Requests : req[r].kind = "save" /\ req[r].heard
=============================================================================
