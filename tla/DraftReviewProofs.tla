------------------------- MODULE DraftReviewProofs -------------------------
(***************************************************************************)
(* Theorems about the review of drafts, for any number of locations,       *)
(* requests, runs and edits.                                               *)
(*                                                                         *)
(* The inductive invariant follows a request by its place: what the page   *)
(* shows of a draft is within the latest save it waits for; and what an    *)
(* approval was clicked on is within what the card shows while it shows    *)
(* that run, within every save of that draft in flight, and, once its own  *)
(* save has written it or found it there, within the draft.                *)
(***************************************************************************)
EXTENDS DraftReview, TLAPS

IsPut(r)   == req[r].kind = "put" /\ req[r].heard
Awaited(r) == req[r].kind = "save" /\ req[r].heard
IsSave(r)  == req[r].kind \in {"put", "save"}

\* Two lists of one run, the first of which has no more edits.
Within(a, b) == a # NoList /\ b # NoList /\ a.run = b.run => a.has \subseteq b.has

\* A list of the run that r was clicked on, with the edits that were shown.
Holds(list, r) == list \in List /\ list.run = req[r].list.run /\ req[r].list.has \subseteq list.has

\* Cards are of the present run, which no card comes back to once it is reset.
RunInv ==
    /\ streaming => run # 0
    /\ \A l \in Locs : results[l] \in {0, run}
    /\ \A r \in Requests : Busy(r) =>
          /\ req[r].at = "ok" => req[r].heard
          /\ req[r].run <= run
          /\ req[r].run = run /\ results[req[r].loc] = 0 => ~streaming

\* One approval's save is awaited at a time, while saving is set.
SaveInv ==
    /\ saving <=> \E r \in Requests : Awaited(r)
    /\ \A r, q \in Requests : Awaited(r) /\ Awaited(q) => r = q

\* The numbers of the saves that are awaited.
PutInv ==
    /\ \A r \in Requests : IsPut(r) =>
          /\ req[r].seq \in 1..seq[req[r].loc]
          /\ req[r].seq = seq[req[r].loc] => Within(edited[req[r].loc], req[r].list)
    /\ \A r, q \in Requests :
          IsPut(r) /\ IsPut(q) /\ req[r].loc = req[q].loc /\ req[r].seq = req[q].seq => r = q

\* An approval clicked with no other save in flight, and where its list is.
AloneInv(r) ==
    Busy(r) /\ req[r].alone =>
        /\ req[r].kind \in {"save", "approve"}
        /\ results[req[r].loc] = req[r].run => Holds(edited[req[r].loc], r)
        /\ req[r].kind = "approve" \/ req[r].at \in {"same", "ok"} =>
              Holds(draft[req[r].loc][req[r].run], r)
        /\ \A q \in Requests \ {r} : IsSave(q) /\ req[q].loc = req[r].loc =>
              /\ req[q].run >= req[r].run
              /\ req[q].run = req[r].run => Holds(req[q].list, r)

IInv == TypeOK /\ RunInv /\ SaveInv /\ PutInv /\ \A r \in Requests : AloneInv(r)

-----------------------------------------------------------------------------
(* Types *)

\* The fields of a request in flight.
LEMMA RequestTypes ==
    ASSUME NEW x \in Request
    PROVE  /\ x # Idle /\ x.loc \in Locs /\ x.run \in Runs /\ x.list \in List
           /\ x.seq \in 0..MaxEdits /\ x.heard \in BOOLEAN /\ x.alone \in BOOLEAN
           /\ x.at \in {"sent", "read", "same", "ok"}
           /\ x.kind \in {"put", "save", "approve", "reject"}
BY DEF Request, Idle

\* What is in flight is a request, and only that has a kind.
LEMMA BusyTypes ==
    ASSUME TypeOK, NEW r \in Requests
    PROVE  /\ Busy(r) <=> req[r] \in Request
           /\ req[r].kind # "none" => Busy(r)
           /\ ~Busy(r) => req[r].kind = "none"
BY RequestTypes DEF TypeOK, Busy, Idle

\* Where a request goes, it stays one, with the same schedule and list.
Same(x, y) ==
    /\ x \in Request /\ y \in Request
    /\ y.loc = x.loc /\ y.run = x.run /\ y.list = x.list /\ y.alone = x.alone

\* A request whose place changes is the same request.
LEMMA PlaceChanges ==
    ASSUME NEW x \in Request, NEW a \in {"read", "same", "ok"}, NEW y, y = [x EXCEPT !.at = a]
    PROVE  Same(x, y) /\ y.kind = x.kind /\ y.at = a /\ y.heard = x.heard /\ y.seq = x.seq
BY DEF Same, Request

\* A save that becomes its approval is the same request.
LEMMA KindChanges ==
    ASSUME NEW x \in Request, NEW y, y = [x EXCEPT !.kind = "approve", !.at = "sent"]
    PROVE  Same(x, y) /\ y.kind = "approve" /\ y.at = "sent" /\ y.heard = x.heard /\ y.seq = x.seq
BY DEF Same, Request

\* A request nobody waits for is the same request.
LEMMA HeardChanges ==
    ASSUME NEW x \in Request, NEW y, y = [x EXCEPT !.heard = FALSE, !.seq = 0]
    PROVE  Same(x, y) /\ y.kind = x.kind /\ y.at = x.at /\ ~y.heard
<1>1. 0 \in 0..MaxEdits
  BY ReviewAssumption
<1> QED
  BY <1>1 DEF Same, Request

\* Lists: what a run drafts, and an edit of a list.
LEMMA ListTypes ==
    /\ \A g \in Runs : Empty(g) \in List /\ Empty(g).run = g /\ Empty(g).has = {}
    /\ \A x \in List : x.run \in Runs /\ x.has \subseteq Edits /\ x # NoList
    /\ \A x \in List, e \in Edits :
          LET y == [x EXCEPT !.has = @ \cup {e}]
          IN  y \in List /\ y.run = x.run /\ x.has \subseteq y.has
BY ReviewAssumption DEF List, Empty

\* A card that is there is of a run and has a list.
LEMMA CardTypes ==
    ASSUME IInv, NEW l \in Locs, Card(l)
    PROVE  results[l] \in Runs /\ results[l] = run /\ edited[l] \in List
BY ReviewAssumption DEF IInv, TypeOK, RunInv, Card, Runs

-----------------------------------------------------------------------------
(* How a request goes on *)

\* It stays as it is, ends, or moves on: no more awaited than it was, with its list
\* unless it is an approval, whose save has written it, or found it there.
Follows(r) ==
    \/ req'[r] = req[r]
    \/ req'[r] = Idle
    \/ /\ Same(req[r], req'[r])
       /\ \/ req'[r].kind = req[r].kind
          \/ req[r].kind = "save" /\ req[r].at = "ok" /\ req'[r].kind = "approve"
       /\ req'[r].heard => req[r].heard /\ req'[r].seq = req[r].seq
       /\ req'[r].at = "ok" => req'[r].heard
       /\ req'[r].at \in {"same", "ok"} =>
             \/ req[r].at \in {"same", "ok"} \/ req[r].kind # "save"
             \/ draft'[req[r].loc][req[r].run] = req[r].list

\* A step of r alone.
Moves(r) ==
    /\ req' \in [Requests -> Request \cup {Idle}]
    /\ Follows(r) /\ \A q \in Requests \ {r} : req'[q] = req[q]

\* A step of the server moves one request.
LEMMA ServerMoves ==
    ASSUME IInv, NEW r \in Requests, Server(r)
    PROVE  Moves(r)
<1>1. req \in [Requests -> Request \cup {Idle}]
  BY DEF IInv, TypeOK
<1>2. Busy(r) /\ req[r] \in Request
  BY BusyTypes DEF IInv, Server, ReadStatus, WriteDraft, Materialise, SetRejected, Drop
<1>3. PICK x : req' = [req EXCEPT ![r] = x]
  BY DEF Server, ReadStatus, WriteDraft, Materialise, SetRejected, Drop, Serve
<1>4. req'[r] = x /\ \A q \in Requests \ {r} : req'[q] = req[q]
  BY <1>1, <1>3
<1>5. Follows(r)
  <2>1. CASE ReadStatus(r)
    <3>1. PICK a \in {"read", "same"} :
             /\ req'[r] = [req[r] EXCEPT !.at = a]
             /\ a = "same" => draft'[req[r].loc][req[r].run] = req[r].list
      BY <1>1, <2>1 DEF ReadStatus, server
    <3>2. /\ Same(req[r], req'[r]) /\ req'[r].kind = req[r].kind /\ req'[r].at = a
          /\ req'[r].heard = req[r].heard /\ req'[r].seq = req[r].seq
      BY <1>2, <3>1, PlaceChanges
    <3> QED
      BY <3>1, <3>2 DEF Follows
  <2>2. ASSUME Serve(r),
               \/ req[r].kind # "save" \/ req[r].at = "same"
               \/ draft'[req[r].loc][req[r].run] = req[r].list
        PROVE  Follows(r)
    <3>1. req'[r] = IF req[r].heard THEN [req[r] EXCEPT !.at = "ok"] ELSE Idle
      BY <1>1, <2>2 DEF Serve
    <3>2. CASE req[r].heard
      <4>a. req'[r] = [req[r] EXCEPT !.at = "ok"]
        BY <3>1, <3>2
      <4>1. /\ Same(req[r], req'[r]) /\ req'[r].kind = req[r].kind /\ req'[r].at = "ok"
            /\ req'[r].heard = req[r].heard /\ req'[r].seq = req[r].seq
        BY <1>2, <4>a, PlaceChanges
      <4> QED
        BY <2>2, <3>2, <4>1 DEF Follows
    <3>3. CASE ~req[r].heard
      BY <3>1, <3>3 DEF Follows
    <3> QED
      BY <3>2, <3>3
  <2>3. ASSUME WriteDraft(r)
        PROVE  req[r].at = "same" \/ draft'[req[r].loc][req[r].run] = req[r].list
    BY <1>2, <2>3, RequestTypes DEF WriteDraft, IInv, TypeOK
  <2>4. CASE Drop(r)
    BY <1>1, <1>4, <2>4 DEF Drop, Follows
  <2> QED
    BY <2>1, <2>2, <2>3, <2>4 DEF Server, WriteDraft, Materialise, SetRejected
<1> QED
  BY <1>1, <1>2, <1>3, <1>4, <1>5 DEF Moves, Follows, Same

\* An orphan goes on with nobody to hear of it.
LEMMA OrphanFollows ==
    ASSUME NEW r, req[r] \in Request, req'[r] = Orphan(req[r])
    PROVE  Follows(r)
<1>2. CASE req[r].at = "ok"
  BY <1>2 DEF Orphan, Follows
<1>3. CASE req[r].at # "ok"
  <2>1. req'[r] = [req[r] EXCEPT !.heard = FALSE, !.seq = 0]
    BY <1>3 DEF Orphan
  <2>2. /\ Same(req[r], req'[r]) /\ req'[r].kind = req[r].kind /\ req'[r].at = req[r].at
        /\ ~req'[r].heard
    BY <2>1, HeardChanges
  <2> QED
    BY <1>3, <2>2 DEF Follows
<1> QED
  BY <1>2, <1>3

\* An answer moves one request.
LEMMA HearMoves ==
    ASSUME IInv, NEW r \in Requests, Hear(r)
    PROVE  Moves(r)
<1>1. req \in [Requests -> Request \cup {Idle}]
  BY DEF IInv, TypeOK
<1>2. Busy(r) /\ req[r] \in Request
  BY BusyTypes DEF IInv, Hear, Saved, SavedFirst, Approved, Rejected, ShowLock, ShowError
<1>3. PICK x : req' = [req EXCEPT ![r] = x]
  BY DEF Hear, Saved, SavedFirst, Approved, Rejected, ShowLock, ShowError, Unanswered, Done
<1>4. req'[r] = x /\ \A q \in Requests \ {r} : req'[q] = req[q]
  BY <1>1, <1>3
<1>5. Follows(r)
  <2>1. CASE SavedFirst(r)
    <3>1. req'[r] = [req[r] EXCEPT !.kind = "approve", !.at = "sent"]
      BY <1>1, <2>1 DEF SavedFirst
    <3>2. /\ Same(req[r], req'[r]) /\ req'[r].kind = "approve" /\ req'[r].at = "sent"
          /\ req'[r].heard = req[r].heard /\ req'[r].seq = req[r].seq
      BY <1>2, <3>1, KindChanges
    <3> QED
      BY <2>1, <3>2 DEF SavedFirst, Follows
  <2>2. CASE Done(r)
    BY <1>1, <1>4, <2>2 DEF Done, Follows
  <2>3. CASE req' = [req EXCEPT ![r] = Orphan(@)]
    <3>1. req'[r] = Orphan(req[r])
      BY <1>1, <2>3
    <3> QED
      BY <1>2, <1>4, <3>1, OrphanFollows
  <2> QED
    BY <2>1, <2>2, <2>3 DEF Hear, Saved, Approved, Rejected, ShowLock, ShowError, Unanswered
<1> QED
  BY <1>1, <1>2, <1>3, <1>4, <1>5 DEF Moves, Follows, Same


\* A request is sent.
LEMMA SendIs ==
    ASSUME IInv, NEW r \in Requests, NEW kind \in {"put", "save", "reject"}, NEW l \in Locs,
           Card(l), NEW list \in List, NEW n \in 0..MaxEdits, Send(r, kind, l, list, n)
    PROVE  /\ ~Busy(r) /\ req' \in [Requests -> Request \cup {Idle}]
           /\ \A q \in Requests \ {r} : req'[q] = req[q]
           /\ req'[r] \in Request /\ req'[r].kind = kind /\ req'[r].loc = l
           /\ req'[r].run = results[l] /\ req'[r].run = run /\ req'[r].list = list
           /\ req'[r].seq = n /\ req'[r].at = "sent" /\ req'[r].heard
           /\ req'[r].alone <=> kind = "save" /\ Saves(l) = {}
<1> DEFINE new == [kind |-> kind, loc |-> l, run |-> results[l], list |-> list, seq |-> n,
                   alone |-> kind = "save" /\ Saves(l) = {}, at |-> "sent", heard |-> TRUE]
<1>1. results[l] \in Runs /\ results[l] = run
  BY CardTypes
<1>2. new \in Request
  BY <1>1 DEF Request
<1>3. ~Busy(r) /\ req' = [req EXCEPT ![r] = new]
  BY DEF Send
<1>4. req \in [Requests -> Request \cup {Idle}]
  BY DEF IInv, TypeOK
<1>5. req'[r] = new /\ \A q \in Requests \ {r} : req'[q] = req[q]
  BY <1>3, <1>4
<1>6. req' \in [Requests -> Request \cup {Idle}]
  BY <1>2, <1>3, <1>4
<1> QED
  BY <1>1, <1>2, <1>3, <1>5, <1>6

\* A cell of a table by locations and runs is changed.
LEMMA CellTypes ==
    ASSUME NEW S, NEW f \in [Locs -> [Runs -> S]], NEW l \in Locs, NEW g \in Runs, NEW v \in S
    PROVE  [f EXCEPT ![l][g] = v] \in [Locs -> [Runs -> S]]
<1>1. [f[l] EXCEPT ![g] = v] \in [Runs -> S]
  OBVIOUS
<1>2. [f EXCEPT ![l][g] = v] = [f EXCEPT ![l] = [f[l] EXCEPT ![g] = v]]
  OBVIOUS
<1> QED
  BY <1>1, <1>2

\* A step of the server keeps the types.
LEMMA ServerTypes ==
    ASSUME IInv, NEW r \in Requests, Server(r)
    PROVE  TypeOK'
<1>1. req' \in [Requests -> Request \cup {Idle}]
  BY ServerMoves DEF Moves
<1>2. req[r] \in Request
  BY BusyTypes DEF IInv, Server, ReadStatus, WriteDraft, Materialise, SetRejected, Drop
<1>3. UNCHANGED page
  BY DEF Server, ReadStatus, WriteDraft, Materialise, SetRejected, Drop
<1>4. PICK l \in Locs, g \in Runs, x \in List :
         l = req[r].loc /\ g = req[r].run /\ x = req[r].list
  BY <1>2, RequestTypes
<1>5. \/ status' = status
      \/ status' = [status EXCEPT ![l][g] = "approved"]
      \/ status' = [status EXCEPT ![l][g] = "rejected"]
  BY <1>4 DEF Server, ReadStatus, WriteDraft, Materialise, SetRejected, Drop, server
<1>6. draft' = draft \/ draft' = [draft EXCEPT ![l][g] = x]
  BY <1>4 DEF Server, ReadStatus, WriteDraft, Materialise, SetRejected, Drop, server
<1>7. status' \in [Locs -> [Runs -> {"none", "draft", "approved", "rejected"}]]
  <2> DEFINE S == {"none", "draft", "approved", "rejected"}
  <2>1. status \in [Locs -> [Runs -> S]] /\ "approved" \in S /\ "rejected" \in S
    BY DEF IInv, TypeOK
  <2> HIDE DEF S
  <2>2. status' \in [Locs -> [Runs -> S]]
    <3>1. [status EXCEPT ![l][g] = "approved"] \in [Locs -> [Runs -> S]]
      BY <2>1, CellTypes, Zenon
    <3>2. [status EXCEPT ![l][g] = "rejected"] \in [Locs -> [Runs -> S]]
      BY <2>1, CellTypes, Zenon
    <3> QED
      BY <1>5, <2>1, <3>1, <3>2, Zenon
  <2> QED
    BY <2>2 DEF S
<1>8. draft' \in [Locs -> [Runs -> List \cup {NoList}]]
  <2> DEFINE S == List \cup {NoList}
  <2>1. draft \in [Locs -> [Runs -> S]] /\ x \in S
    BY DEF IInv, TypeOK
  <2> HIDE DEF S
  <2>2. draft' \in [Locs -> [Runs -> S]]
    <3>1. [draft EXCEPT ![l][g] = x] \in [Locs -> [Runs -> S]]
      BY <2>1, CellTypes, Zenon
    <3> QED
      BY <1>6, <2>1, <3>1, Zenon
  <2> QED
    BY <2>2 DEF S
<1> QED
  BY <1>1, <1>3, <1>7, <1>8 DEF IInv, TypeOK, page, stream, marks, Card

\* An answer keeps the types.
LEMMA HearTypes ==
    ASSUME IInv, NEW r \in Requests, Hear(r)
    PROVE  TypeOK'
<1>1. req' \in [Requests -> Request \cup {Idle}]
  BY HearMoves DEF Moves
<1>2. req[r] \in Request
  BY BusyTypes DEF IInv, Hear, Saved, SavedFirst, Approved, Rejected, ShowLock, ShowError
<1>3. UNCHANGED <<stream, seq, editing, edits, server>>
  BY DEF Hear, Saved, SavedFirst, Approved, Rejected, ShowLock, ShowError
<1>4. /\ edited' \in [Locs -> List \cup {NoList}]
      /\ \A l \in Locs : edited[l] # NoList => edited'[l] # NoList
  <2>1. edited \in [Locs -> List \cup {NoList}] /\ req[r].list \in List \ {NoList}
    BY <1>2, RequestTypes, ListTypes DEF IInv, TypeOK
  <2>2. CASE edited' = edited
    BY <2>1, <2>2
  <2>3. CASE Saved(r)
    BY <2>1, <2>3 DEF Saved
  <2> QED
    BY <2>2, <2>3 DEF Hear, SavedFirst, Approved, Rejected, ShowLock, ShowError
<1>5. approved' \in SUBSET Locs /\ rejected' \in SUBSET Locs
  BY <1>2, RequestTypes
  DEF Hear, Saved, SavedFirst, Approved, Rejected, ShowLock, ShowError, marks, IInv, TypeOK
<1>6. saving' \in BOOLEAN /\ locked' \in BOOLEAN
  BY DEF Hear, Saved, SavedFirst, Approved, Rejected, ShowLock, ShowError, IInv, TypeOK
<1> QED
  BY <1>1, <1>3, <1>4, <1>5, <1>6 DEF IInv, TypeOK, stream, server, Card

-----------------------------------------------------------------------------
(* Steps that send no request and forget no card *)

\* Lists stay, but for the answer to the latest save of a card, and a draft that a
\* save has written.
Shown(l) ==
    \/ edited'[l] = edited[l]
    \/ \E w \in Requests :
          /\ IsPut(w) /\ req[w].loc = l /\ req[w].seq = seq[l] /\ edited'[l] = req[w].list
          /\ req'[w] = Idle
Written(l, g) ==
    \/ draft'[l][g] = draft[l][g]
    \/ \E w \in Requests :
          IsSave(w) /\ req[w].loc = l /\ req[w].run = g /\ draft'[l][g] = req[w].list

Quiet ==
    /\ UNCHANGED <<run, results, seq>>
    /\ streaming' => streaming
    /\ \A r \in Requests : Follows(r)
    /\ \A l \in Locs : Shown(l)
    /\ \A l \in Locs, g \in Runs : Written(l, g)

\* What follows a request was one.
LEMMA FollowsIs ==
    ASSUME TypeOK, NEW r \in Requests, Follows(r), Busy(r)'
    PROVE  /\ Busy(r) /\ req[r] \in Request
           /\ req'[r].loc = req[r].loc /\ req'[r].run = req[r].run
           /\ req'[r].list = req[r].list /\ req'[r].alone = req[r].alone
           /\ req'[r].heard => req[r].heard /\ req'[r].seq = req[r].seq
           /\ IsPut(r)' => IsPut(r)
           /\ IsSave(r)' => IsSave(r)
BY BusyTypes DEF Follows, Same, Busy, IsPut, IsSave

\* What is a save is in flight.
LEMMA PutBusy ==
    ASSUME NEW r
    PROVE  /\ IsPut(r) => Busy(r) /\ IsSave(r)
           /\ IsPut(r)' => Busy(r)' /\ IsSave(r)'
           /\ IsSave(r) => Busy(r)
           /\ IsSave(r)' => Busy(r)'
BY DEF IsPut, IsSave, Busy, Idle

\* A quiet step keeps what the invariant says of runs.
LEMMA QuietRuns ==
    ASSUME IInv, Quiet
    PROVE  RunInv'
<1>1. ASSUME NEW r \in Requests, Busy(r)'
      PROVE  /\ req'[r].at = "ok" => req'[r].heard
             /\ req'[r].run <= run
             /\ req'[r].run = run /\ results[req'[r].loc] = 0 => ~streaming'
  <2>1. Follows(r)
    BY DEF Quiet
  <2>2. /\ Busy(r) /\ req'[r].loc = req[r].loc /\ req'[r].run = req[r].run
    BY <1>1, <2>1, FollowsIs DEF IInv
  <2>3. req'[r].at = "ok" => req'[r].heard
    BY <1>1, <2>1, <2>2 DEF Follows, Busy, IInv, RunInv
  <2> QED
    BY <2>2, <2>3 DEF Quiet, IInv, RunInv
<1> QED
  BY <1>1 DEF Quiet, IInv, RunInv

\* A quiet step keeps the numbers of the saves, and what is shown within the latest.
LEMMA QuietPuts ==
    ASSUME IInv, Quiet
    PROVE  PutInv'
<1>1. ASSUME NEW r \in Requests, IsPut(r)'
      PROVE  IsPut(r) /\ req'[r].loc = req[r].loc /\ req'[r].seq = req[r].seq
             /\ req'[r].list = req[r].list /\ req[r].loc \in Locs /\ req'[r] # Idle
  BY <1>1, PutBusy, FollowsIs, RequestTypes DEF Quiet, IInv, IsPut, Busy
<1>2. ASSUME NEW r \in Requests, IsPut(r)', req'[r].seq = seq[req'[r].loc]
      PROVE  Within(edited'[req'[r].loc], req'[r].list)
  <2>1. Within(edited[req[r].loc], req[r].list) /\ req[r].seq = seq[req[r].loc]
    BY <1>1, <1>2 DEF IInv, PutInv
  <2>2. CASE edited'[req[r].loc] = edited[req[r].loc]
    BY <1>1, <1>2, <2>1, <2>2
  <2>3. CASE edited'[req[r].loc] # edited[req[r].loc]
    <3>1. PICK w \in Requests : IsPut(w) /\ req[w].loc = req[r].loc
              /\ req[w].seq = seq[req[r].loc] /\ req'[w] = Idle
      BY <1>1, <1>2, <2>3 DEF Quiet, Shown
    <3>2. w = r
      BY <1>1, <1>2, <2>1, <3>1 DEF IInv, PutInv
    <3> QED
      BY <1>1, <1>2, <3>1, <3>2
  <2> QED
    BY <2>2, <2>3
<1>3. ASSUME NEW r \in Requests, IsPut(r)' PROVE req'[r].seq \in 1..seq[req'[r].loc]
  BY <1>1, <1>3 DEF IInv, PutInv
<1>4. ASSUME NEW r \in Requests, NEW q \in Requests, IsPut(r)', IsPut(q)',
             req'[r].loc = req'[q].loc, req'[r].seq = req'[q].seq
      PROVE  r = q
  BY <1>1, <1>4 DEF IInv, PutInv
<1>5. seq' = seq
  BY DEF Quiet
<1> QED
  BY <1>2, <1>3, <1>4, <1>5 DEF PutInv

\* A quiet step keeps where an approval's list is: what replaces a list has its edits.
LEMMA QuietAlone ==
    ASSUME IInv, Quiet, NEW r \in Requests
    PROVE  AloneInv(r)'
<1> SUFFICES ASSUME Busy(r)', req'[r].alone PROVE AloneInv(r)'
  BY DEF AloneInv
<1>1. Follows(r) /\ TypeOK
  BY DEF Quiet, IInv
<1>2. /\ Busy(r) /\ req[r] \in Request /\ req[r].alone
      /\ req'[r].loc = req[r].loc /\ req'[r].run = req[r].run /\ req'[r].list = req[r].list
  BY <1>1, FollowsIs
<1>3. PICK l \in Locs, g \in Runs : l = req[r].loc /\ g = req[r].run
  BY <1>2, RequestTypes
<1>4. /\ req[r].kind \in {"save", "approve"}
      /\ results[l] = g => Holds(edited[l], r)
      /\ req[r].kind = "approve" \/ req[r].at \in {"same", "ok"} => Holds(draft[l][g], r)
      /\ \A q \in Requests \ {r} : IsSave(q) /\ req[q].loc = l =>
              /\ req[q].run >= g
              /\ req[q].run = g => Holds(req[q].list, r)
  BY <1>2, <1>3 DEF IInv, AloneInv
<1>5. req'[r].kind \in {"save", "approve"}
  BY <1>1, <1>2, <1>4 DEF Follows, Busy
<1>6. ASSUME NEW x, Holds(x, r)
      PROVE  x \in List /\ x.run = req'[r].list.run /\ req'[r].list.has \subseteq x.has
  BY <1>2, <1>6 DEF Holds
<1>7. ASSUME results[l] = g PROVE Holds(edited'[l], r)
  <2>1. CASE edited'[l] = edited[l]
    BY <1>4, <1>7, <2>1
  <2>2. CASE edited'[l] # edited[l]
    <3>1. PICK w \in Requests : IsPut(w) /\ req[w].loc = l /\ edited'[l] = req[w].list
      BY <2>2 DEF Quiet, Shown
    <3>2. w # r
      BY <1>4, <3>1 DEF IsPut
    <3>3. req[w].run >= g /\ (req[w].run = g => Holds(req[w].list, r))
      BY <1>4, <3>1, <3>2, PutBusy
    <3>4. req[w] \in Request /\ req[w].run <= run
      BY <3>1, PutBusy, BusyTypes DEF IInv, RunInv
    <3>5. run = g
      BY <1>7 DEF IInv, RunInv, Runs
    <3>6. req[w].run = g
      BY <3>3, <3>4, <3>5, RequestTypes DEF Runs
    <3> QED
      BY <3>1, <3>3, <3>6
  <2> QED
    BY <2>1, <2>2
<1>8. Holds(req[r].list, r)
  BY <1>2, RequestTypes DEF Holds
<1>9. ASSUME req'[r].kind = "approve" \/ req'[r].at \in {"same", "ok"}
      PROVE  Holds(draft'[l][g], r)
  <2>1. CASE Holds(draft[l][g], r)
    <3>1. CASE draft'[l][g] = draft[l][g]
      BY <2>1, <3>1
    <3>2. CASE draft'[l][g] # draft[l][g]
      <4>1. PICK w \in Requests : IsSave(w) /\ req[w].loc = l /\ req[w].run = g
                                  /\ draft'[l][g] = req[w].list
        BY <3>2 DEF Quiet, Written
      <4> QED
        BY <1>4, <1>8, <4>1
    <3> QED
      BY <3>1, <3>2
  <2>2. CASE ~Holds(draft[l][g], r)
    <3>1. draft'[l][g] = req[r].list
      BY <1>1, <1>2, <1>3, <1>4, <1>9, <2>2 DEF Follows, Busy
    <3> QED
      BY <1>8, <3>1
  <2> QED
    BY <2>1, <2>2
<1>10. ASSUME NEW q \in Requests \ {r}, IsSave(q)', req'[q].loc = l
       PROVE  /\ req'[q].run >= g
              /\ req'[q].run = g => Holds(req'[q].list, r)
  <2>1. /\ IsSave(q) /\ req'[q].loc = req[q].loc
        /\ req'[q].run = req[q].run /\ req'[q].list = req[q].list
    BY <1>10, PutBusy, FollowsIs DEF Quiet, IInv
  <2> QED
    BY <1>4, <1>10, <2>1
<1>11. results' = results
  BY DEF Quiet
<1> QED
  BY <1>2, <1>3, <1>5, <1>6, <1>7, <1>9, <1>10, <1>11 DEF AloneInv, Holds

\* The flag stays while the awaited saves do.
LEMMA SameSaves ==
    ASSUME IInv, saving' = saving, \A r \in Requests : Awaited(r)' <=> Awaited(r)
    PROVE  SaveInv'
BY DEF IInv, SaveInv

\* Every step of the server keeps the invariant.
LEMMA ServerKeeps ==
    ASSUME IInv, NEW r \in Requests, Server(r)
    PROVE  IInv'
<1>1. Moves(r) /\ TypeOK'
  BY ServerMoves, ServerTypes
<1>2. UNCHANGED page /\ req[r] \in Request
  BY BusyTypes
  DEF IInv, Server, ReadStatus, WriteDraft, Materialise, SetRejected, Drop
<1>3. ASSUME NEW l \in Locs, NEW g \in Runs PROVE Written(l, g)
  <2>1. CASE draft' = draft
    BY <2>1 DEF Written
  <2>2. CASE WriteDraft(r)
    <3>1. /\ req[r].loc \in Locs /\ req[r].run \in Runs /\ IsSave(r)
          /\ draft \in [Locs -> [Runs -> List \cup {NoList}]]
      BY <1>2, <2>2, RequestTypes DEF WriteDraft, IsSave, IInv, TypeOK
    <3>2. \/ draft' = draft
          \/ draft' = [draft EXCEPT ![req[r].loc][req[r].run] = req[r].list]
      BY <2>2 DEF WriteDraft
    <3> QED
      BY <3>1, <3>2 DEF Written
  <2> QED
    BY <2>1, <2>2 DEF Server, ReadStatus, Materialise, SetRejected, Drop, server
<1>4. Quiet
  BY <1>1, <1>2, <1>3 DEF Quiet, Shown, Moves, Follows, page, stream
<1>5. \A q \in Requests : Awaited(q)' <=> Awaited(q)
  <2>1. req \in [Requests -> Request \cup {Idle}]
    BY DEF IInv, TypeOK
  <2>2. \A q \in Requests \ {r} : req'[q] = req[q]
    BY <1>1 DEF Moves
  <2>3. Awaited(r)' <=> Awaited(r)
    BY <1>2, <2>1 DEF Server, ReadStatus, WriteDraft, Materialise, SetRejected, Drop, Serve,
       Awaited, Idle, Request
  <2> QED
    BY <2>2, <2>3 DEF Awaited
<1>6. SaveInv'
  BY <1>2, <1>5, SameSaves DEF page
<1> QED
  BY <1>1, <1>4, <1>6, QuietRuns, QuietPuts, QuietAlone DEF IInv

\* Every answer keeps the invariant.
LEMMA HearKeeps ==
    ASSUME IInv, NEW r \in Requests, Hear(r)
    PROVE  IInv'
<1>1. Moves(r) /\ TypeOK'
  BY HearMoves, HearTypes
<1>2. UNCHANGED <<stream, seq, server>>
  BY DEF Hear, Saved, SavedFirst, Approved, Rejected, ShowLock, ShowError
<1>3. req \in [Requests -> Request \cup {Idle}] /\ req[r] \in Request
  BY BusyTypes
  DEF IInv, TypeOK, Hear, Saved, SavedFirst, Approved, Rejected, ShowLock, ShowError
<1>4. req[r].at = "ok" => req[r].heard
  BY <1>3, RequestTypes DEF IInv, RunInv, Busy
<1>5. ASSUME NEW l \in Locs PROVE Shown(l)
  <2>1. CASE edited' = edited
    BY <2>1 DEF Shown
  <2>2. CASE Saved(r)
    <3>1. IsPut(r) /\ req'[r] = Idle
      BY <1>3, <1>4, <2>2 DEF Saved, Done, IsPut
    <3>2. CASE edited'[l] = edited[l]
      BY <3>2 DEF Shown
    <3>3. CASE edited'[l] # edited[l]
      <4>1. l = req[r].loc /\ seq[l] = req[r].seq /\ edited'[l] = req[r].list
        BY <2>2, <3>3 DEF Saved, IInv, TypeOK
      <4> QED
        BY <3>1, <4>1 DEF Shown
    <3> QED
      BY <3>2, <3>3
  <2> QED
    BY <2>1, <2>2 DEF Hear, SavedFirst, Approved, Rejected, ShowLock, ShowError
<1>6. Quiet
  BY <1>1, <1>2, <1>5 DEF Quiet, Written, Moves, Follows, stream, server
<1>7. \A q \in Requests \ {r} : req'[q] = req[q]
  BY <1>1 DEF Moves
<1>8. CASE SavedFirst(r)
  <2>1. Awaited(r) /\ ~Awaited(r)' /\ saving' = FALSE
    BY <1>3, <1>4, <1>8 DEF SavedFirst, Awaited
  <2>2. \A q \in Requests : ~Awaited(q)'
    BY <1>7, <2>1 DEF IInv, SaveInv, Awaited
  <2>3. SaveInv'
    BY <2>1, <2>2 DEF SaveInv
  <2> QED
    BY <1>1, <1>6, <2>3, QuietRuns, QuietPuts, QuietAlone DEF IInv
<1>9. CASE ShowError(r)
  <2>1. ~Awaited(r)'
    <3>1. req'[r] = Idle \/ req'[r] = [req[r] EXCEPT !.heard = FALSE, !.seq = 0]
      BY <1>3, <1>9 DEF ShowError, Unanswered, Done, Orphan
    <3>2. req'[r] # Idle => ~req'[r].heard
      BY <1>3, <3>1, HeardChanges
    <3> QED
      BY <3>2 DEF Awaited, Idle
  <2>4. saving' = (saving /\ ~Awaited(r))
    BY <1>9 DEF ShowError, Awaited
  <2>2. \A q \in Requests \ {r} : Awaited(q)' <=> Awaited(q)
    BY <1>7 DEF Awaited
  <2>3. SaveInv'
    BY <2>1, <2>2, <2>4 DEF SaveInv, IInv, TypeOK
  <2> QED
    BY <1>1, <1>6, <2>3, QuietRuns, QuietPuts, QuietAlone DEF IInv
<1>10. CASE Saved(r) \/ Approved(r) \/ Rejected(r) \/ ShowLock(r)
  <2>1. saving' = saving /\ ~Awaited(r) /\ ~Awaited(r)'
    BY <1>3, <1>10 DEF Saved, Approved, Rejected, ShowLock, Done, Awaited, Idle
  <2>2. SaveInv'
    BY <1>7, <2>1, SameSaves DEF Awaited
  <2> QED
    BY <1>1, <1>6, <2>2, QuietRuns, QuietPuts, QuietAlone DEF IInv
<1> QED
  BY <1>8, <1>9, <1>10 DEF Hear

\* Nothing moves but streaming, which may end, and what only the eye follows.
LEMMA StillKeeps ==
    ASSUME IInv, TypeOK', UNCHANGED <<run, results, edited, seq, saving, req, draft>>,
           streaming' => streaming
    PROVE  IInv'
<1>1. Quiet
  BY DEF Quiet, Follows, Shown, Written
<1>2. SaveInv'
  BY SameSaves DEF Awaited
<1> QED
  BY <1>1, <1>2, QuietRuns, QuietPuts, QuietAlone DEF IInv

\* Steps that only open and close things keep the invariant.
LEMMA LookKeeps ==
    ASSUME IInv, EndStream \/ LockExpires \/ CloseEditor \/ \E l \in Locs : OpenEditor(l)
    PROVE  IInv'
<1>1. TypeOK' /\ UNCHANGED <<run, results, edited, seq, saving, req, draft>>
  BY DEF EndStream, LockExpires, CloseEditor, OpenEditor, IInv, TypeOK, stream, marks, server, Card
<1>2. streaming' => streaming
  BY DEF EndStream, LockExpires, CloseEditor, OpenEditor, stream
<1> QED
  BY <1>1, <1>2, StillKeeps

\* A step in which nothing changes keeps the invariant.
LEMMA StutterKeeps == IInv /\ UNCHANGED vars => IInv'
<1> SUFFICES ASSUME IInv, UNCHANGED vars PROVE IInv'
  OBVIOUS
<1>1. TypeOK'
  BY DEF IInv, TypeOK, vars, page, stream, marks, server, Card
<1> QED
  BY <1>1, StillKeeps DEF vars, page, stream, marks, server

-----------------------------------------------------------------------------
(* Steps that send a request *)

\* What a request of a card l that is sent leaves of the others' invariants.
LEMMA SendRuns ==
    ASSUME IInv, NEW r \in Requests, \A q \in Requests \ {r} : req'[q] = req[q],
           req'[r].at = "sent", req'[r].run = run, results[req'[r].loc] # 0,
           TypeOK', UNCHANGED stream
    PROVE  RunInv'
<1>1. UNCHANGED <<run, results, streaming>>
  BY DEF stream
<1>2. \A q \in Requests \ {r} : Busy(q)' <=> Busy(q)
  BY DEF Busy
<1>3. run \in Nat
  BY DEF IInv, TypeOK
<1> QED
  BY <1>1, <1>2, <1>3 DEF IInv, RunInv

\* An approval is alone still when a save of its location is sent, which has the
\* list it was clicked on.
LEMMA SendAlone ==
    ASSUME IInv, NEW r \in Requests, NEW l \in Locs, Card(l),
           \A q \in Requests \ {r} : req'[q] = req[q],
           req'[r].loc = l, req'[r].run = results[l],
           IsSave(r)' => req'[r].list \in List /\ req'[r].list.run = edited[l].run
                         /\ edited[l].has \subseteq req'[r].list.has,
           UNCHANGED <<results, draft>>,
           \A k \in Locs :
              \/ edited'[k] = edited[k]
              \/ /\ k = l /\ edited'[k] \in List /\ edited'[k].run = edited[k].run
                 /\ edited[k].has \subseteq edited'[k].has,
           NEW o \in Requests, o # r
    PROVE  AloneInv(o)'
<1> SUFFICES ASSUME Busy(o), req[o].alone PROVE AloneInv(o)'
  BY DEF AloneInv, Busy
<1>1. AloneInv(o) /\ req'[o] = req[o] /\ req[o] \in Request
  BY BusyTypes DEF IInv
<1>2. req[o].loc \in Locs /\ req[o].run \in Runs /\ req[o].run <= run
  BY <1>1, RequestTypes DEF IInv, RunInv
<1>3. \A x : Holds(x, o)' <=> Holds(x, o)
  BY <1>1 DEF Holds
<1>4. results[req[o].loc] = req[o].run => Holds(edited'[req[o].loc], o)
  BY <1>1, <1>2 DEF AloneInv, Holds
<1>5. ASSUME NEW q \in Requests \ {o}, IsSave(q)', req'[q].loc = req[o].loc
      PROVE  /\ req'[q].run >= req[o].run
             /\ req'[q].run = req[o].run => Holds(req'[q].list, o)
  <2>1. CASE q # r
    <3>1. IsSave(q) /\ req'[q] = req[q]
      BY <1>5, <2>1 DEF IsSave
    <3> QED
      BY <1>1, <1>5, <3>1 DEF AloneInv
  <2>2. CASE q = r
    <3>1. results[l] = run /\ req[o].loc = l
      BY <1>5, <2>2, CardTypes
    <3>2. req'[r].run >= req[o].run
      BY <1>2, <3>1 DEF Runs, IInv, TypeOK
    <3>3. req'[r].run = req[o].run => Holds(edited[l], o)
      BY <1>1, <3>1 DEF AloneInv
    <3> QED
      BY <1>5, <2>2, <3>2, <3>3 DEF Holds
  <2> QED
    BY <2>1, <2>2
<1> QED
  BY <1>1, <1>3, <1>4, <1>5 DEF AloneInv, Holds

\* A click on Approve keeps the invariant.
LEMMA ApproveKeeps ==
    ASSUME IInv, NEW r \in Requests, NEW l \in Locs, Approve(r, l)
    PROVE  IInv'
<1>1. /\ Card(l) /\ ~saving /\ saving' = TRUE
      /\ UNCHANGED <<stream, marks, edited, seq, locked, editing, edits, server>>
      /\ Send(r, "save", l, edited[l], 0)
  BY DEF Approve
<1>2. edited[l] \in List /\ 0 \in 0..MaxEdits
  BY <1>1, CardTypes, ReviewAssumption
<1>3. /\ ~Busy(r) /\ req' \in [Requests -> Request \cup {Idle}]
      /\ \A q \in Requests \ {r} : req'[q] = req[q]
      /\ req'[r] \in Request /\ req'[r].kind = "save" /\ req'[r].loc = l
      /\ req'[r].run = results[l] /\ req'[r].run = run /\ req'[r].list = edited[l]
      /\ req'[r].at = "sent" /\ req'[r].heard
      /\ req'[r].alone <=> Saves(l) = {}
  BY <1>1, <1>2, SendIs
<1>4. TypeOK'
  BY <1>1, <1>3 DEF IInv, TypeOK, stream, marks, server, Card
<1>5. RunInv'
  BY <1>1, <1>3, <1>4, SendRuns DEF Card, stream
<1>6. SaveInv'
  <2>1. \A q \in Requests : ~Awaited(q)
    BY <1>1 DEF IInv, SaveInv
  <2>2. Awaited(r)' /\ \A q \in Requests \ {r} : ~Awaited(q)'
    BY <1>3, <2>1 DEF Awaited
  <2> QED
    BY <1>1, <2>2 DEF SaveInv
<1>7. PutInv'
  <2>1. \A q \in Requests : IsPut(q)' => IsPut(q) /\ req'[q] = req[q]
    BY <1>3 DEF IsPut
  <2> QED
    BY <1>1, <2>1 DEF IInv, PutInv
<1>8. ASSUME NEW o \in Requests, o # r PROVE AloneInv(o)'
  <2>1. UNCHANGED <<results, draft>> /\ \A k \in Locs : edited'[k] = edited[k]
    BY <1>1 DEF stream, server
  <2> QED
    BY <1>1, <1>2, <1>3, <1>8, <2>1, SendAlone
<1>9. AloneInv(r)'
  <2> SUFFICES ASSUME Saves(l) = {} PROVE AloneInv(r)'
    BY <1>3 DEF AloneInv
  <2>1. \A q \in Requests \ {r} : IsSave(q)' => req'[q].loc # l
    BY <1>3 DEF Saves, IsSave
  <2> QED
    BY <1>1, <1>2, <1>3, <2>1 DEF AloneInv, Holds
<1> QED
  BY <1>4, <1>5, <1>6, <1>7, <1>8, <1>9 DEF IInv

\* A click on Reject keeps the invariant.
LEMMA RejectKeeps ==
    ASSUME IInv, NEW r \in Requests, NEW l \in Locs, Reject(r, l)
    PROVE  IInv'
<1>1. Card(l) /\ UNCHANGED <<page, server>> /\ Send(r, "reject", l, Empty(results[l]), 0)
  BY DEF Reject
<1>2. Empty(results[l]) \in List /\ 0 \in 0..MaxEdits
  BY <1>1, CardTypes, ListTypes, ReviewAssumption
<1>3. /\ ~Busy(r) /\ req' \in [Requests -> Request \cup {Idle}]
      /\ \A q \in Requests \ {r} : req'[q] = req[q]
      /\ req'[r] \in Request /\ req'[r].kind = "reject" /\ req'[r].loc = l
      /\ req'[r].run = results[l] /\ req'[r].run = run
      /\ req'[r].at = "sent" /\ ~req'[r].alone
  BY <1>1, <1>2, SendIs
<1>4. TypeOK'
  BY <1>1, <1>3 DEF IInv, TypeOK, page, stream, marks, server, Card
<1>5. RunInv'
  BY <1>1, <1>3, <1>4, SendRuns DEF Card, page, stream
<1>6. SaveInv'
  <2>1. ~Awaited(r) /\ ~Awaited(r)'
    BY <1>3 DEF Awaited, Busy, Idle
  <2>2. \A q \in Requests : Awaited(q)' <=> Awaited(q)
    BY <1>3, <2>1 DEF Awaited
  <2> QED
    BY <1>1, <2>2, SameSaves DEF page
<1>7. PutInv'
  <2>1. \A q \in Requests : IsPut(q)' => IsPut(q) /\ req'[q] = req[q]
    BY <1>3 DEF IsPut
  <2> QED
    BY <1>1, <2>1 DEF IInv, PutInv, page
<1>8. ASSUME NEW o \in Requests, o # r PROVE AloneInv(o)'
  <2>1. ~IsSave(r)'
    BY <1>3 DEF IsSave
  <2>2. UNCHANGED <<results, draft>> /\ \A k \in Locs : edited'[k] = edited[k]
    BY <1>1 DEF page, stream, server
  <2> QED
    BY <1>1, <1>3, <1>8, <2>1, <2>2, SendAlone
<1>9. AloneInv(r)'
  BY <1>3 DEF AloneInv
<1> QED
  BY <1>4, <1>5, <1>6, <1>7, <1>8, <1>9 DEF IInv

\* An edit keeps the invariant: its number is the greatest.
LEMMA EditKeeps ==
    ASSUME IInv, NEW r \in Requests, Edit(r)
    PROVE  IInv'
<1>0. PICK l \in Locs : l = editing
  BY DEF Edit, Clickable, IInv, TypeOK
<1>1. PICK next, e :
         /\ l = editing /\ e = edits + 1 /\ next = [edited[l] EXCEPT !.has = @ \cup {e}]
  BY <1>0
<1>2. /\ Card(l) /\ edits < MaxEdits /\ edits' = e
      /\ edited' = [edited EXCEPT ![l] = next] /\ editing' = Nobody
      /\ seq' = [seq EXCEPT ![l] = @ + 1]
      /\ UNCHANGED <<stream, marks, saving, locked, server>>
      /\ Send(r, "put", l, next, seq[l] + 1)
  BY <1>1 DEF Edit
<1>3. e \in Edits /\ e <= MaxEdits /\ seq[l] + 1 \in 0..e /\ seq[l] + 1 \in 0..MaxEdits
  BY <1>1, <1>2, ReviewAssumption DEF IInv, TypeOK, Edits
<1>4. next \in List /\ next.run = edited[l].run /\ edited[l].has \subseteq next.has
      /\ edited[l] \in List
  BY <1>1, <1>2, <1>3, CardTypes, ListTypes
<1>5. /\ ~Busy(r) /\ req' \in [Requests -> Request \cup {Idle}]
      /\ \A q \in Requests \ {r} : req'[q] = req[q]
      /\ req'[r] \in Request /\ req'[r].kind = "put" /\ req'[r].loc = l
      /\ req'[r].run = results[l] /\ req'[r].run = run /\ req'[r].list = next
      /\ req'[r].seq = seq[l] + 1 /\ req'[r].at = "sent" /\ req'[r].heard /\ ~req'[r].alone
  BY <1>2, <1>3, <1>4, SendIs
<1>6. /\ edited' \in [Locs -> List \cup {NoList}]
      /\ \A k \in Locs : edited[k] # NoList => edited'[k] # NoList
  BY <1>2, <1>4, ListTypes DEF IInv, TypeOK
<1>7. edits' \in 0..MaxEdits /\ seq' \in [Locs -> 0..edits']
  BY <1>1, <1>2, <1>3, ReviewAssumption DEF IInv, TypeOK
<1>8. TypeOK'
  BY <1>2, <1>5, <1>6, <1>7 DEF IInv, TypeOK, stream, marks, server, Card
<1>9. RunInv'
  BY <1>2, <1>5, <1>8, SendRuns DEF Card, stream
<1>10. SaveInv'
  <2>1. ~Awaited(r) /\ ~Awaited(r)'
    BY <1>5 DEF Awaited, Busy, Idle
  <2>2. \A q \in Requests : Awaited(q)' <=> Awaited(q)
    BY <1>5, <2>1 DEF Awaited
  <2> QED
    BY <1>2, <2>2, SameSaves
<1>11. PutInv'
  <2>1. \A q \in Requests \ {r} :
           IsPut(q)' => /\ IsPut(q) /\ req'[q] = req[q]
                        /\ req[q].loc \in Locs /\ req[q].seq \in 1..seq[req[q].loc]
    BY <1>5, PutBusy, BusyTypes, RequestTypes DEF IsPut, IInv, PutInv
  <2>2. seq'[l] = seq[l] + 1 /\ edited'[l] = next /\ seq[l] \in Nat
    BY <1>2 DEF IInv, TypeOK
  <2>3. \A k \in Locs \ {l} : seq'[k] = seq[k] /\ edited'[k] = edited[k]
    BY <1>2 DEF IInv, TypeOK
  <2>4. ASSUME NEW q \in Requests \ {r}, IsPut(q)'
        PROVE  /\ req'[q].seq \in 1..seq'[req'[q].loc]
               /\ req'[q].seq = seq'[req'[q].loc] => Within(edited'[req'[q].loc], req'[q].list)
               /\ req'[q].loc = l => req'[q].seq # seq[l] + 1
    <3>1. CASE req[q].loc = l
      BY <2>1, <2>2, <2>4, <3>1
    <3>2. CASE req[q].loc # l
      BY <2>1, <2>3, <2>4, <3>2 DEF IInv, PutInv
    <3> QED
      BY <3>1, <3>2
  <2>5. req'[r].seq \in 1..seq'[l] /\ Within(edited'[l], req'[r].list)
    BY <1>5, <2>2 DEF Within
  <2>6. ASSUME NEW p \in Requests, NEW q \in Requests, IsPut(p)', IsPut(q)',
               req'[p].loc = req'[q].loc, req'[p].seq = req'[q].seq
        PROVE  p = q
    BY <1>5, <2>1, <2>4, <2>6 DEF IInv, PutInv
  <2> QED
    BY <1>5, <2>4, <2>5, <2>6 DEF PutInv
<1>12. \A o \in Requests \ {r} : AloneInv(o)'
  <2>1. UNCHANGED <<results, draft>>
    BY <1>2 DEF stream, server
  <2>2. \A k \in Locs :
              \/ edited'[k] = edited[k]
              \/ /\ k = l /\ edited'[k] \in List /\ edited'[k].run = edited[k].run
                 /\ edited[k].has \subseteq edited'[k].has
    <3>1. edited'[l] = next /\ \A k \in Locs \ {l} : edited'[k] = edited[k]
      BY <1>2 DEF IInv, TypeOK
    <3> QED
      BY <1>4, <3>1
  <2> QED
    BY <1>2, <1>4, <1>5, <2>1, <2>2, SendAlone
<1>13. AloneInv(r)'
  BY <1>5 DEF AloneInv
<1> QED
  BY <1>8, <1>9, <1>10, <1>11, <1>12, <1>13 DEF IInv

-----------------------------------------------------------------------------
(* Steps that make cards, or forget them *)

\* A result keeps the invariant: no request of its run has its location yet.
LEMMA ResultKeeps ==
    ASSUME IInv, NEW l \in Locs, Result(l)
    PROVE  IInv'
<1>1. /\ streaming /\ results[l] = 0 /\ run \in Runs
      /\ results' = [results EXCEPT ![l] = run]
      /\ edited' = [edited EXCEPT ![l] = IF @ = NoList THEN Empty(run) ELSE @]
      /\ status' = [status EXCEPT ![l][run] = "draft"]
      /\ draft' = [draft EXCEPT ![l][run] = Empty(run)]
      /\ UNCHANGED <<run, streaming, marks, seq, saving, locked, editing, edits, req>>
  BY ReviewAssumption DEF Result, Card, IInv, TypeOK, RunInv, Runs
<1>2. Empty(run) \in List /\ Empty(run) # NoList /\ Empty(run).has = {}
  BY <1>1, ListTypes
<1>3. status' \in [Locs -> [Runs -> {"none", "draft", "approved", "rejected"}]]
  <2> DEFINE S == {"none", "draft", "approved", "rejected"}
  <2>1. status \in [Locs -> [Runs -> S]] /\ "draft" \in S
    BY DEF IInv, TypeOK
  <2> HIDE DEF S
  <2>2. status' \in [Locs -> [Runs -> S]]
    BY <1>1, <2>1, CellTypes, Zenon
  <2> QED
    BY <2>2 DEF S
<1>4. draft' \in [Locs -> [Runs -> List \cup {NoList}]]
  <2> DEFINE S == List \cup {NoList}
  <2>1. draft \in [Locs -> [Runs -> S]] /\ Empty(run) \in S
    BY <1>2 DEF IInv, TypeOK
  <2> HIDE DEF S
  <2>2. draft' \in [Locs -> [Runs -> S]]
    BY <1>1, <2>1, CellTypes, Zenon
  <2> QED
    BY <2>2 DEF S
<1>5. /\ edited' \in [Locs -> List \cup {NoList}] /\ edited'[l] # NoList
      /\ edited'[l] = edited[l] \/ edited'[l].has = {}
      /\ \A k \in Locs \ {l} : edited'[k] = edited[k]
      /\ results' \in [Locs -> 0..MaxRuns] /\ results'[l] = run
      /\ \A k \in Locs \ {l} : results'[k] = results[k]
  BY <1>1, <1>2 DEF IInv, TypeOK
<1>6. TypeOK'
  BY <1>1, <1>3, <1>4, <1>5 DEF IInv, TypeOK, marks, Card
<1>7. RunInv'
  <2>1. \A r \in Requests : Busy(r)' <=> Busy(r)
    BY <1>1 DEF Busy
  <2>2. run # 0
    BY <1>1, ReviewAssumption DEF Runs
  <2>3. \A k \in Locs : results'[k] = 0 => results[k] = 0
    BY <1>1, <1>5
  <2>4. ASSUME NEW r \in Requests, Busy(r) PROVE req[r].loc \in Locs
    BY <2>4, BusyTypes, RequestTypes DEF IInv
  <2>5. \A k \in Locs : results'[k] \in {0, run}
    BY <1>5 DEF IInv, RunInv
  <2> QED
    BY <1>1, <2>1, <2>2, <2>3, <2>4, <2>5 DEF IInv, RunInv
<1>8. SaveInv'
  BY <1>1, SameSaves DEF Awaited
<1>9. PutInv'
  <2>1. ASSUME NEW r \in Requests, IsPut(r)
        PROVE  /\ req[r].loc \in Locs
               /\ req[r].seq = seq[req[r].loc] => Within(edited'[req[r].loc], req[r].list)
    <3>1. req[r].loc \in Locs
      BY <2>1, PutBusy, BusyTypes, RequestTypes DEF IInv
    <3>2. \A k \in Locs : edited'[k] = edited[k] \/ edited'[k].has = {}
      BY <1>5
    <3> QED
      BY <2>1, <3>1, <3>2 DEF IInv, PutInv, Within
  <2>2. \A r \in Requests : IsPut(r)' <=> IsPut(r)
    BY <1>1 DEF IsPut
  <2> QED
    BY <1>1, <2>1, <2>2 DEF IInv, PutInv
<1>10. ASSUME NEW r \in Requests PROVE AloneInv(r)'
  <2> SUFFICES ASSUME Busy(r), req[r].alone PROVE AloneInv(r)'
    BY <1>1 DEF AloneInv, Busy
  <2>1. AloneInv(r) /\ req[r] \in Request
    BY BusyTypes DEF IInv
  <2>2. PICK k \in Locs, g \in Runs : k = req[r].loc /\ g = req[r].run
    BY <2>1, RequestTypes
  <2>3. k = l => g # run
    BY <1>1, <2>2 DEF IInv, RunInv
  <2>4. draft'[k][g] = draft[k][g]
    BY <1>1, <2>3 DEF IInv, TypeOK
  <2>5. results'[k] = g => results[k] = g /\ edited'[k] = edited[k]
    BY <1>5, <2>3
  <2>6. \A q \in Requests : IsSave(q)' <=> IsSave(q)
    BY <1>1 DEF IsSave
  <2> QED
    BY <1>1, <2>1, <2>2, <2>4, <2>5, <2>6 DEF AloneInv, Holds
<1> QED
  BY <1>6, <1>7, <1>8, <1>9, <1>10 DEF IInv

\* The cards are forgotten: the page is of no run, or of the next.
LEMMA ForgetKeeps ==
    ASSUME IInv, TypeOK', SaveInv', \A r \in Requests : Follows(r),
           \A l \in Locs : results'[l] = 0 /\ edited'[l] = NoList,
           (run' = run /\ ~streaming') \/ run' = run + 1,
           draft' = draft,
           seq' = seq \/ \A r \in Requests : ~IsPut(r)'
    PROVE  IInv'
<1>1. ASSUME NEW r \in Requests, Busy(r)'
      PROVE  /\ req[r] \in Request /\ Busy(r)
             /\ req'[r].loc = req[r].loc /\ req'[r].run = req[r].run
             /\ req'[r].list = req[r].list /\ req'[r].alone = req[r].alone
             /\ req'[r].heard => req[r].heard /\ req'[r].seq = req[r].seq
             /\ IsPut(r)' => IsPut(r)
             /\ IsSave(r)' => IsSave(r)
             /\ req[r].loc \in Locs /\ req[r].run \in Runs /\ req[r].run <= run
  <2>1. req[r] \in Request /\ Busy(r)
    BY <1>1, FollowsIs DEF IInv
  <2> QED
    BY <1>1, <2>1, FollowsIs, RequestTypes DEF IInv, RunInv
<1>2. run \in Nat
  BY DEF IInv, TypeOK
<1>3. RunInv'
  <2>1. ASSUME NEW r \in Requests, Busy(r)'
        PROVE  /\ req'[r].at = "ok" => req'[r].heard
               /\ req'[r].run <= run'
               /\ req'[r].run = run' => ~streaming'
    <3>1. req'[r].at = "ok" => req'[r].heard
      BY <1>1, <2>1 DEF Follows, IInv, RunInv, Busy
    <3> QED
      BY <1>1, <1>2, <2>1, <3>1 DEF Runs
  <2>2. streaming' => run' # 0
    BY <1>2
  <2> QED
    BY <2>1, <2>2 DEF RunInv
<1>4. PutInv'
  <2>1. ASSUME NEW r \in Requests, IsPut(r)'
        PROVE  /\ IsPut(r) /\ req'[r].loc = req[r].loc /\ req'[r].seq = req[r].seq
               /\ req[r].loc \in Locs /\ seq' = seq
    BY <1>1, <2>1, PutBusy DEF IsPut
  <2>2. ASSUME NEW r \in Requests, IsPut(r)'
        PROVE  /\ req'[r].seq \in 1..seq'[req'[r].loc]
               /\ Within(edited'[req'[r].loc], req'[r].list)
    BY <2>1, <2>2 DEF IInv, PutInv, Within
  <2>3. ASSUME NEW r \in Requests, NEW q \in Requests, IsPut(r)', IsPut(q)',
               req'[r].loc = req'[q].loc, req'[r].seq = req'[q].seq
        PROVE  r = q
    BY <2>1, <2>3 DEF IInv, PutInv
  <2> QED
    BY <2>2, <2>3 DEF PutInv
<1>5. ASSUME NEW r \in Requests PROVE AloneInv(r)'
  <2> SUFFICES ASSUME Busy(r)', req'[r].alone PROVE AloneInv(r)'
    BY DEF AloneInv
  <2>1. /\ AloneInv(r) /\ Busy(r) /\ req[r].alone /\ req'[r].list = req[r].list
        /\ req'[r].loc = req[r].loc /\ req'[r].run = req[r].run
        /\ req[r].loc \in Locs /\ req[r].run \in Runs
    BY <1>1 DEF IInv
  <2>2. results'[req[r].loc] # req[r].run
    BY <2>1 DEF Runs
  <2>3. req'[r].kind \in {"save", "approve"}
    BY <2>1 DEF Follows, AloneInv, Busy
  <2>4. Holds(req[r].list, r)
    BY <1>1, RequestTypes DEF Holds
  <2>5. req'[r].kind = "approve" \/ req'[r].at \in {"same", "ok"} =>
           Holds(draft'[req[r].loc][req[r].run], r)
    BY <2>1, <2>4 DEF Follows, AloneInv, Busy
  <2>6. \A q \in Requests \ {r} : IsSave(q)' =>
           IsSave(q) /\ req'[q].loc = req[q].loc /\ req'[q].run = req[q].run
           /\ req'[q].list = req[q].list
    BY <1>1, PutBusy
  <2> QED
    BY <2>1, <2>2, <2>3, <2>5, <2>6 DEF AloneInv, Holds
<1> QED
  BY <1>3, <1>4, <1>5 DEF IInv

\* A further run, and a reset, keep the invariant.
LEMMA ResetKeeps ==
    ASSUME IInv, Generate \/ Reset
    PROVE  IInv'
<1>1. /\ results' = [l \in Locs |-> 0] /\ edited' = [l \in Locs |-> NoList]
      /\ UNCHANGED <<seq, saving, locked, editing, edits, req, server>>
  BY DEF Generate, Reset
<1>2. (run' = run /\ ~streaming') \/ run' = run + 1
  BY DEF Generate, Reset
<1>3. TypeOK'
  <2>1. results' \in [Locs -> 0..MaxRuns] /\ edited' \in [Locs -> List \cup {NoList}]
    BY <1>1, ReviewAssumption
  <2>2. CASE Generate
    <3>1. run' \in 0..MaxRuns
      BY <2>2, ReviewAssumption DEF Generate, IInv, TypeOK
    <3>2. streaming' = TRUE /\ approved' = {} /\ rejected' = {}
      BY <2>2 DEF Generate
    <3> QED
      BY <1>1, <3>1, <3>2, <2>1 DEF IInv, TypeOK, server, Card
  <2>3. CASE Reset
    BY <1>1, <2>3, <2>1 DEF Reset, IInv, TypeOK, marks, server, Card
  <2> QED
    BY <2>2, <2>3
<1>4. SaveInv'
  BY <1>1, SameSaves DEF Awaited
<1>5. \A r \in Requests : Follows(r)
  BY <1>1 DEF Follows
<1> QED
  BY <1>1, <1>2, <1>3, <1>4, <1>5, ForgetKeeps DEF server

\* A reload keeps the invariant.
LEMMA ReloadKeeps ==
    ASSUME IInv, Reload
    PROVE  IInv'
<1>1. /\ results' = [l \in Locs |-> 0] /\ edited' = [l \in Locs |-> NoList]
      /\ seq' = [l \in Locs |-> 0] /\ ~streaming' /\ streaming' \in BOOLEAN /\ saving' = FALSE
      /\ locked' = FALSE /\ editing' = Nobody
      /\ approved' = {} /\ rejected' = {} /\ UNCHANGED <<run, edits, server>>
      /\ req' = [r \in Requests |-> IF Busy(r) THEN Orphan(req[r]) ELSE Idle]
  BY DEF Reload
<1>2. ASSUME NEW r \in Requests
      PROVE  req'[r] \in Request \cup {Idle} /\ ~IsPut(r)' /\ ~Awaited(r)' /\ Follows(r)
  <2>1. CASE ~Busy(r)
    BY <1>1, <2>1 DEF Busy, Follows, IsPut, Awaited, Idle
  <2>2. CASE Busy(r)
    <3>1. req[r] \in Request /\ req'[r] = Orphan(req[r])
      BY <1>1, <2>2, BusyTypes DEF IInv
    <3>2. req'[r] = Idle \/ req'[r] = [req[r] EXCEPT !.heard = FALSE, !.seq = 0]
      BY <3>1 DEF Orphan
    <3>3. req'[r] = Idle \/ (req'[r] \in Request /\ ~req'[r].heard)
      BY <3>1, <3>2, HeardChanges DEF Same
    <3> QED
      BY <3>1, <3>3, OrphanFollows DEF IsPut, Awaited, Idle
  <2> QED
    BY <2>1, <2>2
<1>3. TypeOK'
  <2>1. /\ results' \in [Locs -> 0..MaxRuns] /\ edited' \in [Locs -> List \cup {NoList}]
        /\ seq' \in [Locs -> 0..edits]
    BY <1>1, ReviewAssumption DEF IInv, TypeOK
  <2>2. req' \in [Requests -> Request \cup {Idle}]
    BY <1>1, <1>2
  <2> QED
    BY <1>1, <2>1, <2>2 DEF IInv, TypeOK, server, Card
<1>4. SaveInv'
  BY <1>1, <1>2 DEF SaveInv
<1> QED
  BY <1>1, <1>2, <1>3, <1>4, ForgetKeeps DEF server

-----------------------------------------------------------------------------
\* The invariant holds at the start.
LEMMA InitHolds == Init => IInv
<1> SUFFICES ASSUME Init PROVE IInv
  OBVIOUS
<1>1. TypeOK
  <2>1. 0 \in 0..MaxRuns /\ 0 \in 0..MaxEdits
    BY ReviewAssumption
  <2>2. \A l \in Locs : ~Card(l)
    BY DEF Init, Card
  <2>3. /\ results \in [Locs -> 0..MaxRuns] /\ edited \in [Locs -> List \cup {NoList}]
        /\ seq \in [Locs -> 0..edits] /\ req \in [Requests -> Request \cup {Idle}]
    BY <2>1 DEF Init
  <2>4. /\ status \in [Locs -> [Runs -> {"none", "draft", "approved", "rejected"}]]
        /\ draft \in [Locs -> [Runs -> List \cup {NoList}]]
    BY DEF Init
  <2> QED
    BY <2>1, <2>2, <2>3, <2>4 DEF Init, TypeOK
<1>2. \A r \in Requests : ~Busy(r) /\ ~IsPut(r) /\ ~Awaited(r)
  BY DEF Init, Busy, IsPut, Awaited, Idle
<1> QED
  BY <1>1, <1>2 DEF Init, IInv, RunInv, SaveInv, PutInv, AloneInv

\* Every step keeps the invariant.
LEMMA NextKeeps == IInv /\ [Next]_vars => IInv'
<1> SUFFICES ASSUME IInv, [Next]_vars PROVE IInv'
  OBVIOUS
<1>1. CASE Generate \/ Reset \/ Reload
  BY <1>1, ResetKeeps, ReloadKeeps
<1>2. CASE EndStream \/ LockExpires \/ CloseEditor \/ \E l \in Locs : OpenEditor(l)
  BY <1>2, LookKeeps
<1>3. CASE \E l \in Locs : Result(l)
  BY <1>3, ResultKeeps
<1>4. ASSUME NEW r \in Requests,
             \/ Edit(r) \/ Server(r) \/ Hear(r)
             \/ \E l \in Locs : Approve(r, l) \/ Reject(r, l)
      PROVE  IInv'
  BY <1>4, EditKeeps, ServerKeeps, HearKeeps, ApproveKeeps, RejectKeeps
<1>5. CASE UNCHANGED vars
  BY <1>5, StutterKeeps
<1> QED
  BY <1>1, <1>2, <1>3, <1>4, <1>5 DEF Next

\* The invariant is one of the specification.
THEOREM Invariance == Spec => []IInv
<1> QED
  BY InitHolds, NextKeeps, PTL DEF Spec

-----------------------------------------------------------------------------
(* Theorems *)

\* Every variable has its type, and every card a list.
THEOREM TypeCorrect == Spec => []TypeOK
<1>1. IInv => TypeOK
  BY DEF IInv
<1> QED
  BY <1>1, Invariance, PTL

\* The Approve buttons are disabled exactly while an approval's save is awaited.
THEOREM NoButtonIsStuck == Spec => []SavingIsAwaited
<1>1. IInv => SavingIsAwaited
  BY DEF IInv, SaveInv, Awaited, SavingIsAwaited
<1> QED
  BY <1>1, Invariance, PTL

\* No answer takes an edit back from a card, whatever the order they come in.
THEOREM NoEditIsTakenBack == Spec => EditsAreKept
<1> DEFINE A == \A l \in Locs :
              edited[l] # NoList /\ edited'[l] # NoList /\ edited'[l].run = edited[l].run
              => edited[l].has \subseteq edited'[l].has
<1>1. ASSUME IInv, [Next]_vars PROVE A
  <2> SUFFICES ASSUME NEW l \in Locs, edited[l] # NoList, edited'[l] # NoList,
                      edited'[l].run = edited[l].run, edited'[l] # edited[l]
               PROVE  edited[l].has \subseteq edited'[l].has
    OBVIOUS
  <2>1. CASE \E r \in Requests : Edit(r)
    <3>1. PICK r \in Requests : Edit(r)
      BY <2>1
    <3>2. edited'[l] = [edited[l] EXCEPT !.has = @ \cup {edits + 1}] /\ edited[l] \in List
      BY <1>1, <3>1 DEF Edit, IInv, TypeOK
    <3> QED
      BY <3>2 DEF List
  <2>2. CASE \E r \in Requests : Saved(r)
    <3>1. PICK r \in Requests : Saved(r)
      BY <2>2
    <3>2. req[r].loc = l /\ req[r].seq = seq[l] /\ edited'[l] = req[r].list
      BY <1>1, <3>1 DEF Saved, IInv, TypeOK
    <3>3. IsPut(r)
      BY <1>1, <3>1 DEF Saved, IsPut, IInv, RunInv, Busy, Idle
    <3>4. Within(edited[l], req[r].list)
      BY <1>1, <3>2, <3>3 DEF IInv, PutInv
    <3> QED
      BY <3>2, <3>4 DEF Within
  <2>3. CASE Generate \/ Reset \/ Reload \/ \E k \in Locs : Result(k)
    BY <1>1, <2>3 DEF Generate, Reset, Reload, Result, IInv, TypeOK
  <2>4. CASE edited' = edited
    BY <2>4
  <2> QED
    BY <1>1, <2>1, <2>2, <2>3, <2>4 DEF Next, Server, Hear, ReadStatus, WriteDraft, Materialise,
       SetRejected, Drop, SavedFirst, Approved, Rejected, ShowLock, ShowError, Approve, Reject,
       EndStream, LockExpires, CloseEditor, OpenEditor, vars, page
<1> QED
  BY <1>1, Invariance, PTL DEF EditsAreKept, Spec

\* What is approved has every edit that was shown.
THEOREM NoEditIsDropped == Spec => ApprovedAsShown
<1> DEFINE A == \A r \in Requests :
              Materialise(r) /\ req[r].alone =>
                  LET d == draft[req[r].loc][req[r].run]
                  IN  d.run = req[r].list.run /\ req[r].list.has \subseteq d.has
<1>1. ASSUME IInv, [Next]_vars PROVE A
  <2> SUFFICES ASSUME NEW r \in Requests, Materialise(r), req[r].alone
               PROVE  Holds(draft[req[r].loc][req[r].run], r)
    BY DEF Holds
  <2>1. Busy(r) /\ req[r].kind = "approve"
    BY DEF Materialise, Busy, Idle
  <2> QED
    BY <1>1, <2>1 DEF IInv, AloneInv
<1> QED
  BY <1>1, Invariance, PTL DEF ApprovedAsShown, Spec
=============================================================================
