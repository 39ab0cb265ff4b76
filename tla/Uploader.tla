------------------------------ MODULE Uploader ------------------------------
(***************************************************************************)
(* Uploads of files by parts through several sessions                      *)
(* (storage/file_upload.cpp).  A photo and the thumbnail of a document are *)
(* sliced in memory ("parts"), a document is read from its file            *)
(* ("docParts").  A video may have a cover: a photo uploaded after it,     *)
(* without which the video is not sent.                                    *)
(*                                                                         *)
(* All runs on the main thread: a handler is one step, with the loop that  *)
(* fills the sessions and what it starts again from within itself.  Its    *)
(* calls and the rounds of its loops are made one after the other by Do.   *)
(* Time is left out: an answer is fast, slowish or slow as it likes.       *)
(***************************************************************************)
EXTENDS Integers, Sequences, SequencesExt, FiniteSets, FiniteSetsExt,
        TLC

CONSTANTS Items,          \* the messages whose files are uploaded, and covers
          Parts,          \* parts of a photo or of a thumbnail, per item
          DocParts,       \* parts of the document, per item
          CoverOf,        \* videos with a cover -> the item of the cover
          PartSize,       \* size of a sliced part
          DocPartSize,    \* docPartSize
          MaxPerSession,  \* kMaxUploadPerSession
          AcceptAsFast,   \* kAcceptAsFastIfTotalAtLeast
          MaxSessions,    \* kMaxSessionsCount
          MaxCalls,       \* bound: calls and rounds of loops in one handler
          MaxFailures,    \* bound: refused parts, files that cannot be read
          MaxByUser       \* bound: cancellations and pauses

Videos == DOMAIN CoverOf
Covers == { CoverOf[v] : v \in Videos }

ASSUME UploaderAssumption ==
  /\ Videos \subseteq Items /\ Covers \subseteq Items \ Videos
  /\ \A v, w \in Videos : CoverOf[v] = CoverOf[w] => v = w
  /\ Parts \in [Items -> Nat] /\ DocParts \in [Items -> Nat]
  /\ \A i \in Items : Parts[i] + DocParts[i] > 0
  /\ \A v \in Videos : DocParts[v] > 0 /\ DocParts[CoverOf[v]] = 0
  /\ {PartSize, DocPartSize, MaxPerSession, AcceptAsFast} \subseteq Nat \ {0}
  /\ PartSize < MaxPerSession /\ DocPartSize <= MaxPerSession
  /\ {MaxSessions, MaxCalls} \subseteq Nat \ {0}

VARIABLES
  up,        \* the Uploader
  unread,    \* items whose file cannot be read any more
  saved,     \* server: <<item, doc part?, file_part, whose bytes>>
  failures,  \* failures so far
  byUser     \* cancellations and pauses so far

vars == <<up, unread, saved, failures, byUser>>

\* Sessions are numbered from 1.  _videoIdToCoverId and _videoWaitingCover are
\* filled and emptied together: "waiting" is the set of their videos.
Init ==
  /\ up = [ queue |-> <<>>, requests |-> <<>>, sent |-> <<>>, fast |-> {},
            pending |-> <<>>, waiting |-> {}, media |-> {},
            paused |-> FALSE, nextTimer |-> FALSE, stopTimer |-> FALSE,
            posted |-> FALSE,
            told |-> [i \in Items |-> "no"] ]  \* history: the events fired
  /\ unread = {} /\ saved = {} /\ failures = 0 /\ byUser = 0

Entry(i) == [item |-> i, sent |-> 0, waits |-> 0, docSent |-> 0, docWaits |-> 0]

\* The only member of S; TLC works it out once only.
The(S) == CHOOSE x \in S : TRUE

\* s without the members of S.
Without(s, S) ==
  LET keep[k \in 0 .. Len(s)] ==
        IF k = 0 THEN <<>>
        ELSE IF s[k] \in S THEN keep[k - 1] ELSE Append(keep[k - 1], s[k])
  IN keep[Len(s)]

Size(r) == IF r.doc THEN DocPartSize ELSE PartSize

\* Place of the item in the queue, 0 if it is not there.
Place(u, i) ==
  Max({0} \cup { k \in DOMAIN u.queue : u.queue[k].item = i })

-----------------------------------------------------------------------------
(* Parts are sent. *)

\* sendPreparedRequest(): part "no" goes as "filePart" through session s.
SendPrepared(u, s, r) ==
  [u EXCEPT !.sent[s] = @ + Size(r),
            !.requests = Append(@, [r EXCEPT !.session = s,
                                             !.queued = u.sent[s],
                                             !.fresh = TRUE])]

NewRequest(i, doc, no) ==
  [ item |-> i, doc |-> doc, no |-> no, filePart |-> no,
    session |-> 0, queued |-> 0, fresh |-> TRUE ]

PartOfNone(r) == 0  \* mistake: no request keeps its part

\* Request::part, which only sendDocPart() sets.
PartOf(r) == IF r.doc THEN r.no ELSE 0

SendPendingPart(u, s) ==
  LET r == Head(u.pending)
  IN SendPrepared([u EXCEPT !.pending = Tail(@)], s,
                  [r EXCEPT !.filePart = PartOf(r)])

SendSlicedPart(u, k, s) ==
  LET e == u.queue[k]
  IN SendPrepared([u EXCEPT !.queue[k] = [e EXCEPT !.sent = @ + 1, !.waits = @ + 1]],
                  s, NewRequest(e.item, FALSE, e.sent))

SendDocPart(u, k, s) ==
  LET e == u.queue[k]
  IN SendPrepared([u EXCEPT !.queue[k] = [e EXCEPT !.docSent = @ + 1, !.docWaits = @ + 1]],
                  s, NewRequest(e.item, TRUE, e.docSent))

\* canAddDcIndex()
CanAddSession(u) ==
  Len(u.sent) < MaxSessions /\ Len(u.sent) = Cardinality(u.fast)

\* chooseDcIndexForNextRequest(): 0 is none; one above the last is a new one.
ChooseSession(u, used) ==
  LET free  == DOMAIN u.sent \ used
      idle  == { s \in free : u.sent[s] = 0 }
      least == { s \in free : \A t \in free : u.sent[s] <= u.sent[t] }
  IN CASE idle # {}                      -> Min(idle)
       [] idle = {} /\ CanAddSession(u)  -> Len(u.sent) + 1
       [] OTHER                          -> Min(least \cup {MaxSessions + 1})

\* The answers to what was sent before do not count for the new session.
AddSession(u) ==
  [u EXCEPT !.sent = Append(@, 0), !.fast = {},
            !.requests = [k \in DOMAIN @ |-> [@[k] EXCEPT !.fresh = FALSE]]]

\* chooseEntryForNextRequest(), as a place in the queue; 0 is none.
ChooseEntry(u) ==
  LET left == { k \in DOMAIN u.queue :
                  \/ u.queue[k].sent < Parts[u.queue[k].item]
                  \/ u.queue[k].docSent < DocParts[u.queue[k].item] }
  IN CASE u.pending # <<>>              -> Place(u, Head(u.pending).item)
       [] u.pending = <<>> /\ left = {} -> 0
       [] OTHER                         -> Min(left)

\* What a call makes of u, and the calls that it makes next.
Then(u, calls) == [u |-> u, calls |-> calls]

DoMaybeSend == [op |-> "maybeSend"]
DoFill(used) == [op |-> "fill", used |-> used]
DoNext(s, used) == [op |-> "next", session |-> s, used |-> used]
DoPart(s, used) == [op |-> "part", session |-> s, used |-> used]
DoFront == [op |-> "front"]
DoFailed(i) == [op |-> "failed", item |-> i]
DoCancel(i) == [op |-> "cancel", item |-> i]
DoFailAll == [op |-> "failAll"]

\* The loop of maybeSend(): a session that has room takes a part.
FillSessions(u, used) ==
  LET s == ChooseSession(u, used)
  IN IF s > MaxSessions THEN Then([u EXCEPT !.nextTimer = used # {}], <<>>)
     ELSE Then(IF s > Len(u.sent) THEN AddSession(u) ELSE u, <<DoPart(s, used)>>)

\* The next part goes through session s; a file that cannot be read fails and
\* the next one is tried.
FillSession(u, s, used) ==
  LET k == ChooseEntry(u)
      more(v) == Then(v, <<DoNext(s, used)>>)
  IN CASE k = 0 -> Then(u, <<>>)
       [] k # 0 /\ u.pending # <<>> -> more(SendPendingPart(u, s))
       [] k # 0 /\ u.pending = <<>> /\ u.queue[k].sent < Parts[u.queue[k].item] ->
            IF u.sent[s] + PartSize >= MaxPerSession THEN Then(u, <<>>)
            ELSE more(SendSlicedPart(u, k, s))
       [] OTHER ->
            CASE u.sent[s] + DocPartSize > MaxPerSession -> Then(u, <<>>)
              [] u.queue[k].item \in unread /\ u.sent[s] + DocPartSize <= MaxPerSession ->
                   Then(u, <<DoFailed(u.queue[k].item), DoPart(s, used)>>)
              [] OTHER -> more(SendDocPart(u, k, s))

\* A session that has enough is not used again.
NextSession(u, s, used) ==
  Then(u, <<DoFill(IF u.sent[s] >= AcceptAsFast THEN used \cup {s} ELSE used)>>)

MaybeSend(u) ==
  IF u.queue = <<>> THEN Then([u EXCEPT !.stopTimer = TRUE, !.paused = FALSE], <<>>)
  ELSE IF u.paused THEN Then(u, <<>>)
  ELSE Then([u EXCEPT !.stopTimer = FALSE], <<DoFill({})>>)

-----------------------------------------------------------------------------
(* Uploads begin and end. *)

\* upload()
Push(u, i) ==
  Then([u EXCEPT !.queue = Append(@, Entry(i))],
       IF u.nextTimer THEN <<>> ELSE <<DoMaybeSend>>)

\* finishFront(): the cover goes as a photo of its own first, and what becomes
\* of it decides on the video.
FinishFront(u) ==
  LET i == Head(u.queue).item
      v == [u EXCEPT !.queue = Tail(@)]
  IN CASE i \in Videos -> Push([v EXCEPT !.waiting = @ \cup {i}], CoverOf[i])
       [] \E w \in u.waiting : CoverOf[w] = i -> Then([v EXCEPT !.media = @ \cup {i}], <<>>)
       [] OTHER -> Then([v EXCEPT !.told[i] = "ready"], <<>>)

\* Nothing of the entry is left to be sent or to be answered.
Complete(e) ==
  /\ e.sent >= Parts[e.item] /\ e.waits = 0
  /\ e.docSent >= DocParts[e.item] /\ e.docWaits = 0

MaybeFinishFront(u) ==
  IF u.queue # <<>> /\ Complete(Head(u.queue))
  THEN LET v == FinishFront(u) IN Then(v.u, Append(v.calls, DoFront))
  ELSE Then(u, <<>>)

\* The amount of the requests of R that go through session s.
Carried(R, s) ==
  LET of(doc) == Cardinality({ r \in R : r.session = s /\ r.doc = doc })
  IN PartSize * of(FALSE) + DocPartSize * of(TRUE)

\* Requests leave the list, and their sessions are relieved.
Relieve(u, R) ==
  [u EXCEPT !.requests = Without(@, R),
            !.sent = [s \in DOMAIN @ |-> @[s] - Carried(R, s)]]

OfItem(seq, i) == { r \in ToSet(seq) : r.item = i }

CancelRequestsOnly(u, i) ==  \* mistake: the sessions are not relieved
  [u EXCEPT !.requests = Without(@, OfItem(@, i)),
            !.pending = Without(@, OfItem(@, i))]

CancelRequests(u, i) ==
  [Relieve(u, OfItem(u.requests, i)) EXCEPT !.pending = Without(@, OfItem(@, i))]

\* The end of failed(), with the posted maybeSend().
Cancelled(u, i) ==
  Then([CancelRequests(u, i) EXCEPT !.posted = TRUE], <<DoFront>>)

Failed(u, i) ==
  LET k == Place(u, i)
      fail(w) == [u EXCEPT !.waiting = @ \ {w}, !.told[w] = "failed"]
      coverFor == { w \in u.waiting : CoverOf[w] = i }
  IN CASE k # 0 -> Cancelled([u EXCEPT !.queue = RemoveAt(@, k), !.told[i] = "failed"], i)
       [] k = 0 /\ i \in u.waiting -> Then(fail(i), <<DoFailed(CoverOf[i]), DoCancel(i)>>)
       [] k = 0 /\ coverFor # {} -> Cancelled(fail(CHOOSE w \in coverFor : TRUE), i)
       [] OTHER -> Cancelled(u, i)

FailAll(u) ==
  IF u.queue = <<>> THEN Then(u, <<>>)
  ELSE Then(u, <<DoFailed(Head(u.queue).item), DoFailAll>>)

\* A call is made.
Make(u, c) ==
  CASE c.op = "maybeSend" -> MaybeSend(u)
    [] c.op = "fill"      -> FillSessions(u, c.used)
    [] c.op = "part"      -> FillSession(u, c.session, c.used)
    [] c.op = "next"      -> NextSession(u, c.session, c.used)
    [] c.op = "front"     -> MaybeFinishFront(u)
    [] c.op = "failed"    -> Failed(u, c.item)
    [] c.op = "cancel"    -> Cancelled(u, c.item)
    [] c.op = "failAll"   -> FailAll(u)

\* The first of the calls is made; those it makes come before the others.
Step(m) ==
  IF m.calls = <<>> THEN m
  ELSE The({ Then(v.u, v.calls \o Tail(m.calls)) : v \in {Make(m.u, Head(m.calls))} })

\* u after the calls and all that they make.
Do(u, calls) ==
  LET after[n \in 0 .. MaxCalls] ==
        IF n = 0 THEN Then(u, calls)
        ELSE The({ Step(m) : m \in {after[n - 1]} })
  IN The({ IF Assert(m.calls = <<>>, "MaxCalls is too small") THEN m.u ELSE m.u :
             m \in {after[MaxCalls]} })

StopSessions(u) ==
  IF \E s \in DOMAIN u.sent : u.sent[s] # 0 THEN [u EXCEPT !.stopTimer = TRUE]
  ELSE [u EXCEPT !.sent = <<>>, !.fast = {}]

-----------------------------------------------------------------------------
(* Answers. *)

ThroughSession(seq, s) == { r \in ToSet(seq) : r.session = s }

RemoveSessionOnly(u) ==  \* mistake: what it carried is not kept
  LET s == Len(u.sent)
  IN [u EXCEPT !.requests = Without(@, ThroughSession(@, s)),
               !.sent = Front(@), !.fast = @ \ {s}]

\* removeDcIndex(): what the last session carried is to be sent again.
RemoveSession(u) ==
  LET s == Len(u.sent)
      of == ThroughSession(u.requests, s)
  IN [u EXCEPT !.requests = Without(@, of),
               !.pending = @ \o Without(u.requests, ToSet(u.requests) \ of),
               !.sent = Front(@), !.fast = @ \ {s}]

\* What the time of the answer changes: fast answers on all sessions let one
\* be added, a slow one removes one.
Timed(u, r) ==
  { u }
    \cup (IF r.fresh /\ r.queued + Size(r) >= AcceptAsFast
          THEN {[u EXCEPT !.fast = @ \cup {r.session}]} ELSE {})
    \cup {[u EXCEPT !.fast = {}]}
    \cup (IF Len(u.sent) > 1 THEN {RemoveSession([u EXCEPT !.fast = {}])} ELSE {})

\* partLoaded(): the server has the part.
PartLoaded ==
  /\ UNCHANGED <<unread, failures, byUser>>
  /\ \E r \in ToSet(up.requests) :
       /\ saved' = { p \in saved : <<p[1], p[2], p[3]>> # <<r.item, r.doc, r.filePart>> }
                     \cup {<<r.item, r.doc, r.filePart, r.no>>}
       /\ \E u \in Timed(Relieve(up, {r}), r) :
            LET p == Place(u, r.item)
                v == IF r.doc THEN [u EXCEPT !.queue[p].docWaits = @ - 1]
                     ELSE [u EXCEPT !.queue[p].waits = @ - 1]
            IN up' = Do(v, IF p = 1 THEN <<DoFront, DoMaybeSend>> ELSE <<DoMaybeSend>>)

Fail == failures < MaxFailures /\ failures' = failures + 1

\* partLoaded() of boolFalse, and partFailed()
PartRefused ==
  /\ Fail
  /\ \E r \in ToSet(up.requests) : up' = Do(Relieve(up, {r}), <<DoFailed(r.item)>>)
  /\ UNCHANGED <<unread, saved, byUser>>

\* Answers to messages.uploadMedia, which is never cancelled.
CoverUploaded ==
  /\ \E c \in up.media :
       LET of == { v \in up.waiting : CoverOf[v] = c }
       IN up' = [up EXCEPT !.media = @ \ {c}, !.waiting = @ \ of,
                           !.told = [i \in Items |-> IF i \in of THEN "ready" ELSE @[i]]]
  /\ UNCHANGED <<unread, saved, failures, byUser>>

CoverRefused ==
  /\ Fail
  /\ \E c \in up.media : up' = Do([up EXCEPT !.media = @ \ {c}], <<DoFailed(c)>>)
  /\ UNCHANGED <<unread, saved, byUser>>

-----------------------------------------------------------------------------
(* Timers, posted calls, the user. *)

NextTimer ==
  /\ up.nextTimer
  /\ UNCHANGED <<unread, saved, failures, byUser>>
  /\ up' = Do([up EXCEPT !.nextTimer = FALSE], <<DoMaybeSend>>)

StopTimer ==
  /\ up.stopTimer
  /\ up' = StopSessions([up EXCEPT !.stopTimer = FALSE])
  /\ UNCHANGED <<unread, saved, failures, byUser>>

PostedSend ==
  /\ up.posted
  /\ UNCHANGED <<unread, saved, failures, byUser>>
  /\ up' = Do([up EXCEPT !.posted = FALSE], <<DoMaybeSend>>)

\* Who uploads does so once with each item.
Known(i) == up.told[i] # "no" \/ Place(up, i) # 0 \/ i \in up.waiting

Upload(i) ==
  /\ i \notin Covers /\ ~Known(i)
  /\ LET v == Push(up, i) IN up' = Do(v.u, v.calls)
  /\ UNCHANGED <<unread, saved, failures, byUser>>

\* The file of an upload goes away.
Unread(i) ==
  /\ Fail
  /\ DocParts[i] > 0 /\ i \notin unread
  /\ unread' = unread \cup {i}
  /\ UNCHANGED <<up, saved, byUser>>

ByUser == byUser < MaxByUser /\ byUser' = byUser + 1

Cancel(i) ==
  /\ ByUser
  /\ i \notin Covers /\ Known(i) /\ up.told[i] = "no"
  /\ UNCHANGED <<unread, saved, failures>>
  /\ up' = Do(up, <<DoFailed(i)>>)

\* cancelAll(), of an account that is logged out.
CancelAll ==
  /\ ByUser
  /\ LET u == Do(up, <<DoFailAll>>)
         cleared == [u EXCEPT !.requests = <<>>, !.sent = [s \in DOMAIN @ |-> 0]]
     IN /\ u.queue = <<>>  \* the loop has ended
        /\ up' = Do([StopSessions(cleared) EXCEPT !.stopTimer = FALSE, !.paused = FALSE],
                    <<DoMaybeSend>>)
  /\ UNCHANGED <<unread, saved, failures>>

Pause ==
  /\ ByUser /\ ~up.paused
  /\ up' = [up EXCEPT !.paused = TRUE]
  /\ UNCHANGED <<unread, saved, failures>>

UnpauseAlone ==  \* mistake: nothing is sent
  /\ up.paused
  /\ up' = [up EXCEPT !.paused = FALSE]
  /\ UNCHANGED <<unread, saved, failures, byUser>>

Unpause ==
  /\ up.paused
  /\ UNCHANGED <<unread, saved, failures, byUser>>
  /\ up' = Do([up EXCEPT !.paused = FALSE], <<DoMaybeSend>>)

-----------------------------------------------------------------------------
Answer == PartLoaded \/ PartRefused \/ CoverUploaded \/ CoverRefused

Timers == NextTimer \/ StopTimer \/ PostedSend

User ==
  \/ \E i \in Items : Upload(i) \/ Unread(i) \/ Cancel(i)
  \/ CancelAll \/ Pause \/ Unpause

Next == Answer \/ Timers \/ User

Spec == Init /\ [][Next]_vars

\* The server answers; the client's loop runs timers and posted calls.
Fairness == /\ WF_vars(PartLoaded \/ PartRefused)
            /\ WF_vars(CoverUploaded \/ CoverRefused)
            /\ WF_vars(PostedSend) /\ WF_vars(NextTimer) /\ WF_vars(StopTimer)

FairSpec == Spec /\ Fairness

-----------------------------------------------------------------------------
(* Properties. *)

\* The amount noted for a session is what its requests carry, no request goes
\* through a session that was stopped, and only sessions there are can be fast:
\* the numbers that decide when a session is full, added or stopped.
Balanced ==
  LET of(s, doc) == Cardinality({ k \in DOMAIN up.requests :
        up.requests[k].session = s /\ up.requests[k].doc = doc })
  IN /\ \A k \in DOMAIN up.requests : up.requests[k].session \in DOMAIN up.sent
     /\ \A s \in DOMAIN up.sent :
          up.sent[s] = PartSize * of(s, FALSE) + DocPartSize * of(s, TRUE)
     /\ up.fast \subseteq DOMAIN up.sent

\* The two assertions that a part belongs to an upload of the queue, and the
\* counters by which the upload is found to be done.
PartsAccounted ==
  LET all == up.requests \o up.pending
      of(i, doc) == Cardinality({ k \in DOMAIN all : all[k].item = i /\ all[k].doc = doc })
  IN /\ \A k \in DOMAIN all : Place(up, all[k].item) # 0
     /\ \A k \in DOMAIN up.queue :
          LET e == up.queue[k]
          IN e.waits = of(e.item, FALSE) /\ e.docWaits = of(e.item, TRUE)

\* A document that is said to be uploaded is on the server, each part in its
\* place, whatever sessions were removed meanwhile.
DocumentComplete ==
  \A i \in Items : up.told[i] = "ready" \/ i \in up.waiting =>
    \A n \in 0 .. DocParts[i] - 1 : <<i, TRUE, n, n>> \in saved

\* So are the photos and thumbnails: an inputFile has as many parts as it says.
SlicedComplete ==
  \A i \in Items : up.told[i] = "ready" \/ i \in up.waiting \cup up.media =>
    \A n \in 0 .. Parts[i] - 1 : <<i, FALSE, n, n>> \in saved

\* Every upload ends, with its file or with a failure, if the user does not
\* pause it for ever.  A video whose cover fails in the queue does not: failed()
\* looks for the video only when the cover is not in the queue.
UploadEnds ==
  \A i \in Items \ Covers :
    Known(i) ~> \/ up.told[i] # "no" \/ up.paused
                \/ i \in Videos /\ up.told[CoverOf[i]] = "failed"
=============================================================================
