------------------------------ MODULE Updates ------------------------------
(***************************************************************************)
(* The common update box of an account (api/api_updates.cpp): the events   *)
(* the server numbers by pts and by seq, the session that carries them in  *)
(* the order they were sent, and the client that follows them, finds gaps  *)
(* with a PtsWaiter and repairs them with updates.getDifference.           *)
(*                                                                         *)
(* The server is not in this repository: it is what the handlers of        *)
(* Updates expect of it.  An event takes pts - count + 1 .. pts.  It is    *)
(* pushed once, in any order and possibly never, or answers a request of   *)
(* this client.  A container of updates is one update here: the client     *)
(* feeds them one after the other.                                         *)
(***************************************************************************)
EXTENDS PtsWaiter, FiniteSets, Sequences

CONSTANTS FirstPts,        \* the pts of the box when the client starts
          MaxPts,          \* bound: events are made up to this pts
          MixedPts,        \* bound: the same, in a box that has had a seq
          Counts,          \* how many pts one event may take
          MaxSeq,          \* bound: containers numbered by seq per session
          MaxInFlight,     \* bound: messages the server has under way
          MaxDisturbances  \* bound: failures, lost sessions and resets

ASSUME FirstPtsAssumption == FirstPts \in Nat \ {0}
ASSUME MaxPtsAssumption == MaxPts \in Nat
ASSUME CountsAssumption == Counts \subseteq Nat \ {0}
ASSUME BoundsAssumption ==
  MaxSeq \in Nat /\ MaxInFlight \in Nat /\ MaxDisturbances \in Nat

VARIABLES
  log,           \* server: every event made, with the pts it ends at
  serverPts,     \* server: the pts of the box
  outbox,        \* server: messages made and still to be sent, in any order
  serverSeq,     \* server: the last seq of this session
  disturbances,  \* server: failures, lost sessions and resets so far
  net,           \* messages on their way to the client, first one first
  waiter,        \* _ptsWaiter, with _getDifferenceTimeByPts as its timer
  updatesSeq,    \* _updatesSeq
  bySeqUpdates,  \* keys of _bySeqUpdates
  bySeqTimer,    \* _bySeqTimer is active
  failTimer,     \* _getDifferenceTimeAfterFail is set
  request,       \* the request the box waits for: GetState, GetDifference
  askedPts,      \* the pts GetDifference was sent with
  answered,      \* the server has answered it in this session
  applied,       \* history: events whose effect is in the client's data
  early,         \* history: of those, the results of its own requests
  pending,       \* history: events counted by the waiter above its "good"
  seqDone        \* history: containers of this session fed or made up for

serverVars == <<log, serverPts, outbox, serverSeq, disturbances>>
seqVars    == <<updatesSeq, bySeqUpdates, bySeqTimer>>
askVars    == <<failTimer, request, askedPts, answered>>
dataVars   == <<applied, early, pending>>
vars == <<serverVars, net, waiter, seqVars, askVars, dataVars, seqDone>>

Pts == 0 .. MaxPts + FirstPts
Events == { e.pts : e \in log }

Pushed == {"update", "seq", "tooLong", "newSession"}
Results == {"affected", "sent"}
Answers == {"state", "empty", "slice", "difference", "fail"}

\* Kinds of messages that carry one event of the box.
Carriers == {"update", "affected", "sent"}

Message(kind, pts, count, seq) ==
  [kind |-> kind, pts |-> pts, count |-> count, seq |-> seq]

Messages == [ kind : Pushed \cup Results \cup Answers,
              pts : Pts, count : Nat, seq : 0 .. MaxSeq ]

-----------------------------------------------------------------------------
Init ==
  /\ log = {} /\ serverPts = FirstPts /\ outbox = {}
  /\ serverSeq = 0 /\ disturbances = 0 /\ net = <<>>
  /\ waiter = SetRequesting(Fresh, TRUE)
  /\ updatesSeq = 0 /\ bySeqUpdates = {} /\ bySeqTimer = FALSE
  /\ failTimer = FALSE /\ request = "state" /\ askedPts = 0 /\ answered = FALSE
  /\ applied = {} /\ early = {} /\ pending = {} /\ seqDone = {}

-----------------------------------------------------------------------------
(* The server and the session that brings its messages. *)

Send(m) ==
  /\ Len(net) < MaxInFlight
  /\ net' = Append(net, m)

clientVars == <<waiter, seqVars, askVars, dataVars, seqDone>>

\* An event happens in the account: another device or user caused it, and it
\* is pushed, or this client did, and it comes with the result.
Produce ==
  /\ \E count \in Counts, kind \in Carriers :
       /\ serverPts + count <= MaxPts
       /\ serverPts + count <= MixedPts \/ (serverSeq = 0 /\ updatesSeq = 0)
       /\ serverPts' = serverPts + count
       /\ log' = log \cup {[pts |-> serverPts', count |-> count]}
       /\ outbox' = outbox \cup {Message(kind, serverPts', count, 0)}
  /\ UNCHANGED <<serverSeq, disturbances, net, clientVars>>

\* A container with no pts: statuses, typing and the like.
ProduceSeq ==
  /\ serverSeq < MaxSeq /\ serverPts <= MixedPts
  /\ serverSeq' = serverSeq + 1
  /\ outbox' = outbox \cup {Message("seq", 0, 0, serverSeq')}
  /\ UNCHANGED <<log, serverPts, disturbances, net, clientVars>>

Deliver ==
  /\ \E m \in outbox : Send(m) /\ outbox' = outbox \ {m}
  /\ UNCHANGED <<log, serverPts, serverSeq, disturbances, clientVars>>

LosePush ==
  /\ \E m \in outbox : m.kind \in Pushed /\ outbox' = outbox \ {m}
  /\ UNCHANGED <<log, serverPts, serverSeq, disturbances, net, clientVars>>

Disturb ==
  /\ disturbances < MaxDisturbances
  /\ disturbances' = disturbances + 1

PushTooLong ==
  /\ Disturb
  /\ Send(Message("tooLong", 0, 0, 0))
  /\ UNCHANGED <<log, serverPts, outbox, serverSeq, clientVars>>

\* The server forgets the session: what was under way is lost, and the
\* request the box waits for is sent again in the new one.
LoseSession ==
  /\ Disturb
  /\ net' = <<Message("newSession", 0, 0, 0)>>
  /\ serverSeq' = 0
  /\ outbox' = { m \in outbox : m.kind # "seq" }
  /\ answered' = FALSE
  /\ UNCHANGED <<log, serverPts, waiter, seqVars, failTimer, request,
                 askedPts, dataVars, seqDone>>

Answer(kind, m) ==
  /\ request = kind /\ ~answered
  /\ Send(m)
  /\ answered' = TRUE
  /\ UNCHANGED <<log, serverPts, outbox, serverSeq, waiter, seqVars,
                 failTimer, request, askedPts, dataVars, seqDone>>

AnswerState ==
  /\ Answer("state", Message("state", serverPts, 0, serverSeq))
  /\ UNCHANGED disturbances

\* Up to an event of the log, or up to the present.
AnswerDifference ==
  /\ \/ /\ askedPts = serverPts
        /\ Answer("difference", Message("empty", 0, 0, serverSeq))
     \/ /\ askedPts < serverPts
        /\ Answer("difference", Message("difference", serverPts, 0, serverSeq))
     \/ \E p \in Events : /\ askedPts < p /\ p < serverPts
                          /\ Answer("difference", Message("slice", p, 0, serverSeq))
  /\ UNCHANGED disturbances

\* A failed getDifference(); of updates.getState a failure has no handler, and the
\* box would be "requesting" for ever.
AnswerFail ==
  /\ Disturb
  /\ Answer("difference", Message("fail", 0, 0, 0))

-----------------------------------------------------------------------------
(* The client: what its handlers share. *)

\* getDifference() called when the waiter is w.
GetDifference(w) ==
  IF w.requesting
  THEN /\ waiter' = [w EXCEPT !.timer = FALSE]
       /\ UNCHANGED <<bySeqUpdates, bySeqTimer, askVars>>
  ELSE /\ waiter' = SetRequesting([w EXCEPT !.timer = FALSE], TRUE)
       /\ bySeqUpdates' = {} /\ bySeqTimer' = FALSE /\ failTimer' = FALSE
       /\ request' = "difference" /\ askedPts' = w.good /\ answered' = FALSE

\* The kept containers that follow seq without a hole.
Run(kept, seq) == { s \in kept : s > seq /\ (seq + 1) .. s \subseteq kept }

RunEnd(kept, seq) == seq + Cardinality(Run(kept, seq))

\* setState() as far as seq goes: a new seq lets the kept containers that
\* follow it be fed, and drops those before it.
SameSeq(seq) == seq = 0 \/ seq = updatesSeq

SeqAfterAll(seq) ==  \* mistake: everything kept is fed, holes or not
  IF SameSeq(seq) THEN updatesSeq ELSE seq + Cardinality(bySeqUpdates)

SeqAfter(seq) == IF SameSeq(seq) THEN updatesSeq ELSE RunEnd(bySeqUpdates, seq)

SetSeqNoRestart(seq) ==  \* mistake: the timer is only stopped
  /\ updatesSeq' = SeqAfter(seq)
  /\ bySeqUpdates' = IF SameSeq(seq) THEN bySeqUpdates
                     ELSE { s \in bySeqUpdates : s > updatesSeq' }
  /\ bySeqTimer' = IF SameSeq(seq) THEN bySeqTimer ELSE FALSE

SetSeq(seq) ==
  /\ updatesSeq' = SeqAfter(seq)
  /\ bySeqUpdates' = IF SameSeq(seq) THEN bySeqUpdates
                     ELSE { s \in bySeqUpdates : s > updatesSeq' }
  /\ bySeqTimer' = IF SameSeq(seq) THEN bySeqTimer ELSE bySeqUpdates' # {}

\* The kept containers that a step feeds.
Replayed(seq) == { s \in bySeqUpdates : seq < s /\ s <= updatesSeq' }

\* An event is counted when the waiter takes it into account: it leaves the
\* waiter's own arithmetic when "good" passes it.
Count(pts, count) ==
  pending' = IF waiter.requesting \/ Covered(waiter, pts, count) THEN pending
             ELSE { p \in pending \cup {pts} : p > waiter'.good }

Receive(kinds) ==
  /\ net # <<>>
  /\ Head(net).kind \in kinds
  /\ net' = Tail(net)
  /\ UNCHANGED serverVars

-----------------------------------------------------------------------------
(* mtpUpdateReceived: nothing is looked at while the difference is asked. *)

SkipPush ==
  /\ Receive(Pushed \ {"newSession"})
  /\ waiter.requesting
  /\ UNCHANGED clientVars

\* updateAndApply of an update with a payload; the peer is loaded.
Feed(m) ==
  LET done == UpdateAndApply(waiter, m.pts, m.count) IN
  /\ waiter' = done.waiter
  /\ applied' = applied \cup done.applied
  /\ Count(m.pts, m.count)
  /\ UNCHANGED <<seqVars, seqDone, askVars>>

\* feedUpdate() does not know the peer of the message yet.
FeedUnknown ==
  /\ ~waiter.requesting
  /\ GetDifference(waiter)
  /\ UNCHANGED <<updatesSeq, seqDone, dataVars>>

ReceiveUpdate ==
  /\ Receive({"update"})
  /\ ~waiter.requesting
  /\ \/ Feed(Head(net)) /\ UNCHANGED early
     \/ FeedUnknown

ReceiveSeq ==
  /\ Receive({"seq"})
  /\ ~waiter.requesting
  /\ LET seq == Head(net).seq IN
     \/ /\ seq <= updatesSeq
        /\ UNCHANGED <<seqVars, seqDone>>
     \/ /\ seq > updatesSeq + 1
        /\ bySeqUpdates' = bySeqUpdates \cup {seq}
        /\ bySeqTimer' = TRUE
        /\ UNCHANGED <<updatesSeq, seqDone>>
     \/ /\ seq = updatesSeq + 1
        /\ SetSeq(seq)
        /\ seqDone' = seqDone \cup {seq} \cup Replayed(seq)
  /\ UNCHANGED <<waiter, askVars, dataVars>>

ReceiveTooLong ==
  /\ Receive({"tooLong"})
  /\ ~waiter.requesting
  /\ GetDifference(waiter)
  /\ UNCHANGED <<updatesSeq, seqDone, dataVars>>

\* mtpNewSessionCreated()
ReceiveNewSession ==
  /\ Receive({"newSession"})
  /\ updatesSeq' = 0
  /\ seqDone' = {}
  /\ GetDifference(waiter)
  /\ UNCHANGED dataVars

-----------------------------------------------------------------------------
(* Results of requests of this client, handled at any time. *)

\* applyUpdates() on the Updates a request has returned.
ReceiveSent ==
  /\ Receive({"sent"})
  /\ \/ /\ Feed(Head(net))
        /\ early' = early \cup IF waiter.requesting THEN {Head(net).pts} ELSE {}
     \/ FeedUnknown

\* applyAffectedMessages(): the effect is applied, only the pts is news.
ReceiveAffected ==
  /\ Receive({"affected"})
  /\ LET m == Head(net)
         done == UpdateApplied(waiter, m.pts, m.count) IN
     /\ waiter' = done.waiter
     /\ applied' = applied \cup done.applied \cup {m.pts}
     /\ early' = early \cup {m.pts}
     /\ Count(m.pts, m.count)
  /\ UNCHANGED <<seqVars, seqDone, askVars>>

-----------------------------------------------------------------------------
(* The box's own requests. *)

\* The events the answer brings: all that end after the pts it was asked with.
Fetched(pts) == { p \in Events : askedPts < p /\ p <= pts }

\* setState() on the waiter.
StateTaken(pts) ==
  /\ applied' = applied \cup Fetched(pts)
  /\ pending' = {}
  /\ UNCHANGED early

RequestDone == request' = "none" /\ UNCHANGED <<askedPts, answered>>

\* A whole state was taken: containers up to its seq need not come.
SeqCovered(seq) == seqDone' = seqDone \cup 1 .. seq \cup Replayed(seq)

\* stateDone(), and differenceDone() of the last part of a difference.  The
\* dialogs requested after GetState hold the effect of all earlier events.
ReceiveState ==
  /\ Receive({"state", "difference"})
  /\ LET m == Head(net) IN
     /\ waiter' = SetRequesting(InitPts(waiter, m.pts), FALSE)
     /\ StateTaken(m.pts)
     /\ SetSeq(m.seq) /\ SeqCovered(m.seq)
  /\ RequestDone /\ UNCHANGED failTimer

ReceiveEmpty ==
  /\ Receive({"empty"})
  /\ waiter' = SetRequesting(InitPts(waiter, waiter.good), FALSE)
  /\ StateTaken(waiter.good)
  /\ SetSeq(Head(net).seq) /\ SeqCovered(Head(net).seq)
  /\ RequestDone /\ UNCHANGED failTimer

ReceiveSliceAsLast ==  \* mistake: a part is taken for the whole
  /\ Receive({"slice"})
  /\ LET m == Head(net) IN
     /\ waiter' = SetRequesting(InitPts(waiter, m.pts), FALSE)
     /\ StateTaken(m.pts)
     /\ SetSeq(m.seq) /\ SeqCovered(m.seq)
  /\ RequestDone /\ UNCHANGED failTimer

\* The next part is asked for at once.
ReceiveSlice ==
  /\ Receive({"slice"})
  /\ LET m == Head(net) IN
     /\ GetDifference(SetRequesting(InitPts(waiter, m.pts), FALSE))
     /\ StateTaken(m.pts)
     /\ updatesSeq' = SeqAfter(m.seq) /\ SeqCovered(m.seq)

ReceiveFailSilently ==  \* mistake: nothing is started after a failure
  /\ Receive({"fail"})
  /\ RequestDone
  /\ UNCHANGED <<failTimer, waiter, seqVars, dataVars, seqDone>>

\* differenceFail(): the box stays "requesting" until the timer fires.
ReceiveFail ==
  /\ Receive({"fail"})
  /\ failTimer' = TRUE
  /\ RequestDone
  /\ UNCHANGED <<waiter, seqVars, dataVars, seqDone>>

-----------------------------------------------------------------------------
(* Timers. *)

\* getDifferenceByPts()
ByPtsTimer ==
  /\ waiter.timer
  /\ GetDifference(waiter)
  /\ UNCHANGED <<serverVars, net, updatesSeq, seqDone, dataVars>>

BySeqTimer ==
  /\ bySeqTimer
  /\ GetDifference(waiter)
  /\ UNCHANGED <<serverVars, net, updatesSeq, seqDone, dataVars>>

\* getDifferenceAfterFail()
FailTimerStillRequesting ==  \* mistake: "requesting" is not reset first
  /\ failTimer
  /\ GetDifference(waiter)
  /\ UNCHANGED <<serverVars, net, updatesSeq, seqDone, dataVars>>

FailTimer ==
  /\ failTimer
  /\ GetDifference(SetRequesting(waiter, FALSE))
  /\ UNCHANGED <<serverVars, net, updatesSeq, seqDone, dataVars>>

-----------------------------------------------------------------------------
Server == \/ Produce \/ ProduceSeq \/ Deliver \/ LosePush
          \/ PushTooLong \/ LoseSession
          \/ AnswerState \/ AnswerDifference \/ AnswerFail

Handle == \/ SkipPush \/ ReceiveUpdate \/ ReceiveSeq \/ ReceiveTooLong
          \/ ReceiveNewSession \/ ReceiveSent \/ ReceiveAffected
          \/ ReceiveState \/ ReceiveEmpty \/ ReceiveSlice \/ ReceiveFail

Timers == ByPtsTimer \/ BySeqTimer \/ FailTimer

Next == Server \/ Handle \/ Timers

Spec == Init /\ [][Next]_vars

\* The client's loop runs its handlers and timers; the server answers.
Fairness == /\ WF_vars(Handle)
            /\ WF_vars(ByPtsTimer) /\ WF_vars(BySeqTimer) /\ WF_vars(FailTimer)
            /\ WF_vars(AnswerState) /\ WF_vars(AnswerDifference)

FairSpec == Spec /\ Fairness

-----------------------------------------------------------------------------
\* The pts waiter, the seq queue, the request and the timers have the types that
\* Api::Updates gives them.
TypeOK ==
  /\ log \subseteq [pts : Pts, count : Counts]
  /\ serverPts \in Pts /\ serverSeq \in 0 .. MaxSeq
  /\ outbox \subseteq Messages /\ disturbances \in 0 .. MaxDisturbances
  /\ net \in Seq(Messages)
  /\ waiter \in Waiters(Pts)
  /\ updatesSeq \in Nat /\ bySeqUpdates \subseteq 0 .. MaxSeq
  /\ bySeqTimer \in BOOLEAN
  /\ failTimer \in BOOLEAN /\ request \in {"none", "state", "difference"}
  /\ askedPts \in Pts /\ answered \in BOOLEAN
  /\ applied \subseteq Pts /\ early \subseteq Pts /\ pending \subseteq Pts
  /\ seqDone \subseteq Nat

\* The box never claims a pts it has not earned: whatever ended at or before
\* "good" is in the data, however pushes were lost, reordered or skipped.
NoLostEvent == \A p \in Events : p <= waiter.good => p \in applied

\* An update is not applied over a gap: what is in the data beyond "good" is
\* only what this client's own requests have returned.
NotAhead == \A p \in applied : p <= waiter.good \/ p \in early

\* A gap the box knows of, and every queued update, waits with a timer.
GapWatched ==
  /\ ~waiter.requesting /\ ~Closes(waiter) => waiter.timer
  /\ waiter.queue # {} => waiter.waitingForSkipped /\ ~Closes(waiter)

\* "requesting" (while which pushes are thrown away) always has an end: the
\* request is under way or the retry timer is set, and never both, so that
\* no second difference can be asked for meanwhile.
RequestAlive ==
  /\ waiter.requesting <=> (request # "none" \/ failTimer)
  /\ ~(request # "none" /\ failTimer)
  /\ request = "difference" => askedPts = waiter.good

\* Containers numbered by seq are fed without a hole.
SeqInOrder == 1 .. updatesSeq \subseteq seqDone

\* The containers kept wait for a missing one, with a timer.
SeqWatched ==
  bySeqUpdates # {} => /\ bySeqTimer
                       /\ \A s \in bySeqUpdates : s > updatesSeq + 1

\* The box never goes back, whatever answer or update comes late.
NeverBack == [][waiter'.good >= waiter.good]_vars

\* Pushes are not thrown away forever.
RequestEnds == waiter.requesting ~> ~waiter.requesting

\* Any pts the box has heard of is reached.
GapRepaired ==
  \A p \in 1 .. MaxPts : (waiter.last >= p) ~> (waiter.good >= p)

\* Updates implements the abstract box.
Box == INSTANCE EventBox WITH made <- Events, seen <- applied, upto <- waiter.good

\* No step shows an event that was not made, hides one that was shown, or moves
\* pts back or past an event that is not seen.
BoxSpec == Box!Spec
=============================================================================
