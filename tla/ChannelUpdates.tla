--------------------------- MODULE ChannelUpdates ---------------------------
(***************************************************************************)
(* The update box of one channel (api/api_updates.cpp with the PtsWaiter   *)
(* of data/data_channel.h).  It differs from the common box: its pts may   *)
(* be unknown at first, every request that loads messages of the channel   *)
(* brings a pts of its own, which is taken as an update of no pts at all   *)
(* (ptsReceived), and the box is polled while a window shows the channel.  *)
(*                                                                         *)
(* The server and the session are what the handlers expect of them.  What  *)
(* is under way is a set: how long a message takes to be made and sent is  *)
(* not known.  A push that comes while the common difference is asked for  *)
(* is thrown away (mtpUpdateReceived): it is a lost push here.             *)
(***************************************************************************)
EXTENDS PtsWaiter, FiniteSets

CONSTANTS MaxPts,          \* bound: events are made up to this pts
          Counts,          \* how many pts one event may take
          Windows,         \* the windows that may show the channel
          PtsKnown,        \* whether the dialog, with its pts, was loaded before
          MaxInFlight,     \* bound: messages the server has under way
          MaxDisturbances  \* bound: failures, and pushes that say "too long"

ASSUME ChannelAssumption ==
  /\ MaxPts \in Nat \ {0} /\ Counts \subseteq Nat \ {0}
  /\ PtsKnown \subseteq BOOLEAN /\ PtsKnown # {}
  /\ MaxInFlight \in Nat /\ MaxDisturbances \in Nat

VARIABLES
  log,           \* server: every event made, with the pts it ends at
  serverPts,     \* server: the pts of the channel
  net,           \* messages under way to the client
  disturbances,  \* server: failures and "too long" so far
  waiter,        \* _ptsWaiter, with _whenGetDiffByPts[channel] as its timer
  shown,         \* the entries of _activeChats that hold the channel
  failTimer,     \* _whenGetDiffAfterFail has the channel
  askedPts,      \* pts of getChannelDifference under way, 0 when there is none
  answered,      \* the server has answered it
  applied,       \* history: events whose effect is in the client's data
  shownKnown     \* history: a window came to the channel with its pts known

serverVars == <<log, serverPts>>
askVars    == <<failTimer, askedPts, answered>>
clientVars == <<waiter, shown, askVars, applied, shownKnown>>
vars == <<serverVars, net, disturbances, clientVars>>

Pts == 0 .. MaxPts
Events == { e.pts : e \in log }

Lossy == {"update", "tooLong"}

Message(kind, pts, count) == [kind |-> kind, pts |-> pts, count |-> count]

Init ==
  /\ log = {} /\ serverPts = 1 /\ net = {} /\ disturbances = 0
  /\ \E known \in PtsKnown : waiter = IF known THEN InitPts(Fresh, 1) ELSE Fresh
  /\ shown = {} /\ shownKnown = FALSE
  /\ failTimer = FALSE /\ askedPts = 0 /\ answered = FALSE
  /\ applied = {}

-----------------------------------------------------------------------------
(* The server. *)

Send(m) ==
  /\ m \notin net /\ Cardinality(net) < MaxInFlight
  /\ net' = net \cup {m}

\* An event is pushed, or comes with the result of a request of this client.
Produce ==
  /\ \E count \in Counts, kind \in {"update", "affected"} :
       /\ serverPts + count <= MaxPts
       /\ serverPts' = serverPts + count
       /\ log' = log \cup {[pts |-> serverPts', count |-> count]}
       /\ Send(Message(kind, serverPts', count))
  /\ UNCHANGED <<disturbances, clientVars>>

\* Messages of the channel are loaded: the result tells the pts of now.
Look ==
  /\ Send(Message("received", serverPts, 0))
  /\ UNCHANGED <<serverVars, disturbances, clientVars>>

LosePush ==
  /\ \E m \in net : m.kind \in Lossy /\ net' = net \ {m}
  /\ UNCHANGED <<serverVars, disturbances, clientVars>>

Disturb ==
  /\ disturbances < MaxDisturbances
  /\ disturbances' = disturbances + 1

\* updateChannelTooLong, with a pts or without one.
PushTooLong ==
  /\ Disturb
  /\ \E pts \in {0, serverPts} : Send(Message("tooLong", pts, 0))
  /\ UNCHANGED <<serverVars, clientVars>>

Answer(m) ==
  /\ askedPts # 0 /\ ~answered
  /\ net' = net \cup {m}
  /\ answered' = TRUE
  /\ UNCHANGED <<serverVars, waiter, shown, failTimer, askedPts, applied, shownKnown>>

AnswerDifference ==
  /\ \/ /\ askedPts >= serverPts
        /\ Answer(Message("empty", askedPts, 0))
     \/ /\ askedPts < serverPts
        /\ \E kind \in {"difference", "tooLongDifference"} :
             Answer(Message(kind, serverPts, 0))
     \/ \E p \in Events : /\ askedPts < p /\ p < serverPts
                          /\ Answer(Message("part", p, 0))
  /\ UNCHANGED disturbances

AnswerFail == Disturb /\ Answer(Message("fail", 0, 0))

-----------------------------------------------------------------------------
(* The client. *)

Receive(m, kinds) ==
  /\ m \in net /\ m.kind \in kinds
  /\ net' = net \ {m}
  /\ UNCHANGED <<serverVars, disturbances, shownKnown>>

\* getChannelDifference() called when the waiter is w; the callers that do not
\* take the channel out of the by-pts timetable first do so right after.
GetChannelDifferenceAlways(w) ==  \* mistake: asked although already asked
  /\ waiter' = SetRequesting([w EXCEPT !.timer = FALSE], TRUE)
  /\ failTimer' = FALSE /\ askedPts' = w.good /\ answered' = FALSE

GetChannelDifference(w) ==
  IF ~Inited(w) \/ w.requesting
  THEN waiter' = [w EXCEPT !.timer = FALSE] /\ UNCHANGED askVars
  ELSE /\ waiter' = SetRequesting([w EXCEPT !.timer = FALSE], TRUE)
       /\ failTimer' = FALSE /\ askedPts' = w.good /\ answered' = FALSE

\* The first pts heard of: what will be loaded from now on holds all before it.
Before(pts) == IF Inited(waiter) THEN {} ELSE { p \in Events : p <= pts }

\* feedUpdate() of an update that belongs to the channel, pushed or returned.
ReceiveUpdate ==
  \E m \in net :
    /\ Receive(m, {"update"})
    /\ LET done == UpdateAndApply(waiter, m.pts, m.count) IN
       IF waiter.requesting THEN UNCHANGED <<waiter, applied>>
       ELSE /\ waiter' = done.waiter
            /\ applied' = applied \cup done.applied \cup Before(m.pts)
    /\ UNCHANGED <<shown, askVars>>

\* applyAffectedMessages(): the effect is applied, only the pts is news.
ReceiveAffected ==
  \E m \in net :
    /\ Receive(m, {"affected"})
    /\ LET done == UpdateApplied(waiter, m.pts, m.count) IN
       /\ waiter' = done.waiter
       /\ applied' = applied \cup done.applied \cup {m.pts} \cup Before(m.pts)
    /\ UNCHANGED <<shown, askVars>>

\* ptsReceived()
ReceivePts ==
  \E m \in net :
    /\ Receive(m, {"received"})
    /\ LET done == UpdateApplied(waiter, m.pts, 0) IN
       /\ waiter' = done.waiter
       /\ applied' = applied \cup done.applied \cup Before(m.pts)
    /\ UNCHANGED <<shown, askVars>>

\* updateChannelTooLong
ReceiveTooLong ==
  \E m \in net :
    /\ Receive(m, {"tooLong"})
    /\ IF m.pts = 0 \/ waiter.good < m.pts THEN GetChannelDifference(waiter)
       ELSE UNCHANGED <<waiter, askVars>>
    /\ UNCHANGED <<shown, applied>>

-----------------------------------------------------------------------------
(* channelDifferenceDone() *)

Fetched(pts) == { p \in Events : askedPts < p /\ p <= pts }

StateTaken(pts) == SetRequesting(InitPts(waiter, pts), FALSE)

\* The last part: the next one is asked for by the poll, if a window shows
\* the channel.
PollFrom(w) == SetWaitingForShortPoll(w, shown # {})

DifferenceFinal(pts, w) ==
  /\ waiter' = PollFrom(w)
  /\ applied' = applied \cup Fetched(pts)
  /\ askedPts' = 0
  /\ UNCHANGED <<shown, failTimer, answered>>

ReceiveDifferenceNoPoll ==  \* mistake: the poll is not armed again
  \E m \in net :
    /\ Receive(m, {"empty", "difference"})
    /\ waiter' = StateTaken(m.pts)
    /\ applied' = applied \cup Fetched(m.pts)
    /\ askedPts' = 0
    /\ UNCHANGED <<shown, failTimer, answered>>

ReceiveDifference ==
  \E m \in net :
    /\ Receive(m, {"empty", "difference"})
    /\ DifferenceFinal(m.pts, StateTaken(m.pts))

\* The loaded part of the history is dropped or checked, so that all events
\* are in what is left; the dialog brings the pts once more.
ReceiveTooLongDifference ==
  \E m \in net :
    /\ Receive(m, {"tooLongDifference"})
    /\ LET w == UpdateApplied(InitPts(waiter, m.pts), m.pts, 0).waiter
       IN  DifferenceFinal(m.pts, SetRequesting(w, FALSE))

ReceivePart ==
  \E m \in net :
    /\ Receive(m, {"part"})
    /\ GetChannelDifference(StateTaken(m.pts))
    /\ applied' = applied \cup Fetched(m.pts)
    /\ UNCHANGED shown

ReceiveFailSilently ==  \* mistake: nothing is started after a failure
  \E m \in net :
    /\ Receive(m, {"fail"})
    /\ askedPts' = 0
    /\ UNCHANGED <<waiter, shown, failTimer, answered, applied>>

\* channelDifferenceFail()
ReceiveFail ==
  \E m \in net :
    /\ Receive(m, {"fail"})
    /\ failTimer' = TRUE /\ askedPts' = 0
    /\ UNCHANGED <<waiter, shown, answered, applied>>

-----------------------------------------------------------------------------
(* Timers and windows. *)

ByPtsTimer ==
  /\ waiter.timer
  /\ GetChannelDifference(waiter)
  /\ UNCHANGED <<serverVars, net, disturbances, shown, applied, shownKnown>>

FailTimer ==
  /\ failTimer
  /\ GetChannelDifference(SetRequesting(waiter, FALSE))
  /\ UNCHANGED <<serverVars, net, disturbances, shown, applied, shownKnown>>

UnchangedByWindows == UNCHANGED <<serverVars, net, disturbances, askVars, applied>>

\* addActiveChat(): a window goes to the channel, goes to another chat, closes.
Show ==
  /\ \E w \in Windows \ shown : shown' = shown \cup {w}
  /\ waiter' = SetWaitingForShortPoll(waiter, TRUE)
  /\ shownKnown' = (shownKnown \/ Inited(waiter))
  /\ UnchangedByWindows

LeaveAny ==  \* mistake: other windows are not looked at
  /\ \E w \in shown : shown' = shown \ {w}
  /\ waiter' = SetWaitingForShortPoll(waiter, FALSE)
  /\ UNCHANGED shownKnown /\ UnchangedByWindows

Leave ==
  /\ \E w \in shown : shown' = shown \ {w}
  /\ waiter' = IF shown' = {} THEN SetWaitingForShortPoll(waiter, FALSE) ELSE waiter
  /\ UNCHANGED shownKnown /\ UnchangedByWindows

CloseWindow ==
  /\ \E w \in shown : shown' = shown \ {w}
  /\ UNCHANGED <<waiter, shownKnown>> /\ UnchangedByWindows

-----------------------------------------------------------------------------
Server == Produce \/ Look \/ LosePush \/ PushTooLong \/ AnswerDifference \/ AnswerFail

Answered == ReceiveDifference \/ ReceiveTooLongDifference \/ ReceivePart \/ ReceiveFail

Handle == ReceiveUpdate \/ ReceiveAffected \/ ReceivePts \/ ReceiveTooLong \/ Answered

Ui == Show \/ Leave \/ CloseWindow

Next == Server \/ Handle \/ ByPtsTimer \/ FailTimer \/ Ui

Spec == Init /\ [][Next]_vars

\* The client's loop runs the timers and the handlers; the server answers.
Fairness == /\ WF_vars(ByPtsTimer) /\ WF_vars(FailTimer)
            /\ WF_vars(Answered) /\ WF_vars(AnswerDifference)

FairSpec == Spec /\ Fairness

-----------------------------------------------------------------------------
\* "requesting" (while which updates are thrown away) always has an end, and
\* one only.
RequestAlive ==
  /\ waiter.requesting <=> (askedPts # 0 \/ failTimer)
  /\ ~(askedPts # 0 /\ failTimer)
  /\ askedPts # 0 => askedPts = waiter.good

\* Updates kept in the queue wait for a known gap, with a timer: a poll that
\* ends meanwhile does not take it away.  (A gap without a kept update need not
\* have one: a pts heard with loaded messages starts the wait and cancels it.)
QueueWatched ==
  waiter.queue # {} => /\ waiter.timer /\ waiter.waitingForSkipped
                       /\ ~waiter.requesting /\ ~Closes(waiter)

\* A shown channel with a known pts waits for its next poll, or is polled.
PollArmed ==
  shown # {} /\ Inited(waiter) /\ ~waiter.requesting =>
    waiter.timer /\ waiter.waitingForShortPoll

\* A channel is polled as long as a window shows it, whatever other windows do
\* and after differences, failures and gaps, once a window came to it when its
\* pts was known.  (Shown before that, it spends the timer to no effect and
\* nothing arms it again when the pts comes.)
PollKept == shownKnown => PollArmed

\* Updates are not thrown away forever.
RequestEnds == waiter.requesting ~> ~waiter.requesting

\* What happens in a channel comes to be seen in the window that shows it.
ShownCatchesUp ==
  \A p \in 1 .. MaxPts :
    (p \in Events /\ shown # {} /\ shownKnown) ~> (p \in applied \/ shown = {})

\* ChannelUpdates implements the abstract box.
Box == INSTANCE EventBox WITH made <- Events, seen <- applied, upto <- waiter.good

\* No step of the channel shows an event that was not made, hides one that was
\* shown, or moves its pts back or past an event that is not seen.
BoxSpec == Box!Spec
=============================================================================
