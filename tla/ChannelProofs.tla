---------------------------- MODULE ChannelProofs ----------------------------
(***************************************************************************)
(* Theorems about the update box of a channel, for every log, every set of *)
(* windows, every bound and every interleaving.  They rest on what the     *)
(* server is assumed to do in ChannelUpdates and on ChannelAssumption.     *)
(***************************************************************************)
EXTENDS ChannelInvariant, PtsWaiterProofs, FiniteSetTheorems, TLAPS

(***************************************************************************)
(* Type correctness.                                                       *)
(***************************************************************************)
LEMMA PtsAreNaturals ==
  /\ Pts \subseteq Nat /\ 0 \in Pts /\ 1 \in Pts /\ MaxPts \in Nat
  /\ Counts \subseteq Nat \ {0}
BY ChannelAssumption DEF Pts

\* The two waiters a channel starts with.
LEMMA InitWaiter ==
  ASSUME Init
  PROVE  /\ waiter \in Waiters(Pts)
         /\ waiter.good \in {0, 1} /\ waiter.last = waiter.good
         /\ waiter.count = waiter.good /\ waiter.queue = {} /\ waiter.requesting = FALSE
<1>1. Fresh \in Waiters(Pts) /\ InitPts(Fresh, 1) \in Waiters(Pts)
  BY PtsAreNaturals DEF Fresh, InitPts, Waiters
<1>2. waiter = Fresh \/ waiter = InitPts(Fresh, 1)
  BY DEF Init
<1>3. /\ Fresh.good = 0 /\ Fresh.last = 0 /\ Fresh.count = 0
      /\ Fresh.queue = {} /\ Fresh.requesting = FALSE
  BY DEF Fresh
<1> DEFINE v == InitPts(Fresh, 1)
<1>4. v.good = 1 /\ v.last = 1 /\ v.count = 1 /\ v.queue = {} /\ v.requesting = FALSE
  BY DEF Fresh, InitPts
<1> HIDE DEF v
<1> QED
  BY <1>1, <1>2, <1>3, <1>4 DEF v

\* The initial states are typed.
LEMMA InitTypeOK == Init => TypeOK
<1> SUFFICES ASSUME Init PROVE TypeOK
  OBVIOUS
<1>1. TypeServer
  BY PtsAreNaturals DEF Init, TypeServer
<1>2. TypeClient
  BY InitWaiter, PtsAreNaturals DEF Init, TypeClient
<1> QED
  BY <1>1, <1>2 DEF TypeOK

\* A poll's flag and its timer.
LEMMA ShortPollSet ==
  ASSUME NEW w \in Waiters(Pts), NEW b \in BOOLEAN
  PROVE  LET v == SetWaitingForShortPoll(w, b) IN
         /\ v \in Waiters(Pts)
         /\ v.good = w.good /\ v.last = w.last /\ v.count = w.count
         /\ v.queue = w.queue /\ v.requesting = w.requesting
         /\ v.waitingForSkipped = w.waitingForSkipped /\ v.waitingForShortPoll = b
         /\ b => v.timer
         /\ w.timer /\ w.waitingForSkipped => v.timer
BY DEF SetWaitingForShortPoll, Waiters

\* getChannelDifference() only takes the timer away when nothing can be asked,
\* and otherwise asks from "good" and empties the queue.
LEMMA AskOutcome ==
  ASSUME NEW w \in Waiters(Pts), GetChannelDifference(w)
  PROVE  /\ waiter' \in Waiters(Pts)
         /\ waiter'.good = w.good /\ waiter'.last = w.last /\ waiter'.count = w.count
         /\ \/ /\ ~Inited(w) \/ w.requesting
               /\ waiter'.queue = w.queue /\ waiter'.requesting = w.requesting
               /\ UNCHANGED askVars
            \/ /\ Inited(w) /\ ~w.requesting
               /\ waiter'.queue = {} /\ waiter'.requesting = TRUE
               /\ failTimer' = FALSE /\ askedPts' = w.good /\ answered' = FALSE
<1>1. CASE ~Inited(w) \/ w.requesting
  BY <1>1 DEF GetChannelDifference, Waiters
<1>2. CASE Inited(w) /\ ~w.requesting
  BY <1>2 DEF GetChannelDifference, SetRequesting, Waiters
<1> QED
  BY <1>1, <1>2

\* Asking for the difference keeps the types.
LEMMA AskType ==
  ASSUME TypeClient, NEW w \in Waiters(Pts), GetChannelDifference(w)
  PROVE  /\ waiter' \in Waiters(Pts)
         /\ failTimer' \in BOOLEAN /\ askedPts' \in Pts /\ answered' \in BOOLEAN
<1>1. w.good \in Pts
  BY DEF Waiters
<1> QED
  BY <1>1, AskOutcome DEF TypeClient, askVars

\* What the server has made and what it tells are pts of the model.
LEMMA EventTyped ==
  ASSUME TypeOK
  PROVE  /\ Events \subseteq Pts /\ Events \subseteq Nat
         /\ serverPts \in Nat
         /\ \A e \in log : e.pts \in Pts /\ e.pts \in Nat /\ e.count \in Nat \ {0}
         /\ \A m \in net : m \in Messages /\ m.pts \in Pts /\ m.pts \in Nat /\ m.count \in Nat
         /\ waiter \in Waiters(Pts)
         /\ waiter.good \in Nat /\ waiter.last \in Nat /\ waiter.count \in Nat
         /\ waiter.queue \subseteq Pts /\ waiter.requesting \in BOOLEAN
         /\ askedPts \in Nat
<1>1. Pts \subseteq Nat /\ Counts \subseteq Nat \ {0}
  BY PtsAreNaturals
<1>2. \A e \in log : e.pts \in Pts /\ e.count \in Counts
  BY DEF TypeOK, TypeServer
<1>3. \A m \in net : m \in Messages /\ m.pts \in Pts /\ m.count \in Nat
  BY DEF TypeOK, TypeServer, Messages
<1>4. serverPts \in Pts /\ askedPts \in Pts
  BY DEF TypeOK, TypeServer, TypeClient
<1>5. waiter \in Waiters(Pts)
  BY DEF TypeOK, TypeClient
<1>6. /\ waiter.good \in Pts /\ waiter.last \in Pts /\ waiter.count \in Nat
      /\ waiter.queue \subseteq Pts /\ waiter.requesting \in BOOLEAN
  BY <1>5 DEF Waiters
<1>7. Events \subseteq Pts
  BY <1>2 DEF Events
<1> QED
  BY <1>1, <1>2, <1>3, <1>4, <1>5, <1>6, <1>7

\* A handler takes one message; what is left is typed.
LEMMA ReceiveType ==
  ASSUME TypeOK, NEW K, NEW m \in net, Receive(m, K)
  PROVE  /\ TypeServer' /\ shownKnown' \in BOOLEAN
         /\ m \in Messages /\ m.pts \in Pts /\ m.count \in Nat /\ 0 \in Nat
         /\ waiter \in Waiters(Pts) /\ Pts \in SUBSET Nat
         /\ Events \subseteq Pts /\ TypeClient
<1>1. TypeServer' /\ shownKnown' \in BOOLEAN
  BY DEF Receive, TypeOK, TypeServer, TypeClient, serverVars
<1> QED
  BY <1>1, EventTyped, PtsAreNaturals DEF TypeOK

\* The waiter of a restarted box is a waiter.
LEMMA RestartType ==
  ASSUME NEW w \in Waiters(Pts), NEW pts \in Pts, NEW b \in BOOLEAN
  PROVE  /\ SetRequesting(InitPts(w, pts), b) \in Waiters(Pts)
         /\ SetRequesting(w, b) \in Waiters(Pts)
         /\ [w EXCEPT !.timer = b] \in Waiters(Pts)
         /\ InitPts(w, pts) \in Waiters(Pts)
<1>1. Pts \in SUBSET Nat /\ 0 \in Nat
  BY PtsAreNaturals
<1>2. InitPts(w, pts) \in Waiters(Pts)
  BY <1>1, WaiterType
<1> QED
  BY <1>1, <1>2, WaiterType

\* The end of a difference leaves the client typed.
LEMMA FinalType ==
  ASSUME TypeOK, NEW pts \in Pts, NEW w \in Waiters(Pts), DifferenceFinal(pts, w),
         shownKnown' \in BOOLEAN
  PROVE  TypeClient'
<1>1. waiter' \in Waiters(Pts)
  BY ShortPollSet DEF DifferenceFinal, PollFrom
<1>2. applied' \subseteq Pts
  BY EventTyped DEF DifferenceFinal, Fetched, TypeOK, TypeClient
<1>3. askedPts' \in Pts
  BY PtsAreNaturals DEF DifferenceFinal
<1> QED
  BY <1>1, <1>2, <1>3 DEF DifferenceFinal, TypeOK, TypeClient

\* What the server does keeps the types.
LEMMA ServerType ==
  ASSUME TypeOK, Server
  PROVE  TypeOK'
<1>0. UNCHANGED clientVars => TypeClient'
  BY DEF TypeOK, TypeClient, clientVars, askVars
<1>1. CASE Produce
  <2>1. PICK count \in Counts, kind \in {"update", "affected"} :
          /\ serverPts + count <= MaxPts
          /\ serverPts' = serverPts + count
          /\ log' = log \cup {[pts |-> serverPts', count |-> count]}
          /\ Send(Message(kind, serverPts', count))
    BY <1>1 DEF Produce
  <2>2. count \in Nat /\ serverPts' \in Pts
    BY <2>1, PtsAreNaturals, EventTyped DEF Pts
  <2>3. Message(kind, serverPts', count) \in Messages
    BY <2>2 DEF Message, Messages, Carriers
  <2>4. log' \subseteq [pts : Pts, count : Counts] /\ net' \subseteq Messages
    BY <2>1, <2>2, <2>3 DEF Send, TypeOK, TypeServer
  <2> QED
    BY <1>0, <1>1, <2>2, <2>4 DEF Produce, TypeOK, TypeServer
<1>2. CASE Look
  <2>1. Message("received", serverPts, 0) \in Messages
    BY DEF Message, Messages, TypeOK, TypeServer
  <2> QED
    BY <1>0, <1>2, <2>1 DEF Look, Send, serverVars, TypeOK, TypeServer
<1>3. CASE LosePush
  BY <1>0, <1>3 DEF LosePush, serverVars, TypeOK, TypeServer
<1>4. CASE PushTooLong
  <2>1. PICK pts \in {0, serverPts} : Send(Message("tooLong", pts, 0))
    BY <1>4 DEF PushTooLong
  <2>2. Message("tooLong", pts, 0) \in Messages
    BY <2>1, PtsAreNaturals DEF Message, Messages, TypeOK, TypeServer
  <2> QED
    BY <1>0, <1>4, <2>1, <2>2 DEF PushTooLong, Disturb, Send, serverVars, TypeOK, TypeServer
<1>5. ASSUME NEW kind \in Replies, NEW pts \in Pts, Answer(Message(kind, pts, 0)),
             disturbances' \in Nat
      PROVE  TypeOK'
  <2>1. Message(kind, pts, 0) \in Messages
    BY DEF Message, Messages
  <2>2. TypeServer'
    BY <1>5, <2>1 DEF Answer, serverVars, TypeOK, TypeServer
  <2>3. TypeClient'
    BY <1>5 DEF Answer, TypeOK, TypeClient
  <2> QED
    BY <2>2, <2>3 DEF TypeOK
<1>6. CASE AnswerDifference
  <2>1. /\ \A p \in Events : p \in Pts
        /\ askedPts \in Pts /\ serverPts \in Pts /\ disturbances' \in Nat
    BY <1>6, EventTyped DEF AnswerDifference, TypeOK, TypeServer, TypeClient
  <2> QED
    BY <1>5, <1>6, <2>1 DEF AnswerDifference, Replies
<1>7. CASE AnswerFail
  BY <1>5, <1>7, PtsAreNaturals DEF AnswerFail, Disturb, Replies, TypeOK, TypeServer
<1> QED
  BY <1>1, <1>2, <1>3, <1>4, <1>6, <1>7 DEF Server

\* What the client does with a message keeps the types.
LEMMA HandleType ==
  ASSUME TypeOK, Handle
  PROVE  TypeOK'
<1>1. CASE ReceiveUpdate
  <2> DEFINE d(m) == UpdateAndApply(waiter, m.pts, m.count)
  <2>1. PICK m \in net :
          /\ Receive(m, {"update"})
          /\ IF waiter.requesting THEN UNCHANGED <<waiter, applied>>
             ELSE /\ waiter' = d(m).waiter
                  /\ applied' = applied \cup d(m).applied \cup Before(m.pts)
          /\ UNCHANGED <<shown, askVars>>
    BY <1>1 DEF ReceiveUpdate
  <2>2. d(m).waiter \in Waiters(Pts) /\ d(m).applied \in SUBSET Pts
    BY <2>1, ReceiveType, UpdateAndApplyType
  <2>3. Before(m.pts) \subseteq Pts
    BY EventTyped DEF Before
  <2> HIDE DEF d
  <2> QED
    BY <2>1, <2>2, <2>3, ReceiveType DEF TypeOK, TypeClient, askVars
<1>2. CASE ReceiveAffected
  <2> DEFINE d(m) == UpdateApplied(waiter, m.pts, m.count)
  <2>1. PICK m \in net :
          /\ Receive(m, {"affected"})
          /\ waiter' = d(m).waiter
          /\ applied' = applied \cup d(m).applied \cup {m.pts} \cup Before(m.pts)
          /\ UNCHANGED <<shown, askVars>>
    BY <1>2 DEF ReceiveAffected
  <2>2. d(m).waiter \in Waiters(Pts) /\ d(m).applied \in SUBSET Pts
    BY <2>1, ReceiveType, UpdateAndApplyType
  <2>3. Before(m.pts) \subseteq Pts /\ m.pts \in Pts
    BY EventTyped DEF Before
  <2> HIDE DEF d
  <2> QED
    BY <2>1, <2>2, <2>3, ReceiveType DEF TypeOK, TypeClient, askVars
<1>3. CASE ReceivePts
  <2> DEFINE d(m) == UpdateApplied(waiter, m.pts, 0)
  <2>1. PICK m \in net :
          /\ Receive(m, {"received"})
          /\ waiter' = d(m).waiter
          /\ applied' = applied \cup d(m).applied \cup Before(m.pts)
          /\ UNCHANGED <<shown, askVars>>
    BY <1>3 DEF ReceivePts
  <2>2. d(m).waiter \in Waiters(Pts) /\ d(m).applied \in SUBSET Pts
    BY <2>1, ReceiveType, UpdateAndApplyType
  <2>3. Before(m.pts) \subseteq Pts
    BY EventTyped DEF Before
  <2> HIDE DEF d
  <2> QED
    BY <2>1, <2>2, <2>3, ReceiveType DEF TypeOK, TypeClient, askVars
<1>4. CASE ReceiveTooLong
  <2>1. PICK m \in net : /\ Receive(m, {"tooLong"})
                         /\ \/ GetChannelDifference(waiter)
                            \/ UNCHANGED <<waiter, askVars>>
                         /\ UNCHANGED <<shown, applied>>
    BY <1>4 DEF ReceiveTooLong
  <2> QED
    BY <2>1, ReceiveType, AskType DEF TypeOK, TypeClient, askVars
<1>5. CASE ReceiveDifference
  <2>1. PICK m \in net : /\ Receive(m, {"empty", "difference"})
                         /\ DifferenceFinal(m.pts, StateTaken(m.pts))
    BY <1>5 DEF ReceiveDifference
  <2>2. StateTaken(m.pts) \in Waiters(Pts)
    BY <2>1, ReceiveType, RestartType DEF StateTaken
  <2> QED
    BY <2>1, <2>2, ReceiveType, FinalType DEF TypeOK
<1>6. CASE ReceiveTooLongDifference
  <2> DEFINE w(m) == UpdateApplied(InitPts(waiter, m.pts), m.pts, 0).waiter
  <2>1. PICK m \in net : /\ Receive(m, {"tooLongDifference"})
                         /\ DifferenceFinal(m.pts, SetRequesting(w(m), FALSE))
    BY <1>6 DEF ReceiveTooLongDifference
  <2>2. w(m) \in Waiters(Pts)
    <3>1. InitPts(waiter, m.pts) \in Waiters(Pts)
      BY <2>1, ReceiveType, RestartType
    <3> QED
      BY <2>1, <3>1, ReceiveType, UpdateAndApplyType
  <2> HIDE DEF w
  <2>3. SetRequesting(w(m), FALSE) \in Waiters(Pts)
    BY <2>1, <2>2, ReceiveType, RestartType
  <2> QED
    BY <2>1, <2>3, ReceiveType, FinalType DEF TypeOK
<1>7. CASE ReceivePart
  <2>1. PICK m \in net : /\ Receive(m, {"part"})
                         /\ GetChannelDifference(StateTaken(m.pts))
                         /\ applied' = applied \cup Fetched(m.pts)
                         /\ UNCHANGED shown
    BY <1>7 DEF ReceivePart
  <2>2. StateTaken(m.pts) \in Waiters(Pts)
    BY <2>1, ReceiveType, RestartType DEF StateTaken
  <2>3. applied' \subseteq Pts
    BY <2>1, EventTyped DEF Fetched, TypeOK, TypeClient
  <2> QED
    BY <2>1, <2>2, <2>3, ReceiveType, AskType DEF TypeOK, TypeClient
<1>8. CASE ReceiveFail
  <2>1. PICK m \in net : /\ Receive(m, {"fail"})
                         /\ failTimer' = TRUE /\ askedPts' = 0
                         /\ UNCHANGED <<waiter, shown, answered, applied>>
    BY <1>8 DEF ReceiveFail
  <2> QED
    BY <2>1, ReceiveType, PtsAreNaturals DEF TypeOK, TypeClient
<1> QED
  BY <1>1, <1>2, <1>3, <1>4, <1>5, <1>6, <1>7, <1>8 DEF Handle, Answered

\* Every step keeps the types.
LEMMA TypeInductive ==
  ASSUME TypeOK, [Next]_vars
  PROVE  TypeOK'
<1>0. UNCHANGED <<serverVars, net, disturbances>> => TypeServer'
  BY DEF TypeOK, TypeServer, serverVars
<1>1. ASSUME NEW w \in Waiters(Pts), GetChannelDifference(w),
             UNCHANGED <<serverVars, net, disturbances, shown, applied, shownKnown>>
      PROVE  TypeOK'
  BY <1>0, <1>1, AskType DEF TypeOK, TypeClient
<1>2. CASE ByPtsTimer
  BY <1>1, <1>2 DEF ByPtsTimer, TypeOK, TypeClient
<1>3. CASE FailTimer
  <2>1. SetRequesting(waiter, FALSE) \in Waiters(Pts)
    BY RestartType, PtsAreNaturals DEF TypeOK, TypeClient
  <2> QED
    BY <1>1, <1>3, <2>1 DEF FailTimer
<1>4. CASE Ui
  <2>1. waiter' \in Waiters(Pts)
    BY <1>4, ShortPollSet DEF Ui, Show, Leave, CloseWindow, TypeOK, TypeClient
  <2>2. shown' \subseteq Windows /\ shownKnown' \in BOOLEAN
    BY <1>4 DEF Ui, Show, Leave, CloseWindow, TypeOK, TypeClient
  <2>3. UnchangedByWindows
    BY <1>4 DEF Ui, Show, Leave, CloseWindow
  <2> QED
    BY <1>0, <2>1, <2>2, <2>3 DEF UnchangedByWindows, askVars, TypeOK, TypeClient
<1>5. CASE UNCHANGED vars
  BY <1>0, <1>5 DEF vars, clientVars, askVars, TypeOK, TypeClient
<1> QED
  BY <1>2, <1>3, <1>4, <1>5, ServerType, HandleType DEF Next

\* Every state of the channel is typed.
THEOREM TypeCorrect == Spec => []TypeOK
BY InitTypeOK, TypeInductive, PTL DEF Spec

-----------------------------------------------------------------------------
(***************************************************************************)
(* What is under way.                                                      *)
(***************************************************************************)

\* The client makes no event, and what it takes is not under way any more.
LEMMA NetShrinks ==
  ASSUME IInv, UNCHANGED serverVars, net' \subseteq net
  PROVE  /\ LogOK' /\ NetOK' /\ Events' = Events
         /\ \A p : Boundary(p) => p <= serverPts' /\ Between(log', p)
<1>1. log' = log /\ serverPts' = serverPts
  BY DEF serverVars
<1>2. LogOK'
  BY <1>1 DEF IInv, LogOK
<1>3. NetOK'
  BY <1>1 DEF IInv, NetOK, Boundary
<1> QED
  BY <1>1, <1>2, <1>3 DEF Events, Boundary

\* Fewer messages under way and no new request: the answers are still those.
LEMMA RepliesKept ==
  ASSUME IInv, UNCHANGED <<serverVars, askedPts, answered>>, net' \subseteq net
  PROVE  ReplyOK'
BY DEF IInv, ReplyOK, serverVars, Boundary

\* With no answer under way there is nothing to ask of it.
LEMMA NoReplies ==
  ASSUME \A n \in net' : n.kind \notin Replies
  PROVE  ReplyOK'
BY DEF ReplyOK

\* Nothing is asked for while "requesting" is not set or a failure is waited out.
LEMMA Unasked ==
  ASSUME IInv, ~waiter.requesting \/ failTimer
  PROVE  askedPts = 0 /\ \A n \in net : n.kind \notin Replies
BY DEF IInv, ReplyOK, WatchOK, RequestAlive

\* An answer that is taken was the only one, to a request from where the box is.
LEMMA ReplyTaken ==
  ASSUME IInv, NEW m \in net, m.kind \in Replies, net' = net \ {m}
  PROVE  /\ \A n \in net' : n.kind \notin Replies
         /\ askedPts # 0 /\ askedPts = waiter.good /\ waiter.requesting /\ ~failTimer
         /\ m.kind # "fail" => waiter.good <= m.pts /\ Boundary(m.pts)
BY DEF IInv, ReplyOK, WatchOK, RequestAlive

-----------------------------------------------------------------------------
(***************************************************************************)
(* What can happen to the numbers of the waiter and to the data, with what *)
(* it is to the abstract box.                                              *)
(***************************************************************************)
BoxStep == [Box!Next]_<<Events, applied, waiter.good>>

\* Made events come to be seen and the box stays where it is.
LEMMA BoxSees ==
  ASSUME UNCHANGED log, waiter'.good = waiter.good,
         NEW X \in SUBSET Events, applied' = applied \cup X
  PROVE  BoxStep
<1>1. Events' = Events
  BY DEF Events
<1>2. Box!See(X)
  BY <1>1 DEF Box!See
<1> QED
  BY <1>1, <1>2 DEF BoxStep, Box!Next

\* "good" stays; T is what is counted now.
LEMMA CountedOn ==
  ASSUME TypeOK, TypeOK', IInv, UNCHANGED serverVars,
         NEW T \in SUBSET Events, \A p \in T : waiter.good < p /\ p <= waiter'.last,
         \A n \in net' : n.kind \in Carriers => n.pts \notin T,
         waiter'.count = waiter.good + Cardinality(SpanOf(log, T)),
         waiter'.good = waiter.good, waiter.good <= waiter'.last, Boundary(waiter'.last),
         waiter'.queue \subseteq T,
         waiter'.requesting \/ T \subseteq waiter'.queue \cup applied',
         NEW X \in SUBSET Events, applied' = applied \cup X
  PROVE  CountOK' /\ DataOK' /\ BoxStep
<1>1. log' = log /\ serverPts' = serverPts /\ Events' = Events
  BY DEF serverVars, Events
<1>2. BoxStep
  BY <1>1, BoxSees
<1>3. DataOK'
  BY <1>1 DEF IInv, DataOK, NoLostEvent
<1>4. Accounts(T)'
  BY <1>1 DEF Accounts
<1>5. Boundary(waiter.good)' /\ Boundary(waiter.last)'
  BY <1>1 DEF IInv, CountOK, Boundary
<1> QED
  BY <1>1, <1>2, <1>3, <1>4, <1>5 DEF CountOK

\* The waiter is set to a pts, and the data holds all events up to it.
LEMMA SetTo ==
  ASSUME TypeOK, TypeOK', IInv, UNCHANGED serverVars,
         NEW pts \in Pts, Boundary(pts), waiter.good <= pts,
         waiter'.good = pts, waiter'.last = pts, waiter'.count = pts, waiter'.queue = {},
         applied' = applied \cup { p \in Events : waiter.good < p /\ p <= pts }
  PROVE  CountOK' /\ DataOK' /\ BoxStep
<1>0. pts \in Nat /\ waiter.good \in Nat /\ Events \subseteq Nat
  BY EventTyped, PtsAreNaturals
<1>1. log' = log /\ serverPts' = serverPts /\ Events' = Events
  BY DEF serverVars, Events
<1>2. \A p \in Events : p <= waiter.good => p \in applied
  BY DEF IInv, DataOK, NoLostEvent
<1> DEFINE News == { p \in Events : waiter.good < p /\ p <= pts }
<1>3. \A p \in Events : p <= pts => p <= waiter.good \/ p \in News
  <2>1. \A p \in Nat : p <= waiter.good \/ waiter.good < p
    BY <1>0
  <2> QED
    BY <1>0, <2>1
<1>10. \A p \in News : p \in Events /\ p <= pts
  OBVIOUS
<1>11. applied' = applied \cup News /\ News \in SUBSET Events
  OBVIOUS
<1>12. pts = waiter.good => News = {}
  <2>1. \A p \in Nat : ~(waiter.good < p /\ p <= waiter.good)
    BY <1>0
  <2> QED
    BY <1>0, <2>1
<1> HIDE DEF News
<1>13. DataOK'
  BY <1>1, <1>2, <1>3, <1>11 DEF IInv, DataOK, NoLostEvent
<1>4. applied' = applied \cup { p \in Events : p <= pts }
  BY <1>2, <1>3, <1>10, <1>11
<1>5. ASSUME pts = waiter.good PROVE BoxStep
  BY <1>1, <1>5, <1>11, BoxSees
<1>6. ASSUME pts # waiter.good PROVE BoxStep
  <2>1. pts > waiter.good
    BY <1>0, <1>6
  <2>2. Box!Advance(pts)
    BY <1>1, <1>4, <2>1 DEF Box!Advance
  <2> QED
    BY <2>2 DEF BoxStep, Box!Next
<1>7. Accounts({})'
  <2>1. SpanOf(log', {}) = {}
    BY DEF SpanOf
  <2>2. Cardinality({}) = 0
    BY FS_EmptySet
  <2> QED
    BY <1>0, <2>1, <2>2 DEF Accounts
<1>8. Boundary(waiter.good)' /\ Boundary(waiter.last)'
  BY <1>1 DEF Boundary
<1>9. CountOK'
  BY <1>0, <1>1, <1>7, <1>8 DEF CountOK
<1> QED
  BY <1>5, <1>6, <1>9, <1>13

\* The waiter finds "count" at "last": T was all there is up to "last".
LEMMA AllCounted ==
  ASSUME TypeOK, TypeOK', IInv, UNCHANGED serverVars,
         NEW T \in SUBSET Events, \A p \in T : waiter.good < p /\ p <= waiter'.last,
         waiter'.count = waiter.good + Cardinality(SpanOf(log, T)),
         waiter'.last = waiter'.count, waiter'.good = waiter'.last,
         waiter.good <= waiter'.last, Boundary(waiter'.last), waiter'.queue = {},
         T \subseteq applied', applied \subseteq applied', applied' \subseteq applied \cup T
  PROVE  CountOK' /\ DataOK' /\ BoxStep
<1> DEFINE pts == waiter'.last
<1>0. /\ waiter' \in Waiters(Pts) /\ pts \in Pts /\ pts \in Nat /\ waiter.good \in Nat
      /\ Events \subseteq Nat
  <2>1. waiter' \in Waiters(Pts)
    BY DEF TypeOK, TypeClient
  <2> QED
    BY <2>1, EventTyped, PtsAreNaturals DEF Waiters
<1>1. Follow(log, serverPts) /\ Between(log, waiter.good)
  BY DEF IInv, LogOK, CountOK, Boundary
<1>2. pts = waiter.good + Cardinality(SpanOf(log, T))
  OBVIOUS
<1> HIDE DEF pts
<1>3. \A p \in T : waiter.good < p /\ p <= pts
  BY DEF pts
<1>4. \A e \in log : waiter.good < e.pts /\ e.pts <= pts => e.pts \in T
  <2> SUFFICES ASSUME NEW e \in log, waiter.good < e.pts, e.pts <= pts
               PROVE  e.pts \in T
    OBVIOUS
  <2> QED
    BY <1>0, <1>1, <1>2, <1>3, NothingMissing
<1>5. T = { p \in Events : waiter.good < p /\ p <= pts }
  BY <1>3, <1>4 DEF Events
<1>6. applied' = applied \cup { p \in Events : waiter.good < p /\ p <= pts }
  BY <1>5
<1>7. /\ waiter'.good = pts /\ waiter'.last = pts /\ waiter'.count = pts
      /\ waiter.good <= pts /\ Boundary(pts)
  BY DEF pts
<1> QED
  BY <1>0, <1>6, <1>7, SetTo

\* An event that is above "good" is counted: it was not before.
LEMMA EventCounted ==
  ASSUME TypeOK, IInv, UNCHANGED serverVars, NEW m \in net, m.kind \in Carriers,
         net' = net \ {m}, waiter.good < m.pts, ~waiter.requesting
  PROVE  /\ waiter.good <= Later(waiter.last, m.pts)
         /\ Boundary(Later(waiter.last, m.pts))
         /\ \E T \in SUBSET Events :
              /\ \A p \in T : waiter.good < p /\ p <= Later(waiter.last, m.pts)
              /\ \A n \in net' : n.kind \in Carriers => n.pts \notin T
              /\ waiter.count + m.count = waiter.good + Cardinality(SpanOf(log, T))
              /\ m.pts \in T /\ waiter.queue \subseteq T
              /\ T \subseteq waiter.queue \cup applied \cup {m.pts}
<1>1. /\ waiter.good \in Nat /\ waiter.last \in Nat /\ waiter.count \in Nat
      /\ m.pts \in Nat /\ m.count \in Nat /\ Events \subseteq Nat
      /\ waiter.requesting \in BOOLEAN
  BY EventTyped
<1> DEFINE e == [pts |-> m.pts, count |-> m.count]
           last == Later(waiter.last, m.pts)
<1>2. e \in log /\ e.pts = m.pts /\ e.count = m.count /\ m.pts \in Events
  <2>1. e \in log /\ e.pts = m.pts /\ e.count = m.count
    BY DEF IInv, NetOK
  <2> QED
    BY <2>1 DEF Events
<1> HIDE DEF e
<1>3. Follow(log, serverPts) /\ Boundary(waiter.last) /\ waiter.good <= waiter.last
  BY DEF IInv, LogOK, CountOK
<1>4. Boundary(m.pts)
  BY <1>1, <1>2, <1>3, EventTyped DEF Follow, Boundary, Between
<1>5. last = waiter.last \/ last = m.pts
  BY DEF Later
<1>6. waiter.last <= last /\ m.pts <= last
  BY <1>1 DEF Later
<1>7. Boundary(last)
  BY <1>3, <1>4, <1>5
<1>8. last \in Nat
  BY <1>1, <1>5
<1> HIDE DEF last
<1>9. PICK S \in SUBSET Events : Accounts(S)
  BY DEF IInv, CountOK
<1> DEFINE T == S \cup {m.pts}
<1>10. m.pts \notin S
  BY <1>9 DEF Accounts
<1>11. Cardinality(SpanOf(log, T)) = Cardinality(SpanOf(log, S)) + m.count
  BY <1>2, <1>3, <1>10, SpanAdd
<1>12. Cardinality(SpanOf(log, S)) \in Nat
  BY <1>3, SpanFinite
<1>13. waiter.count + m.count = waiter.good + Cardinality(SpanOf(log, T))
  <2>1. waiter.count = waiter.good + Cardinality(SpanOf(log, S))
    BY <1>9 DEF Accounts
  <2> QED
    BY <1>1, <1>11, <1>12, <2>1
<1>14. \A p \in T : waiter.good < p /\ p <= last
  <2>1. \A p \in S : waiter.good < p /\ p <= waiter.last
    BY <1>9 DEF Accounts
  <2> QED
    BY <1>1, <1>6, <1>8, <2>1
<1>15. \A n \in net' : n.kind \in Carriers => n.pts \notin T
  <2>1. \A n \in net : n.kind \in Carriers => n.pts \notin S
    BY <1>9 DEF Accounts
  <2>2. \A n \in net : n.kind \in Carriers /\ n.pts = m.pts => n = m
    BY DEF IInv, NetOK
  <2> QED
    BY <2>1, <2>2
<1>16. waiter.queue \subseteq T /\ T \subseteq waiter.queue \cup applied \cup {m.pts}
  BY <1>9 DEF Accounts
<1>17. waiter.good <= last
  BY <1>1, <1>3, <1>6, <1>8
<1> QED
  BY <1>2, <1>7, <1>13, <1>14, <1>15, <1>16, <1>17 DEF last

-----------------------------------------------------------------------------
(***************************************************************************)
(* The steps of the server.                                                *)
(***************************************************************************)
Kept == IInv' /\ BoxStep

\* The server makes no event; what it sends, if anything, is true.
LEMMA QuietServer ==
  ASSUME IInv,
         UNCHANGED <<serverVars, waiter, shown, failTimer, askedPts, applied, shownKnown>>,
         \A n \in net' : \/ n \in net
                         \/ /\ n.kind \notin Carriers
                            /\ n.kind = "received" => 1 <= n.pts /\ Boundary(n.pts),
         ReplyOK'
  PROVE  Kept
<1>1. log' = log /\ serverPts' = serverPts /\ Events' = Events
  BY DEF serverVars, Events
<1>2. LogOK' /\ DataOK' /\ WatchOK'
  BY <1>1 DEF IInv, LogOK, DataOK, NoLostEvent, WatchOK, RequestAlive, KnownOK,
              QueueWatched, PollKept, PollArmed
<1>3. NetOK'
  BY <1>1 DEF IInv, NetOK, Boundary
<1>4. CountOK'
  BY <1>1 DEF IInv, CountOK, Boundary, Accounts
<1>5. BoxStep
  BY <1>1 DEF BoxStep
<1> QED
  BY <1>2, <1>3, <1>4, <1>5 DEF IInv, Kept

\* A new event ends above all others, and no push or answer is about it yet.
LEMMA ProduceKept ==
  ASSUME TypeOK, TypeOK', IInv, Produce
  PROVE  Kept
<1>1. PICK count \in Counts, kind \in Carriers :
        /\ serverPts' = serverPts + count
        /\ log' = log \cup {[pts |-> serverPts', count |-> count]}
        /\ net' = net \cup {Message(kind, serverPts', count)}
  BY DEF Produce, Send, Carriers
<1>2. UNCHANGED <<waiter, shown, failTimer, askedPts, answered, applied, shownKnown>>
  BY DEF Produce, clientVars, askVars
<1>3. /\ count \in Nat \ {0} /\ serverPts \in Nat /\ serverPts' \in Nat /\ serverPts' \in Pts
      /\ serverPts < serverPts'
  <2>1. count \in Nat \ {0} /\ serverPts \in Nat
    BY PtsAreNaturals, EventTyped
  <2>2. serverPts' \in Pts
    BY DEF TypeOK, TypeServer
  <2> QED
    BY <1>1, <2>1, <2>2
<1> DEFINE e == [pts |-> serverPts', count |-> count]
           new == Message(kind, serverPts', count)
<1>4. e.pts = serverPts' /\ e.count = count
  OBVIOUS
<1>5. new.pts = serverPts' /\ new.count = count /\ new.kind = kind
  BY DEF Message
<1>6. log' = log \cup {e} /\ net' = net \cup {new} /\ e = [pts |-> new.pts, count |-> new.count]
  BY <1>1, <1>5
<1> HIDE DEF e, new
<1>7. /\ Follow(log, serverPts) /\ 1 <= serverPts
      /\ \A f \in log : f.pts \in Nat /\ f.count \in Nat /\ f.pts <= serverPts
  BY DEF IInv, LogOK, Follow
<1>8. e.pts - e.count = serverPts /\ e.count \in Nat \ {0} /\ e.pts \in Nat /\ e.count <= e.pts
  BY <1>1, <1>3, <1>4
<1>9. LogOK'
  <2>1. Follow(log', serverPts')
    <3>1. \A f \in log' : /\ f.pts \in Nat /\ f.count \in Nat \ {0}
                          /\ f.count <= f.pts /\ f.pts <= serverPts'
      BY <1>3, <1>4, <1>6, <1>7, <1>8 DEF Follow
    <3>2. \A f \in log : f.pts < e.pts /\ f.pts <= e.pts - e.count
      <4>1. \A f \in log : f.pts < serverPts' /\ f.pts <= serverPts
        BY <1>3, <1>7
      <4> QED
        BY <1>4, <1>8, <4>1
    <3>3. \A f \in log : ~(e.pts < f.pts) /\ e.pts # f.pts
      BY <1>7, <1>8, <3>2
    <3>4. \A f, g \in log' : f.pts < g.pts => f.pts <= g.pts - g.count
      BY <1>6, <1>7, <1>8, <3>2, <3>3 DEF Follow
    <3>5. \A f, g \in log' : f.pts = g.pts => f = g
      BY <1>6, <1>7, <1>8, <3>2, <3>3 DEF Follow
    <3> QED
      BY <1>3, <3>1, <3>4, <3>5 DEF Follow
  <2> QED
    BY <1>3, <1>7, <2>1 DEF LogOK
<1>10. \A p \in Nat : Boundary(p) => p <= serverPts' /\ Between(log', p)
  <2> SUFFICES ASSUME NEW p \in Nat, p <= serverPts, Between(log, p)
               PROVE  p <= serverPts' /\ Between(log', p)
    BY DEF Boundary
  <2>1. p <= serverPts'
    BY <1>3
  <2>2. e.pts - e.count >= p
    BY <1>8
  <2> QED
    BY <1>6, <2>1, <2>2 DEF Between
<1>11. \A m \in net : m.kind \in Carriers => m.pts # new.pts
  <2>1. \A m \in net : m.kind \in Carriers => m.pts <= serverPts
    BY <1>7 DEF IInv, NetOK
  <2> QED
    BY <1>3, <1>5, <2>1, EventTyped
<1>12. NetOK'
  <2>1. \A m \in net' : m.kind \in Carriers => [pts |-> m.pts, count |-> m.count] \in log'
    BY <1>6 DEF IInv, NetOK
  <2>2. \A m, n \in net' :
          m.kind \in Carriers /\ n.kind \in Carriers /\ m.pts = n.pts => m = n
    BY <1>6, <1>11 DEF IInv, NetOK
  <2>3. \A m \in net' : m.kind = "received" => 1 <= m.pts /\ m.pts <= serverPts' /\ Between(log', m.pts)
    BY <1>5, <1>6, <1>10, EventTyped DEF IInv, NetOK, Carriers
  <2> QED
    BY <2>1, <2>2, <2>3 DEF NetOK, Boundary
<1>13. ReplyOK'
  <2>1. \A m \in net' : m.kind \in Replies => m \in net
    BY <1>5, <1>6 DEF Replies, Carriers
  <2>2. \A m \in net' : m.kind \in Replies => 
          /\ askedPts # 0 /\ answered
          /\ m.kind # "fail" => askedPts <= m.pts /\ m.pts <= serverPts' /\ Between(log', m.pts)
    BY <1>10, <2>1, EventTyped DEF IInv, ReplyOK
  <2>3. \A m, n \in net' : m.kind \in Replies /\ n.kind \in Replies => m = n
    BY <2>1 DEF IInv, ReplyOK
  <2> QED
    BY <1>2, <2>2, <2>3 DEF ReplyOK, Boundary
<1>14. WatchOK'
  BY <1>2 DEF IInv, WatchOK, RequestAlive, KnownOK, QueueWatched, PollKept, PollArmed
<1>15. Events' = Events \cup {serverPts'} /\ \A p \in Events : p <= serverPts /\ p < serverPts'
  BY <1>3, <1>4, <1>6, <1>7 DEF Events
<1>16. waiter.good \in Nat /\ waiter.last \in Nat /\ waiter.good < serverPts'
  BY <1>3, EventTyped DEF IInv, CountOK, Boundary
<1>17. DataOK'
  <2>1. \A p \in Events' : p <= waiter.good => p \in Events
    BY <1>3, <1>15, <1>16
  <2> QED
    BY <1>2, <1>15, <2>1 DEF IInv, DataOK, NoLostEvent
<1>18. CountOK'
  <2>1. PICK S \in SUBSET Events : Accounts(S)
    BY DEF IInv, CountOK
  <2>2. serverPts' \notin S
    BY <1>3, <1>15, EventTyped
  <2>3. SpanOf(log', S) = SpanOf(log, S)
    BY <1>4, <1>6, <2>2 DEF SpanOf
  <2>4. Accounts(S)'
    BY <1>2, <1>5, <1>6, <2>1, <2>2, <2>3 DEF Accounts
  <2>5. Boundary(waiter.good)' /\ Boundary(waiter.last)'
    BY <1>2, <1>10, <1>16 DEF IInv, CountOK, Boundary
  <2> QED
    BY <1>2, <1>15, <2>4, <2>5 DEF IInv, CountOK
<1>19. BoxStep
  <2>1. Box!Make(serverPts')
    BY <1>2, <1>3, <1>15, <1>16 DEF Box!Make
  <2> QED
    BY <1>3, <2>1 DEF BoxStep, Box!Next
<1> QED
  BY <1>9, <1>12, <1>13, <1>14, <1>17, <1>18, <1>19 DEF IInv, Kept

\* The server answers what is asked, once.
LEMMA AnswerKept ==
  ASSUME TypeOK, IInv, NEW kind \in Replies, NEW pts,
         kind # "fail" => askedPts <= pts /\ Boundary(pts),
         Answer(Message(kind, pts, 0))
  PROVE  Kept
<1> DEFINE m == Message(kind, pts, 0)
<1>1. m.kind = kind /\ m.pts = pts
  BY DEF Message
<1>2. net' = net \cup {m} /\ askedPts # 0 /\ ~answered /\ answered' = TRUE
  BY DEF Answer
<1> HIDE DEF m
<1>3. UNCHANGED <<serverVars, waiter, shown, failTimer, askedPts, applied, shownKnown>>
  BY DEF Answer
<1>4. \A n \in net : n.kind \notin Replies
  BY <1>2 DEF IInv, ReplyOK
<1>5. ReplyOK'
  BY <1>1, <1>2, <1>3, <1>4 DEF ReplyOK, Boundary, serverVars
<1>6. m.kind \notin Carriers /\ m.kind # "received"
  BY <1>1 DEF Replies, Carriers
<1> QED
  BY <1>2, <1>3, <1>5, <1>6, QuietServer

\* An event ends where later ones begin.
LEMMA EndIsBoundary ==
  ASSUME TypeOK, IInv
  PROVE  /\ \A p \in Events : Boundary(p)
         /\ Boundary(serverPts)
<1>1. Follow(log, serverPts)
  BY DEF IInv, LogOK
<1>2. \A p \in Events : Boundary(p)
  <2> SUFFICES ASSUME NEW f \in log
               PROVE  Boundary(f.pts)
    BY DEF Events
  <2>1. f.pts <= serverPts
    BY <1>1 DEF Follow
  <2>2. \A e \in log : e.pts > f.pts => e.pts - e.count >= f.pts
    BY <1>1, EventTyped DEF Follow
  <2> QED
    BY <2>1, <2>2 DEF Boundary, Between
<1>3. Boundary(serverPts)
  BY <1>1, EventTyped DEF Follow, Boundary, Between
<1> QED
  BY <1>2, <1>3

\* The steps of the server.
LEMMA ServerKept ==
  ASSUME TypeOK, TypeOK', IInv, Server
  PROVE  Kept
<1>0. ASSUME UNCHANGED <<serverVars, clientVars>>, 
             \/ net' \subseteq net
             \/ \E m : m.kind \notin Replies /\ net' = net \cup {m}
      PROVE  ReplyOK'
  BY <1>0 DEF IInv, ReplyOK, serverVars, clientVars, askVars, Boundary
<1>1. CASE Look
  <2> DEFINE m == Message("received", serverPts, 0)
  <2>1. m.kind = "received" /\ m.pts = serverPts /\ net' = net \cup {m}
    BY <1>1 DEF Look, Send, Message
  <2> HIDE DEF m
  <2>2. 1 <= serverPts /\ Boundary(serverPts)
    BY EndIsBoundary DEF IInv, LogOK
  <2>3. m.kind \notin Replies /\ m.kind \notin Carriers
    BY <2>1 DEF Replies, Carriers
  <2> QED
    BY <1>0, <1>1, <2>1, <2>2, <2>3, QuietServer DEF Look, clientVars, askVars
<1>2. CASE LosePush
  BY <1>0, <1>2, QuietServer DEF LosePush, clientVars, askVars
<1>3. CASE PushTooLong
  <2>1. PICK pts : Send(Message("tooLong", pts, 0))
    BY <1>3 DEF PushTooLong
  <2> DEFINE m == Message("tooLong", pts, 0)
  <2>2. m.kind = "tooLong" /\ net' = net \cup {m}
    BY <2>1 DEF Send, Message
  <2> HIDE DEF m
  <2>3. m.kind \notin Replies /\ m.kind \notin Carriers /\ m.kind # "received"
    BY <2>2 DEF Replies, Carriers
  <2> QED
    BY <1>0, <1>3, <2>2, <2>3, QuietServer DEF PushTooLong, clientVars, askVars
<1>4. CASE AnswerDifference
  <2>1. CASE askedPts >= serverPts /\ Answer(Message("empty", askedPts, 0))
    <3>1. askedPts = waiter.good
      BY <2>1 DEF Answer, IInv, WatchOK, RequestAlive
    <3>2. Boundary(askedPts) /\ askedPts <= askedPts
      BY <3>1, EventTyped DEF IInv, CountOK
    <3> QED
      BY <2>1, <3>2, AnswerKept DEF Replies
  <2>2. CASE /\ askedPts < serverPts
             /\ \E kind \in {"difference", "tooLongDifference"} :
                  Answer(Message(kind, serverPts, 0))
    <3>1. Boundary(serverPts) /\ askedPts <= serverPts
      BY <2>2, EndIsBoundary, EventTyped
    <3> QED
      BY <2>2, <3>1, AnswerKept DEF Replies
  <2>3. CASE \E p \in Events : /\ askedPts < p /\ p < serverPts
                               /\ Answer(Message("part", p, 0))
    <3>1. PICK p \in Events : askedPts < p /\ Answer(Message("part", p, 0))
      BY <2>3
    <3>2. Boundary(p) /\ askedPts <= p
      BY <3>1, EndIsBoundary, EventTyped
    <3> QED
      BY <3>1, <3>2, AnswerKept DEF Replies
  <2> QED
    BY <1>4, <2>1, <2>2, <2>3 DEF AnswerDifference
<1>5. CASE AnswerFail
  BY <1>5, AnswerKept DEF AnswerFail, Replies
<1> QED
  BY <1>1, <1>2, <1>3, <1>4, <1>5, ProduceKept DEF Server

-----------------------------------------------------------------------------
(***************************************************************************)
(* Updates, and the pts that come with results.                            *)
(***************************************************************************)

\* Outside of a request a queue waits for a gap of a box that has a pts.
LEMMA WaiterSteady ==
  ASSUME TypeOK, IInv
  PROVE  /\ Steady(waiter) /\ waiter.queue \subseteq Events
         /\ waiter.good = 0 => waiter.last = 0
<1>1. PICK S \in SUBSET Events : Accounts(S)
  BY DEF IInv, CountOK
<1>2. waiter.good = 0 => waiter.last = 0
  BY EventTyped DEF IInv, WatchOK, KnownOK, Inited
<1>3. waiter.queue \subseteq Events /\ \A p \in waiter.queue : waiter.good < p /\ p <= waiter.last
  BY <1>1 DEF Accounts
<1>4. waiter.queue # {} => waiter.good > 0
  <2> SUFFICES ASSUME NEW p \in waiter.queue, waiter.good = 0 PROVE FALSE
    BY EventTyped
  <2>1. p \in Nat
    BY <1>3, EventTyped
  <2> QED
    BY <1>2, <1>3, <2>1
<1>5. waiter.queue # {} => waiter.waitingForSkipped /\ ~waiter.requesting
  BY DEF IInv, WatchOK, QueueWatched
<1> QED
  BY <1>2, <1>3, <1>4, <1>5 DEF Steady

\* A message that brings an event is about one that was made.
LEMMA CarriedEvent ==
  ASSUME TypeOK, IInv, NEW m \in net, m.kind \in Carriers
  PROVE  m.pts \in Events /\ m.count > 0 /\ m.pts >= 1 /\ Boundary(m.pts)
<1> DEFINE e == [pts |-> m.pts, count |-> m.count]
<1>1. e \in log /\ e.pts = m.pts /\ e.count = m.count
  BY DEF IInv, NetOK
<1> HIDE DEF e
<1>2. m.pts \in Events
  BY <1>1 DEF Events
<1>3. m.count \in Nat \ {0} /\ m.count <= m.pts /\ m.pts \in Nat
  BY <1>1 DEF IInv, LogOK, Follow
<1> QED
  BY <1>2, <1>3, EndIsBoundary

\* What is watched stays watched when the waiter takes an update.
LEMMA FedWatch ==
  ASSUME TypeOK, TypeOK', IInv, UNCHANGED <<shown, shownKnown, askVars>>,
         waiter'.requesting = waiter.requesting,
         waiter.requesting => waiter'.good = waiter.good,
         waiter.good <= waiter'.good, waiter'.good = 0 => waiter'.last = 0,
         PollStays(waiter, waiter'), QueueWatched'
  PROVE  WatchOK'
<1>1. waiter.good \in Nat /\ waiter'.good \in Nat
  <2>1. waiter' \in Waiters(Pts)
    BY DEF TypeOK, TypeClient
  <2> QED
    BY <2>1, EventTyped, PtsAreNaturals DEF Waiters
<1>2. RequestAlive'
  BY DEF IInv, WatchOK, RequestAlive, askVars
<1>3. Inited(waiter) => Inited(waiter)'
  BY <1>1 DEF Inited
<1>4. KnownOK'
  BY <1>1, <1>3 DEF IInv, WatchOK, KnownOK, Inited
<1>5. PollKept'
  <2> SUFFICES ASSUME shownKnown, shown # {}, ~waiter.requesting
               PROVE  waiter'.timer /\ waiter'.waitingForShortPoll
    BY DEF PollKept, PollArmed
  <2>1. waiter.timer /\ waiter.waitingForShortPoll
    BY DEF IInv, WatchOK, KnownOK, PollKept, PollArmed
  <2> QED
    BY <2>1 DEF PollStays
<1> QED
  BY <1>2, <1>4, <1>5 DEF WatchOK

\* The parts of a step that takes something else than an answer.
LEMMA FedKept ==
  ASSUME TypeOK, TypeOK', IInv, NEW m \in net, NEW K, Receive(m, K),
         UNCHANGED <<shown, askVars>>,
         waiter'.requesting = waiter.requesting,
         waiter.requesting => waiter'.good = waiter.good,
         waiter.good <= waiter'.good, waiter'.good = 0 => waiter'.last = 0,
         PollStays(waiter, waiter'), QueueWatched',
         CountOK' /\ DataOK' /\ BoxStep
  PROVE  Kept
<1>1. UNCHANGED <<serverVars, shownKnown>> /\ net' \subseteq net
  BY DEF Receive
<1>2. LogOK' /\ NetOK' /\ ReplyOK'
  BY <1>1, NetShrinks, RepliesKept DEF askVars
<1> QED
  BY <1>1, <1>2, FedWatch DEF IInv, Kept

\* The numbers that matter stay; "last" may grow by a pts that was heard.
LEMMA NumbersStay ==
  ASSUME TypeOK, TypeOK', IInv, UNCHANGED serverVars, net' \subseteq net,
         waiter'.good = waiter.good, waiter'.count = waiter.count,
         waiter.last <= waiter'.last, Boundary(waiter'.last),
         waiter'.queue \subseteq waiter.queue,
         \/ waiter'.requesting
         \/ ~waiter.requesting /\ waiter.queue \subseteq waiter'.queue \cup applied',
         NEW X \in SUBSET Events, applied' = applied \cup X
  PROVE  CountOK' /\ DataOK' /\ BoxStep
<1>1. PICK S \in SUBSET Events : Accounts(S)
  BY DEF IInv, CountOK
<1>2. /\ waiter.good \in Nat /\ waiter.last \in Nat /\ waiter'.last \in Nat
      /\ \A p \in S : p \in Nat
  <2>1. waiter' \in Waiters(Pts)
    BY DEF TypeOK, TypeClient
  <2>2. waiter'.last \in Nat
    BY <2>1, PtsAreNaturals DEF Waiters
  <2> QED
    BY <2>2, EventTyped
<1>3. \A p \in S : waiter.good < p /\ p <= waiter'.last
  BY <1>1, <1>2 DEF Accounts
<1>4. waiter.good <= waiter'.last
  BY <1>2 DEF IInv, CountOK
<1>5. /\ \A n \in net' : n.kind \in Carriers => n.pts \notin S
      /\ waiter'.count = waiter.good + Cardinality(SpanOf(log, S))
      /\ waiter'.queue \subseteq S
      /\ waiter'.requesting \/ S \subseteq waiter'.queue \cup applied'
  BY <1>1 DEF Accounts
<1> QED
  BY <1>3, <1>4, <1>5, CountedOn

\* All that an update, or a result that brings a pts, may do.
LEMMA EventKept ==
  ASSUME TypeOK, TypeOK', IInv, NEW m \in net, m.kind \in Carriers, NEW K, Receive(m, K),
         UNCHANGED <<shown, askVars>>, PollStays(waiter, waiter'),
         \/ /\ waiter'.requesting = waiter.requesting /\ waiter'.good = waiter.good
            /\ waiter'.last = waiter.last /\ waiter'.count = waiter.count
            /\ waiter' = waiter \/ (waiter.requesting /\ waiter'.queue = {})
            /\ \E X \in SUBSET Events : applied' = applied \cup X
         \/ /\ ~waiter.requesting /\ waiter.good = 0 /\ Started(waiter', m.pts)
            /\ applied' = applied \cup {m.pts} \cup Before(m.pts)
         \/ /\ ~waiter.requesting /\ waiter.good < m.pts
            /\ GapClosed(waiter, waiter', m.pts, m.count)
            /\ applied' = applied \cup waiter.queue \cup {m.pts}
         \/ /\ ~waiter.requesting /\ waiter.good > 0 /\ waiter.good < m.pts
            /\ GapOpened(waiter, waiter', m.pts, m.count)
            /\ \/ waiter'.queue = waiter.queue \cup {m.pts} /\ applied' = applied
               \/ waiter'.queue = waiter.queue /\ applied' = applied \cup {m.pts}
  PROVE  Kept
<1>1. UNCHANGED serverVars /\ net' = net \ {m} /\ net' \subseteq net
  BY DEF Receive
<1>2. m.pts \in Events /\ m.count > 0 /\ m.pts >= 1 /\ Boundary(m.pts) /\ m.pts \in Nat /\ m.pts \in Pts
  BY CarriedEvent, EventTyped
<1>3. /\ waiter.good \in Nat /\ waiter.last \in Nat /\ waiter.count \in Nat
      /\ waiter.requesting \in BOOLEAN /\ Events \subseteq Nat
      /\ Boundary(waiter.last) /\ waiter.good <= waiter.last
      /\ waiter.good = 0 => waiter.last = 0
  BY EventTyped, WaiterSteady DEF IInv, CountOK
<1>4. QueueWatched /\ Steady(waiter)
  BY WaiterSteady DEF IInv, WatchOK
<1>5. CASE /\ waiter'.requesting = waiter.requesting /\ waiter'.good = waiter.good
           /\ waiter'.last = waiter.last /\ waiter'.count = waiter.count
           /\ waiter' = waiter \/ (waiter.requesting /\ waiter'.queue = {})
           /\ \E X \in SUBSET Events : applied' = applied \cup X
  <2>1. CountOK' /\ DataOK' /\ BoxStep
    BY <1>1, <1>3, <1>5, NumbersStay
  <2>2. QueueWatched'
    BY <1>4, <1>5 DEF QueueWatched, Closes
  <2> QED
    BY <1>3, <1>5, <2>1, <2>2, FedKept
<1>6. CASE /\ ~waiter.requesting /\ waiter.good = 0 /\ Started(waiter', m.pts)
           /\ applied' = applied \cup {m.pts} \cup Before(m.pts)
  <2>1. Before(m.pts) = { p \in Events : p <= m.pts }
    BY <1>6 DEF Before, Inited
  <2>2. \A p \in Events : 0 < p
    BY EventTyped DEF IInv, LogOK, Follow, Events
  <2>3. applied' = applied \cup { p \in Events : waiter.good < p /\ p <= m.pts }
    <3>1. m.pts \in { p \in Events : p <= m.pts }
      BY <1>2
    <3>2. { p \in Events : p <= m.pts } = { p \in Events : waiter.good < p /\ p <= m.pts }
      BY <1>6, <2>2
    <3> QED
      BY <1>6, <2>1, <3>1, <3>2
  <2>4. CountOK' /\ DataOK' /\ BoxStep
    BY <1>1, <1>2, <1>3, <1>6, <2>3, SetTo DEF Started
  <2>5. QueueWatched'
    BY <1>6 DEF QueueWatched, Started
  <2>6. /\ waiter'.good # 0 /\ waiter.good <= waiter'.good
        /\ waiter.requesting = FALSE /\ waiter'.requesting = FALSE
    BY <1>2, <1>3, <1>6 DEF Started
  <2> QED
    BY <2>4, <2>5, <2>6, FedKept
<1> DEFINE last == Later(waiter.last, m.pts)
<1>7. /\ last \in Nat /\ last > 0
      /\ ~waiter.requesting /\ waiter.good < m.pts =>
           /\ waiter.good <= last /\ Boundary(last)
           /\ \E T \in SUBSET Events :
                /\ \A p \in T : waiter.good < p /\ p <= last
                /\ \A n \in net' : n.kind \in Carriers => n.pts \notin T
                /\ waiter.count + m.count = waiter.good + Cardinality(SpanOf(log, T))
                /\ m.pts \in T /\ waiter.queue \subseteq T
                /\ T \subseteq waiter.queue \cup applied \cup {m.pts}
  <2>1. last \in Nat /\ last > 0
    BY <1>2, <1>3 DEF Later
  <2> QED
    BY <1>1, <2>1, EventCounted
<1> HIDE DEF last
<1>8. CASE /\ ~waiter.requesting /\ waiter.good < m.pts
           /\ GapClosed(waiter, waiter', m.pts, m.count)
           /\ applied' = applied \cup waiter.queue \cup {m.pts}
  <2>1. /\ waiter'.last = last /\ waiter'.count = waiter.count + m.count
        /\ waiter'.last = waiter'.count /\ waiter'.good = waiter'.last
        /\ waiter'.queue = {} /\ waiter'.requesting = FALSE
    BY <1>8 DEF GapClosed, last
  <2>2. PICK T \in SUBSET Events :
          /\ \A p \in T : waiter.good < p /\ p <= last
          /\ waiter.count + m.count = waiter.good + Cardinality(SpanOf(log, T))
          /\ m.pts \in T /\ waiter.queue \subseteq T
          /\ T \subseteq waiter.queue \cup applied \cup {m.pts}
    BY <1>7, <1>8
  <2>3. CountOK' /\ DataOK' /\ BoxStep
    BY <1>1, <1>7, <1>8, <2>1, <2>2, AllCounted
  <2>4. QueueWatched'
    BY <2>1 DEF QueueWatched
  <2> QED
    BY <1>3, <1>7, <1>8, <2>1, <2>3, <2>4, FedKept
<1>9. CASE /\ ~waiter.requesting /\ waiter.good > 0 /\ waiter.good < m.pts
           /\ GapOpened(waiter, waiter', m.pts, m.count)
           /\ \/ waiter'.queue = waiter.queue \cup {m.pts} /\ applied' = applied
              \/ waiter'.queue = waiter.queue /\ applied' = applied \cup {m.pts}
  <2>1. /\ waiter'.last = last /\ waiter'.count = waiter.count + m.count
        /\ waiter'.last # waiter'.count /\ waiter'.good = waiter.good
        /\ waiter'.requesting = FALSE /\ waiter'.waitingForSkipped /\ waiter'.timer
    BY <1>9 DEF GapOpened, last
  <2>2. PICK T \in SUBSET Events :
          /\ \A p \in T : waiter.good < p /\ p <= last
          /\ \A n \in net' : n.kind \in Carriers => n.pts \notin T
          /\ waiter.count + m.count = waiter.good + Cardinality(SpanOf(log, T))
          /\ m.pts \in T /\ waiter.queue \subseteq T
          /\ T \subseteq waiter.queue \cup applied \cup {m.pts}
    BY <1>7, <1>9
  <2>3. /\ waiter'.queue \subseteq T /\ T \subseteq waiter'.queue \cup applied'
        /\ \E X \in SUBSET Events : applied' = applied \cup X
    <3>1. {m.pts} \in SUBSET Events /\ {} \in SUBSET Events /\ applied \cup {} = applied
      BY <1>2
    <3>2. waiter'.queue \subseteq T /\ T \subseteq waiter'.queue \cup applied'
      BY <1>9, <2>2
    <3> QED
      BY <1>9, <3>1, <3>2
  <2>4. CountOK' /\ DataOK' /\ BoxStep
    BY <1>1, <1>7, <1>9, <2>1, <2>2, <2>3, CountedOn
  <2>5. QueueWatched'
    BY <2>1 DEF QueueWatched, Closes
  <2>6. waiter'.good # 0 /\ waiter.good <= waiter'.good
    BY <1>3, <1>9, <2>1
  <2> QED
    BY <1>3, <1>9, <2>1, <2>4, <2>5, <2>6, FedKept
<1> QED
  BY <1>5, <1>6, <1>8, <1>9

\* An update comes.
LEMMA UpdateKept ==
  ASSUME TypeOK, TypeOK', IInv, ReceiveUpdate
  PROVE  Kept
<1> DEFINE d(m) == UpdateAndApply(waiter, m.pts, m.count)
<1>1. PICK m \in net :
        /\ Receive(m, {"update"})
        /\ IF waiter.requesting THEN UNCHANGED <<waiter, applied>>
           ELSE /\ waiter' = d(m).waiter
                /\ applied' = applied \cup d(m).applied \cup Before(m.pts)
        /\ UNCHANGED <<shown, askVars>>
  BY DEF ReceiveUpdate
<1>2. m.kind \in Carriers
  BY <1>1 DEF Receive, Carriers
<1>3. /\ m.pts \in Events /\ m.count \in Nat /\ m.count # 0 /\ m.pts \in Pts
      /\ waiter \in Waiters(Pts) /\ Pts \in SUBSET Nat /\ Steady(waiter)
  BY <1>2, CarriedEvent, EventTyped, PtsAreNaturals, WaiterSteady
<1>4. {} \in SUBSET Events /\ Before(m.pts) \in SUBSET Events /\ applied \cup {} = applied
  BY DEF Before
<1>5. CASE waiter.requesting
  BY <1>1, <1>2, <1>4, <1>5, EventKept DEF PollStays
<1>6. CASE ~waiter.requesting
  <2>1. waiter' = d(m).waiter /\ applied' = applied \cup d(m).applied \cup Before(m.pts)
    BY <1>1, <1>6
  <2>2. FedInto(waiter, d(m).waiter, d(m).applied, m.pts, m.count)
    BY <1>3, FeedOutcome
  <2>3. waiter.good > 0 => Before(m.pts) = {}
    BY DEF Before, Inited
  <2> HIDE DEF d
  <2>4. CASE m.pts <= waiter.good /\ waiter' = waiter /\ d(m).applied = {}
    BY <1>1, <1>2, <1>4, <2>1, <2>4, EventKept DEF PollStays
  <2>5. CASE waiter.good = 0 /\ Started(waiter', m.pts) /\ d(m).applied = {m.pts}
    BY <1>1, <1>2, <1>6, <2>1, <2>2, <2>5, EventKept DEF FedInto
  <2>6. CASE /\ waiter.good > 0 /\ m.pts > waiter.good
             /\ GapClosed(waiter, waiter', m.pts, m.count)
             /\ d(m).applied = waiter.queue \cup {m.pts}
    <3>1. waiter.good < m.pts /\ applied' = applied \cup waiter.queue \cup {m.pts}
      BY <1>3, <2>1, <2>3, <2>6, EventTyped
    <3> QED
      BY <1>1, <1>2, <1>6, <2>1, <2>2, <2>6, <3>1, EventKept DEF FedInto
  <2>7. CASE /\ waiter.good > 0 /\ m.pts > waiter.good
             /\ GapOpened(waiter, waiter', m.pts, m.count)
             /\ d(m).applied = {} /\ waiter'.queue = waiter.queue \cup {m.pts}
    <3>1. waiter.good < m.pts /\ applied' = applied
      BY <1>3, <2>1, <2>3, <2>7, EventTyped
    <3> QED
      BY <1>1, <1>2, <1>6, <2>1, <2>2, <2>7, <3>1, EventKept DEF FedInto
  <2> QED
    BY <1>6, <2>1, <2>2, <2>4, <2>5, <2>6, <2>7 DEF FedInto
<1> QED
  BY <1>5, <1>6

\* The answer to a request of the client's own comes.
LEMMA AffectedKept ==
  ASSUME TypeOK, TypeOK', IInv, ReceiveAffected
  PROVE  Kept
<1> DEFINE d(m) == UpdateApplied(waiter, m.pts, m.count)
<1>1. PICK m \in net :
        /\ Receive(m, {"affected"})
        /\ waiter' = d(m).waiter
        /\ applied' = applied \cup d(m).applied \cup {m.pts} \cup Before(m.pts)
        /\ UNCHANGED <<shown, askVars>>
  BY DEF ReceiveAffected
<1>2. m.kind \in Carriers
  BY <1>1 DEF Receive, Carriers
<1>3. /\ m.pts \in Events /\ m.count \in Nat /\ m.count > 0 /\ m.pts \in Pts
      /\ waiter \in Waiters(Pts) /\ Pts \in SUBSET Nat /\ Steady(waiter)
  BY <1>2, CarriedEvent, EventTyped, PtsAreNaturals, WaiterSteady
<1>4. AppliedInto(waiter, d(m).waiter, d(m).applied, m.pts, m.count)
  BY <1>3, AppliedOutcome
<1>5. m.count # 0 /\ PollStays(waiter, waiter')
  BY <1>1, <1>3, <1>4 DEF AppliedInto
<1>6. waiter.good > 0 => Before(m.pts) = {}
  BY DEF Before, Inited
<1>7. {m.pts} \cup Before(m.pts) \in SUBSET Events
  BY <1>3 DEF Before
<1> HIDE DEF d
<1>8. CASE /\ waiter.requesting /\ d(m).applied = {}
           /\ waiter'.queue = {} /\ waiter'.requesting = TRUE
           /\ waiter'.good = waiter.good /\ waiter'.last = waiter.last
           /\ waiter'.count = waiter.count
  <2>1. waiter'.requesting = waiter.requesting
    BY <1>3, <1>8 DEF Waiters
  <2>2. \E X \in SUBSET Events : applied' = applied \cup X
    BY <1>1, <1>7, <1>8
  <2> QED
    BY <1>1, <1>2, <1>5, <1>8, <2>1, <2>2, EventKept
<1>9. CASE waiter' = waiter /\ d(m).applied = {}
  <2>1. \E X \in SUBSET Events : applied' = applied \cup X
    BY <1>1, <1>7, <1>9
  <2> QED
    BY <1>1, <1>2, <1>5, <1>9, <2>1, EventKept
<1>10. CASE ~waiter.requesting /\ waiter.good = 0 /\ Started(waiter', m.pts) /\ d(m).applied = {}
  <2>1. applied' = applied \cup {m.pts} \cup Before(m.pts)
    BY <1>1, <1>10
  <2> QED
    BY <1>1, <1>2, <1>5, <1>10, <2>1, EventKept
<1>11. CASE /\ ~waiter.requesting /\ waiter.good > 0 /\ m.pts > waiter.good
            /\ GapClosed(waiter, waiter', m.pts, m.count)
            /\ d(m).applied = waiter.queue
  <2>1. waiter.good < m.pts /\ applied' = applied \cup waiter.queue \cup {m.pts}
    BY <1>1, <1>3, <1>6, <1>11, EventTyped
  <2> QED
    BY <1>1, <1>2, <1>5, <1>11, <2>1, EventKept
<1>12. CASE /\ ~waiter.requesting /\ waiter.good > 0 /\ m.pts > waiter.good
            /\ GapOpened(waiter, waiter', m.pts, m.count)
            /\ d(m).applied = {} /\ waiter'.queue = waiter.queue
  <2>1. waiter.good < m.pts /\ applied' = applied \cup {m.pts}
    BY <1>1, <1>3, <1>6, <1>12, EventTyped
  <2> QED
    BY <1>1, <1>2, <1>5, <1>12, <2>1, EventKept
<1> QED
  BY <1>1, <1>3, <1>4, <1>5, <1>8, <1>9, <1>10, <1>11, <1>12 DEF AppliedInto

\* ptsReceived(): no event is counted, the pts may be the first one, may close
\* the gap it belongs to, or is one more pts to wait for.
LEMMA PtsKept ==
  ASSUME TypeOK, TypeOK', IInv, ReceivePts
  PROVE  Kept
<1> DEFINE d(m) == UpdateApplied(waiter, m.pts, 0)
<1>1. PICK m \in net :
        /\ Receive(m, {"received"})
        /\ waiter' = d(m).waiter
        /\ applied' = applied \cup d(m).applied \cup Before(m.pts)
        /\ UNCHANGED <<shown, askVars>>
  BY DEF ReceivePts
<1>2. /\ 1 <= m.pts /\ Boundary(m.pts) /\ m.pts \in Pts /\ m.pts \in Nat /\ 0 \in Nat
      /\ waiter \in Waiters(Pts) /\ Pts \in SUBSET Nat /\ Steady(waiter)
  BY <1>1, EventTyped, PtsAreNaturals, WaiterSteady DEF Receive, IInv, NetOK
<1>3. /\ waiter.good \in Nat /\ waiter.last \in Nat /\ waiter.count \in Nat
      /\ waiter.requesting \in BOOLEAN /\ Events \subseteq Nat
      /\ Boundary(waiter.last) /\ waiter.good <= waiter.last
      /\ waiter.good = 0 => waiter.last = 0
      /\ waiter.queue \in SUBSET Events
  BY EventTyped, WaiterSteady DEF IInv, CountOK
<1>4. AppliedInto(waiter, d(m).waiter, d(m).applied, m.pts, 0)
  BY <1>2, AppliedOutcome
<1>5. PollStays(waiter, waiter') /\ ~(0 > 0)
  BY <1>1, <1>4 DEF AppliedInto
<1>6. waiter.good > 0 => Before(m.pts) = {}
  BY DEF Before, Inited
<1>7. UNCHANGED serverVars /\ net' \subseteq net
  BY <1>1 DEF Receive
<1> DEFINE last == Later(waiter.last, m.pts)
<1>8. /\ last \in Nat /\ waiter.last <= last /\ waiter.good <= last /\ Boundary(last)
  <2>1. last = waiter.last \/ last = m.pts
    BY DEF Later
  <2>2. waiter.last <= last
    BY <1>2, <1>3 DEF Later
  <2> HIDE DEF last
  <2> QED
    BY <1>2, <1>3, <2>1, <2>2
<1> HIDE DEF d, last
<1>9. CASE /\ waiter.requesting /\ d(m).applied = {}
           /\ waiter'.queue = {} /\ waiter'.requesting = TRUE
           /\ waiter'.good = waiter.good /\ waiter'.last = waiter.last
           /\ waiter'.count = waiter.count
  <2>1. waiter'.requesting = waiter.requesting
    BY <1>3, <1>9
  <2>2. applied' = applied \cup Before(m.pts) /\ Before(m.pts) \in SUBSET Events
    BY <1>1, <1>9 DEF Before
  <2>3. CountOK' /\ DataOK' /\ BoxStep
    BY <1>3, <1>7, <1>9, <2>2, NumbersStay
  <2>4. QueueWatched'
    BY <1>9 DEF QueueWatched
  <2> QED
    BY <1>1, <1>3, <1>5, <1>9, <2>1, <2>3, <2>4, FedKept
<1>10. CASE ~waiter.requesting /\ waiter.good = 0 /\ Started(waiter', m.pts) /\ d(m).applied = {}
  <2>1. Before(m.pts) = { p \in Events : p <= m.pts }
    BY <1>10 DEF Before, Inited
  <2>2. \A p \in Events : 0 < p
    BY EventTyped DEF IInv, LogOK, Follow, Events
  <2>3. applied' = applied \cup { p \in Events : waiter.good < p /\ p <= m.pts }
    <3>1. { p \in Events : p <= m.pts } = { p \in Events : waiter.good < p /\ p <= m.pts }
      BY <1>10, <2>2
    <3>2. applied' = applied \cup Before(m.pts)
      BY <1>1, <1>10
    <3> QED
      BY <2>1, <3>1, <3>2
  <2>4. CountOK' /\ DataOK' /\ BoxStep
    BY <1>2, <1>3, <1>7, <1>10, <2>3, SetTo DEF Started
  <2>5. QueueWatched'
    BY <1>10 DEF QueueWatched, Started
  <2>6. /\ waiter'.good # 0 /\ waiter.good <= waiter'.good
        /\ waiter.requesting = FALSE /\ waiter'.requesting = FALSE
    BY <1>2, <1>3, <1>10 DEF Started
  <2> QED
    BY <1>1, <1>5, <2>4, <2>5, <2>6, FedKept
<1>11. CASE /\ ~waiter.requesting /\ waiter.good > 0
            /\ GapClosed(waiter, waiter', m.pts, 0) /\ d(m).applied = waiter.queue
  <2>1. /\ waiter'.last = last /\ waiter'.count = waiter.count
        /\ waiter'.last = waiter'.count /\ waiter'.good = waiter'.last
        /\ waiter'.queue = {} /\ waiter'.requesting = FALSE
    BY <1>3, <1>11 DEF GapClosed, last
  <2>2. PICK S \in SUBSET Events : Accounts(S)
    BY DEF IInv, CountOK
  <2>3. \A p \in S : waiter.good < p /\ p <= last
    <3>1. \A p \in S : waiter.good < p /\ p <= waiter.last
      BY <2>2 DEF Accounts
    <3> QED
      BY <1>3, <1>8, <3>1
  <2>4. applied' = applied \cup waiter.queue
    BY <1>1, <1>6, <1>11
  <2>5. /\ waiter.count = waiter.good + Cardinality(SpanOf(log, S))
        /\ waiter.queue \subseteq S /\ S \subseteq waiter.queue \cup applied
    BY <1>11, <2>2 DEF Accounts
  <2>6. CountOK' /\ DataOK' /\ BoxStep
    BY <1>7, <1>8, <2>1, <2>3, <2>4, <2>5, AllCounted
  <2>7. QueueWatched'
    BY <2>1 DEF QueueWatched
  <2>8. waiter'.good # 0 /\ waiter.good <= waiter'.good /\ waiter.requesting = FALSE
    BY <1>3, <1>8, <1>11, <2>1
  <2> QED
    BY <1>1, <1>5, <2>1, <2>6, <2>7, <2>8, FedKept
<1>12. CASE /\ ~waiter.requesting /\ waiter.good > 0
            /\ GapPassed(waiter, waiter', m.pts) /\ d(m).applied = waiter.queue
  <2>1. /\ waiter'.last = last /\ waiter'.count = waiter.count
        /\ waiter'.good = waiter.good
        /\ waiter'.queue = {} /\ waiter'.requesting = FALSE
    BY <1>12 DEF GapPassed, last
  <2>2. applied' = applied \cup waiter.queue
    BY <1>1, <1>6, <1>12
  <2>3. CountOK' /\ DataOK' /\ BoxStep
    BY <1>3, <1>7, <1>8, <1>12, <2>1, <2>2, NumbersStay
  <2>4. QueueWatched'
    BY <2>1 DEF QueueWatched
  <2>5. waiter'.good # 0 /\ waiter.good <= waiter'.good /\ waiter.requesting = FALSE
    BY <1>3, <1>12, <2>1
  <2> QED
    BY <1>1, <1>5, <2>1, <2>3, <2>4, <2>5, FedKept
<1> QED
  BY <1>1, <1>4, <1>5, <1>9, <1>10, <1>11, <1>12 DEF AppliedInto

-----------------------------------------------------------------------------
(***************************************************************************)
(* getChannelDifference() and its answers.                                 *)
(***************************************************************************)

\* Asked anew, or the timer is spent to no effect.
LEMMA AskKept ==
  ASSUME TypeOK, TypeOK', IInv, UNCHANGED <<serverVars, shown, shownKnown, applied>>,
         net' \subseteq net,
         \/ GetChannelDifference(waiter)
         \/ failTimer /\ GetChannelDifference(SetRequesting(waiter, FALSE))
  PROVE  Kept
<1>1. /\ waiter \in Waiters(Pts) /\ waiter.good \in Nat /\ waiter.last \in Nat
      /\ Boundary(waiter.last) /\ Steady(waiter)
      /\ ~Inited(waiter) \/ waiter.requesting => waiter.queue = {}
  BY EventTyped, WaiterSteady DEF IInv, CountOK, Steady, Inited
<1>2. LogOK' /\ NetOK'
  BY NetShrinks
<1>3. {} \in SUBSET Events /\ applied' = applied \cup {}
  OBVIOUS
<1>4. ASSUME waiter'.good = waiter.good, waiter'.last = waiter.last,
             waiter'.count = waiter.count, waiter'.queue = {}, waiter'.requesting = TRUE,
             failTimer' = FALSE, askedPts' = waiter.good, Inited(waiter),
             ~waiter.requesting \/ failTimer
      PROVE  Kept
  <2>1. CountOK' /\ DataOK' /\ BoxStep
    BY <1>1, <1>3, <1>4, NumbersStay
  <2>2. ReplyOK'
    BY <1>4, Unasked, NoReplies
  <2>3. waiter.good # 0
    BY <1>4 DEF Inited
  <2>4. WatchOK'
    BY <1>4, <2>3
       DEF WatchOK, RequestAlive, KnownOK, QueueWatched, PollKept, PollArmed, Inited
  <2> QED
    BY <1>2, <2>1, <2>2, <2>4 DEF IInv, Kept
<1>5. CASE /\ GetChannelDifference(waiter)
           /\ ~Inited(waiter) \/ waiter.requesting
  <2>1. /\ waiter'.good = waiter.good /\ waiter'.last = waiter.last
        /\ waiter'.count = waiter.count /\ waiter'.queue = {}
        /\ waiter'.requesting = waiter.requesting /\ UNCHANGED askVars
    BY <1>1, <1>5, AskOutcome
  <2>2. CountOK' /\ DataOK' /\ BoxStep
    <3>1. waiter.queue = {} /\ waiter.requesting \in BOOLEAN
      BY <1>1, <1>5, EventTyped
    <3>2. waiter.last <= waiter'.last /\ Boundary(waiter'.last)
      BY <1>1, <2>1
    <3>3. \/ waiter'.requesting
          \/ ~waiter.requesting /\ waiter.queue \subseteq waiter'.queue \cup applied'
      BY <2>1, <3>1
    <3>4. waiter'.queue \subseteq waiter.queue
      BY <2>1
    <3> QED
      BY <1>3, <2>1, <3>2, <3>3, <3>4, NumbersStay
  <2>3. ReplyOK'
    BY <2>1, RepliesKept DEF askVars
  <2>4. WatchOK'
    BY <1>5, <2>1 DEF IInv, WatchOK, RequestAlive, KnownOK, QueueWatched, PollKept,
                      PollArmed, Inited, askVars
  <2> QED
    BY <1>2, <2>2, <2>3, <2>4 DEF IInv, Kept
<1>6. CASE GetChannelDifference(waiter) /\ Inited(waiter) /\ ~waiter.requesting
  BY <1>1, <1>4, <1>6, AskOutcome
<1>7. CASE failTimer /\ GetChannelDifference(SetRequesting(waiter, FALSE))
  <2> DEFINE w == SetRequesting(waiter, FALSE)
  <2>1. /\ w \in Waiters(Pts) /\ w.requesting = FALSE
        /\ w.good = waiter.good /\ w.last = waiter.last /\ w.count = waiter.count
    BY <1>1 DEF SetRequesting, Waiters
  <2>2. Inited(waiter)
    BY <1>7 DEF IInv, WatchOK, RequestAlive, KnownOK
  <2>3. GetChannelDifference(w)
    BY <1>7
  <2> HIDE DEF w
  <2>4. Inited(w) /\ ~w.requesting
    BY <2>1, <2>2 DEF Inited
  <2>5. /\ waiter'.good = waiter.good /\ waiter'.last = waiter.last
        /\ waiter'.count = waiter.count /\ waiter'.queue = {} /\ waiter'.requesting = TRUE
        /\ failTimer' = FALSE /\ askedPts' = waiter.good
    BY <2>1, <2>3, <2>4, AskOutcome
  <2> QED
    BY <1>4, <1>7, <2>2, <2>5
<1> QED
  BY <1>5, <1>6, <1>7

\* An answer that ends the difference sets the waiter to its pts.
LEMMA FinalKept ==
  ASSUME TypeOK, TypeOK', IInv, NEW m \in net, NEW K, Receive(m, K),
         m.kind \in Replies \ {"fail"},
         NEW w \in Waiters(Pts), w.good = m.pts, w.last = m.pts, w.count = m.pts,
         w.queue = {}, w.requesting = FALSE, DifferenceFinal(m.pts, w)
  PROVE  Kept
<1>1. UNCHANGED <<serverVars, shownKnown>> /\ net' = net \ {m} /\ net' \subseteq net
  BY DEF Receive
<1>2. /\ \A n \in net' : n.kind \notin Replies
      /\ askedPts # 0 /\ askedPts = waiter.good /\ ~failTimer
      /\ waiter.good <= m.pts /\ Boundary(m.pts)
  BY <1>1, ReplyTaken
<1>3. /\ LogOK' /\ NetOK' /\ ReplyOK'
  BY <1>1, <1>2, NetShrinks, NoReplies
<1>4. /\ waiter'.good = m.pts /\ waiter'.last = m.pts /\ waiter'.count = m.pts
      /\ waiter'.queue = {} /\ waiter'.requesting = FALSE
      /\ shown # {} => waiter'.timer /\ waiter'.waitingForShortPoll
  BY ShortPollSet DEF DifferenceFinal, PollFrom
<1>5. /\ applied' = applied \cup { p \in Events : waiter.good < p /\ p <= m.pts }
      /\ askedPts' = 0 /\ UNCHANGED <<shown, failTimer>>
  BY <1>2 DEF DifferenceFinal, Fetched
<1>6. m.pts \in Pts /\ m.pts \in Nat /\ waiter.good \in Nat
  BY EventTyped
<1>7. CountOK' /\ DataOK' /\ BoxStep
  BY <1>1, <1>2, <1>4, <1>5, <1>6, SetTo
<1>8. m.pts > 0
  BY <1>2, <1>6
<1>9. WatchOK'
  BY <1>2, <1>4, <1>5, <1>8
     DEF WatchOK, RequestAlive, KnownOK, QueueWatched, PollKept, PollArmed, Inited
<1> QED
  BY <1>3, <1>7, <1>9 DEF IInv, Kept

\* The waiter that channelDifferenceDone leaves.
LEMMA TakenOutcome ==
  ASSUME TypeOK
  PROVE  \A pts \in Pts :
           /\ StateTaken(pts) \in Waiters(Pts)
           /\ StateTaken(pts).good = pts /\ StateTaken(pts).last = pts
           /\ StateTaken(pts).count = pts /\ StateTaken(pts).queue = {}
           /\ StateTaken(pts).requesting = FALSE
<1> TAKE pts \in Pts
<1> DEFINE u == InitPts(waiter, pts)
<1>1. /\ u.good = pts /\ u.last = pts /\ u.count = pts /\ u.queue = {}
      /\ u \in Waiters(Pts)
  <2>1. u \in Waiters(Pts)
    BY EventTyped, RestartType
  <2>2. waiter \in Waiters(Pts)
    BY EventTyped
  <2> QED
    BY <2>1, <2>2 DEF InitPts, Waiters
<1>2. StateTaken(pts) = SetRequesting(u, FALSE)
  BY DEF StateTaken
<1> HIDE DEF u
<1> QED
  BY <1>1, <1>2 DEF SetRequesting, Waiters

\* The answer to getChannelDifference comes, whichever it is.
LEMMA AnsweredKept ==
  ASSUME TypeOK, TypeOK', IInv, Answered
  PROVE  Kept
<1>0. waiter \in Waiters(Pts) /\ Pts \in SUBSET Nat /\ 0 \in Nat
  BY EventTyped, PtsAreNaturals
<1>1. CASE ReceiveDifference
  <2>1. PICK m \in net : /\ Receive(m, {"empty", "difference"})
                         /\ DifferenceFinal(m.pts, StateTaken(m.pts))
    BY <1>1 DEF ReceiveDifference
  <2>2. m.kind \in Replies \ {"fail"} /\ m.pts \in Pts
    BY <2>1, EventTyped DEF Receive, Replies
  <2> DEFINE w == StateTaken(m.pts)
  <2>3. /\ w \in Waiters(Pts) /\ w.good = m.pts /\ w.last = m.pts /\ w.count = m.pts
        /\ w.queue = {} /\ w.requesting = FALSE
    BY <2>2, TakenOutcome
  <2> HIDE DEF w
  <2> QED
    BY <2>1, <2>2, <2>3, FinalKept DEF w
<1>2. CASE ReceiveTooLongDifference
  <2> DEFINE u(m) == UpdateApplied(InitPts(waiter, m.pts), m.pts, 0).waiter
  <2>1. PICK m \in net : /\ Receive(m, {"tooLongDifference"})
                         /\ DifferenceFinal(m.pts, SetRequesting(u(m), FALSE))
    BY <1>2 DEF ReceiveTooLongDifference
  <2>2. m.kind \in Replies \ {"fail"} /\ m.pts \in Pts /\ Receive(m, {m.kind})
    BY <2>1, EventTyped DEF Receive, Replies
  <2>3. waiter.requesting
    BY <2>2, ReplyTaken DEF Receive
  <2> DEFINE i == InitPts(waiter, m.pts)
  <2>4. /\ i \in Waiters(Pts) /\ i.good = m.pts /\ i.last = m.pts /\ i.count = m.pts
        /\ i.queue = {} /\ i.requesting
    <3>1. i \in Waiters(Pts)
      BY <1>0, <2>2, RestartType
    <3> QED
      BY <1>0, <2>3, <3>1 DEF InitPts, Waiters
  <2> HIDE DEF i
  <2>5. AppliedInto(i, UpdateApplied(i, m.pts, 0).waiter,
                    UpdateApplied(i, m.pts, 0).applied, m.pts, 0)
    <3>1. Steady(i)
      BY <2>4 DEF Steady
    <3> QED
      BY <1>0, <2>2, <2>4, <3>1, AppliedOutcome
  <2>6. /\ UpdateApplied(i, m.pts, 0).waiter \in Waiters(Pts)
    BY <1>0, <2>2, <2>4, UpdateAndApplyType
  <2>7. u(m) = UpdateApplied(i, m.pts, 0).waiter
    BY DEF i
  <2> HIDE DEF u
  <2>8. /\ u(m) \in Waiters(Pts) /\ u(m).queue = {} /\ u(m).good = m.pts
        /\ u(m).last = m.pts /\ u(m).count = m.pts
    BY <2>4, <2>5, <2>6, <2>7 DEF AppliedInto
  <2> DEFINE w == SetRequesting(u(m), FALSE)
  <2>9. /\ w \in Waiters(Pts) /\ w.good = m.pts /\ w.last = m.pts /\ w.count = m.pts
        /\ w.queue = {} /\ w.requesting = FALSE
    BY <2>8 DEF SetRequesting, Waiters
  <2> HIDE DEF w
  <2> QED
    BY <2>1, <2>2, <2>9, FinalKept DEF w
<1>3. CASE ReceivePart
  <2>1. PICK m \in net : /\ Receive(m, {"part"})
                         /\ GetChannelDifference(StateTaken(m.pts))
                         /\ applied' = applied \cup Fetched(m.pts)
                         /\ UNCHANGED shown
    BY <1>3 DEF ReceivePart
  <2>2. /\ m.kind \in Replies \ {"fail"} /\ m.pts \in Pts /\ m.pts \in Nat
        /\ waiter.good \in Nat
    BY <2>1, EventTyped DEF Receive, Replies
  <2>3. UNCHANGED <<serverVars, shownKnown>> /\ net' = net \ {m} /\ net' \subseteq net
    BY <2>1 DEF Receive
  <2>4. /\ \A n \in net' : n.kind \notin Replies
        /\ askedPts # 0 /\ askedPts = waiter.good
        /\ waiter.good <= m.pts /\ Boundary(m.pts)
    BY <2>2, <2>3, ReplyTaken
  <2>5. LogOK' /\ NetOK' /\ ReplyOK'
    BY <2>3, <2>4, NetShrinks, NoReplies
  <2> DEFINE w == StateTaken(m.pts)
  <2>6. /\ w \in Waiters(Pts) /\ w.good = m.pts /\ w.last = m.pts /\ w.count = m.pts
        /\ w.queue = {} /\ w.requesting = FALSE
    BY <2>2, TakenOutcome
  <2>7. m.pts > 0
    BY <2>2, <2>4
  <2>8. GetChannelDifference(w)
    BY <2>1
  <2> HIDE DEF w
  <2>9. /\ waiter'.good = m.pts /\ waiter'.last = m.pts /\ waiter'.count = m.pts
        /\ waiter'.queue = {} /\ waiter'.requesting = TRUE
        /\ failTimer' = FALSE /\ askedPts' = m.pts
    BY <2>6, <2>7, <2>8, AskOutcome DEF Inited
  <2>10. applied' = applied \cup { p \in Events : waiter.good < p /\ p <= m.pts }
    BY <2>1, <2>4 DEF Fetched
  <2>11. CountOK' /\ DataOK' /\ BoxStep
    BY <2>2, <2>3, <2>4, <2>9, <2>10, SetTo
  <2>12. WatchOK'
    BY <2>7, <2>9
       DEF WatchOK, RequestAlive, KnownOK, QueueWatched, PollKept, PollArmed, Inited
  <2> QED
    BY <2>5, <2>11, <2>12 DEF IInv, Kept
<1>4. CASE ReceiveFail
  <2>1. PICK m \in net : /\ Receive(m, {"fail"})
                         /\ failTimer' = TRUE /\ askedPts' = 0
                         /\ UNCHANGED <<waiter, shown, answered, applied>>
    BY <1>4 DEF ReceiveFail
  <2>2. /\ UNCHANGED <<serverVars, shownKnown>> /\ net' = net \ {m} /\ net' \subseteq net
        /\ m.kind \in Replies
    BY <2>1 DEF Receive, Replies
  <2>3. (\A n \in net' : n.kind \notin Replies) /\ waiter.requesting
    BY <2>2, ReplyTaken
  <2>4. LogOK' /\ NetOK' /\ ReplyOK'
    BY <2>2, <2>3, NetShrinks, NoReplies
  <2>5. WatchOK'
    BY <2>1, <2>2, <2>3 DEF IInv, WatchOK, RequestAlive, KnownOK, QueueWatched,
                            PollKept, PollArmed
  <2>6. CountOK' /\ DataOK' /\ BoxStep
    <3>1. {} \in SUBSET Events /\ applied' = applied \cup {}
      BY <2>1
    <3>2. waiter.last <= waiter.last /\ Boundary(waiter.last)
      BY EventTyped DEF IInv, CountOK
    <3> QED
      BY <2>1, <2>2, <2>3, <3>1, <3>2, NumbersStay
  <2> QED
    BY <2>4, <2>5, <2>6 DEF IInv, Kept
<1> QED
  BY <1>1, <1>2, <1>3, <1>4 DEF Answered

\* Every message that may come.
LEMMA HandleKept ==
  ASSUME TypeOK, TypeOK', IInv, Handle
  PROVE  Kept
<1>0. ASSUME UNCHANGED <<serverVars, shown, shownKnown, applied, waiter, askVars>>,
             net' \subseteq net
      PROVE  Kept
  <2>1. ReplyOK'
    BY <1>0, RepliesKept DEF askVars
  <2> QED
    BY <1>0, <2>1, QuietServer DEF askVars
<1>1. CASE ReceiveTooLong
  <2>1. PICK m \in net : /\ Receive(m, {"tooLong"})
                         /\ \/ GetChannelDifference(waiter)
                            \/ UNCHANGED <<waiter, askVars>>
                         /\ UNCHANGED <<shown, applied>>
    BY <1>1 DEF ReceiveTooLong
  <2>2. UNCHANGED <<serverVars, shown, shownKnown, applied>> /\ net' \subseteq net
    BY <2>1 DEF Receive
  <2> QED
    BY <1>0, <2>1, <2>2, AskKept
<1> QED
  BY <1>1, UpdateKept, AffectedKept, PtsKept, AnsweredKept DEF Handle

\* Timers and windows.
LEMMA TimersKept ==
  ASSUME TypeOK, TypeOK', IInv, ByPtsTimer \/ FailTimer
  PROVE  Kept
BY AskKept DEF ByPtsTimer, FailTimer

\* A window that leaves takes away neither the timer of a gap nor the poll of
\* another window.
LEMMA UiKept ==
  ASSUME TypeOK, TypeOK', IInv, Ui
  PROVE  Kept
<1>1. UnchangedByWindows
  BY DEF Ui, Show, Leave, CloseWindow
<1>2. UNCHANGED <<serverVars, askVars, applied>> /\ net' = net
  BY <1>1 DEF UnchangedByWindows
<1>3. waiter \in Waiters(Pts)
  BY EventTyped
<1>4. /\ waiter'.good = waiter.good /\ waiter'.last = waiter.last
      /\ waiter'.count = waiter.count /\ waiter'.queue = waiter.queue
      /\ waiter'.requesting = waiter.requesting
      /\ waiter'.waitingForSkipped = waiter.waitingForSkipped
      /\ waiter.timer /\ waiter.waitingForSkipped => waiter'.timer
  <2>1. \/ waiter' = waiter
        \/ \E b \in BOOLEAN : waiter' = SetWaitingForShortPoll(waiter, b)
    BY DEF Ui, Show, Leave, CloseWindow
  <2> QED
    BY <1>3, <2>1, ShortPollSet
<1>5. \/ /\ waiter'.timer /\ waiter'.waitingForShortPoll
         /\ shownKnown' => shownKnown \/ Inited(waiter)
      \/ shown' = {} /\ shownKnown' = shownKnown
      \/ shown # {} /\ waiter' = waiter /\ shownKnown' = shownKnown
  <2>1. CASE Show
    BY <1>3, <2>1, ShortPollSet DEF Show
  <2>2. CASE Leave
    BY <2>2 DEF Leave
  <2>3. CASE CloseWindow
    BY <2>3 DEF CloseWindow
  <2> QED
    BY <2>1, <2>2, <2>3 DEF Ui
<1>6. WatchOK'
  <2>1. RequestAlive' /\ QueueWatched' 
    BY <1>2, <1>4 DEF IInv, WatchOK, RequestAlive, QueueWatched, askVars, Closes
  <2>2. KnownOK'
    BY <1>4, <1>5 DEF IInv, WatchOK, KnownOK, Inited
  <2>3. PollKept'
    BY <1>4, <1>5 DEF IInv, WatchOK, PollKept, PollArmed, Inited
  <2> QED
    BY <2>1, <2>2, <2>3 DEF WatchOK
<1>7. LogOK' /\ NetOK' /\ ReplyOK'
  BY <1>2, NetShrinks, RepliesKept DEF askVars
<1>8. CountOK' /\ DataOK' /\ BoxStep
  <2>1. /\ {} \in SUBSET Events /\ applied' = applied \cup {}
    BY <1>2
  <2>2. waiter.last <= waiter.last /\ Boundary(waiter.last) /\ waiter.requesting \in BOOLEAN
    BY EventTyped DEF IInv, CountOK
  <2>3. waiter'.requesting \/ (~waiter.requesting /\ waiter.queue \subseteq waiter'.queue \cup applied')
    BY <1>4
  <2> QED
    BY <1>2, <1>4, <2>1, <2>2, <2>3, NumbersStay
<1> QED
  BY <1>6, <1>7, <1>8 DEF IInv, Kept

\* Every step keeps the invariant and is a step, or a stutter, of the box.
LEMMA StepKept ==
  ASSUME TypeOK, TypeOK', IInv, [Next]_vars
  PROVE  Kept
<1>1. CASE UNCHANGED vars
  <2>1. UNCHANGED <<serverVars, waiter, shown, failTimer, askedPts, answered, applied, shownKnown>>
        /\ net' = net
    BY <1>1 DEF vars, clientVars, askVars
  <2>2. ReplyOK'
    BY <2>1, RepliesKept
  <2> QED
    BY <2>1, <2>2, QuietServer
<1> QED
  BY <1>1, ServerKept, HandleKept, TimersKept, UiKept DEF Next

-----------------------------------------------------------------------------
(***************************************************************************)
(* The theorems.                                                           *)
(***************************************************************************)
LEMMA InitIInv == Init => IInv
<1> SUFFICES ASSUME Init PROVE IInv
  OBVIOUS
<1>1. /\ waiter \in Waiters(Pts)
      /\ waiter.good \in {0, 1} /\ waiter.last = waiter.good
      /\ waiter.count = waiter.good /\ waiter.queue = {} /\ waiter.requesting = FALSE
  BY InitWaiter
<1>2. /\ log = {} /\ serverPts = 1 /\ net = {} /\ shown = {} /\ shownKnown = FALSE
      /\ failTimer = FALSE /\ askedPts = 0 /\ applied = {} /\ Events = {}
  BY DEF Init, Events
<1>3. LogOK /\ NetOK /\ ReplyOK
  BY <1>2 DEF LogOK, Follow, NetOK, ReplyOK
<1>4. WatchOK
  BY <1>1, <1>2 DEF WatchOK, RequestAlive, KnownOK, QueueWatched, PollKept, PollArmed, Inited
<1>5. Accounts({})
  <2>1. SpanOf(log, {}) = {} /\ Cardinality({}) = 0
    BY FS_EmptySet DEF SpanOf
  <2> QED
    BY <1>1, <1>2, <2>1 DEF Accounts
<1>6. CountOK
  BY <1>1, <1>2, <1>5 DEF CountOK, Boundary, Between
<1>7. DataOK
  BY <1>2 DEF DataOK, NoLostEvent
<1> QED
  BY <1>3, <1>4, <1>6, <1>7 DEF IInv

\* The inductive invariant: in every reachable state the numbers of the waiter
\* account for the events counted, and what is under way is true.
THEOREM InvariantHolds == Spec => [](TypeOK /\ IInv)
<1>1. Init => TypeOK /\ IInv
  BY InitTypeOK, InitIInv
<1>2. TypeOK /\ IInv /\ [Next]_vars => (TypeOK /\ IInv)'
  BY TypeInductive, StepKept DEF Kept
<1> QED
  BY <1>1, <1>2, PTL DEF Spec

\* "requesting", while which updates of the channel are thrown away, is set only
\* while an answer or the timer after a failure is to come, never both.
THEOREM RequestsAreAlive == Spec => []RequestAlive
<1>1. IInv => RequestAlive
  BY DEF IInv, WatchOK
<1> QED
  BY <1>1, InvariantHolds, PTL

\* A queue waits for a known gap with its timer, whatever the polls do.
THEOREM QueuesAreWatched == Spec => []QueueWatched
<1>1. IInv => QueueWatched
  BY DEF IInv, WatchOK
<1> QED
  BY <1>1, InvariantHolds, PTL

\* A channel that came to be shown with its pts known is polled while shown.
THEOREM PollsAreKept == Spec => []PollKept
<1>1. IInv => PollKept
  BY DEF IInv, WatchOK
<1> QED
  BY <1>1, InvariantHolds, PTL

\* The box of a channel keeps the promise of the abstract one.
THEOREM ChannelImplementsEventBox == Spec => BoxSpec
<1>1. Init => Box!Init
  <2> SUFFICES ASSUME Init PROVE Box!Init
    OBVIOUS
  <2>1. waiter.good \in Pts
    BY InitWaiter, PtsAreNaturals
  <2> QED
    BY <2>1 DEF Init, Box!Init, Events
<1>2. TypeOK /\ TypeOK' /\ IInv /\ [Next]_vars => [Box!Next]_<<Events, applied, waiter.good>>
  BY StepKept DEF Kept, BoxStep
<1> QED
  BY <1>1, <1>2, InvariantHolds, PTL DEF Spec, BoxSpec, Box!Spec, Box!vars
=============================================================================
