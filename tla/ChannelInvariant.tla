-------------------------- MODULE ChannelInvariant --------------------------
(***************************************************************************)
(* The inductive invariant behind the theorems about ChannelUpdates.  As   *)
(* for the common box, "count" is "good" and the pts of the events counted *)
(* since; which events those are is not in the waiter, so the invariant    *)
(* says that there is such a set.                                          *)
(***************************************************************************)
EXTENDS ChannelUpdates, EventLog

\* The messages that bring an event, and the answers to getChannelDifference.
Carriers == {"update", "affected"}

Replies == {"empty", "difference", "tooLongDifference", "part", "fail"}

Messages == [ kind : Carriers \cup Replies \cup {"received", "tooLong"},
              pts : Pts, count : Nat ]

TypeServer ==
  /\ log \subseteq [pts : Pts, count : Counts] /\ serverPts \in Pts
  /\ net \subseteq Messages /\ disturbances \in Nat

TypeClient ==
  /\ waiter \in Waiters(Pts)
  /\ shown \subseteq Windows /\ shownKnown \in BOOLEAN
  /\ failTimer \in BOOLEAN /\ askedPts \in Pts /\ answered \in BOOLEAN
  /\ applied \subseteq Pts

TypeOK == TypeServer /\ TypeClient

-----------------------------------------------------------------------------
\* No event made or to be made takes pts on both sides of p.
Boundary(p) == p <= serverPts /\ Between(log, p)

LogOK == Follow(log, serverPts) /\ 1 <= serverPts

\* What is under way is true: an event comes once, and a pts told with loaded
\* messages was the pts of the channel.
NetOK ==
  /\ \A m \in net : m.kind \in Carriers => [pts |-> m.pts, count |-> m.count] \in log
  /\ \A m, n \in net :
       m.kind \in Carriers /\ n.kind \in Carriers /\ m.pts = n.pts => m = n
  /\ \A m \in net : m.kind = "received" => 1 <= m.pts /\ Boundary(m.pts)

\* The answer is under way once, to the request that is made, and ahead of it.
ReplyOK ==
  /\ \A m \in net : m.kind \in Replies =>
       /\ askedPts # 0 /\ answered
       /\ m.kind # "fail" => askedPts <= m.pts /\ Boundary(m.pts)
  /\ \A m, n \in net : m.kind \in Replies /\ n.kind \in Replies => m = n

\* A channel whose pts is not known asks for nothing and counts nothing.
KnownOK ==
  /\ waiter.requesting \/ shownKnown => Inited(waiter)
  /\ ~Inited(waiter) => waiter.last = 0

\* S is what was counted since "good" was set: none of it comes again, and
\* what of it is not in the data is queued.
Accounts(S) ==
  /\ \A p \in S : waiter.good < p /\ p <= waiter.last
  /\ \A m \in net : m.kind \in Carriers => m.pts \notin S
  /\ waiter.count = waiter.good + Cardinality(SpanOf(log, S))
  /\ waiter.queue \subseteq S
  /\ waiter.requesting \/ S \subseteq waiter.queue \cup applied

CountOK ==
  /\ waiter.good <= waiter.last
  /\ Boundary(waiter.good) /\ Boundary(waiter.last)
  /\ \E S \in SUBSET Events : Accounts(S)

\* The data holds every event up to "good", and no event that was not made.
NoLostEvent == \A p \in Events : p <= waiter.good => p \in applied

DataOK == NoLostEvent /\ applied \subseteq Events

WatchOK == RequestAlive /\ KnownOK /\ QueueWatched /\ PollKept

IInv == LogOK /\ NetOK /\ ReplyOK /\ WatchOK /\ CountOK /\ DataOK
=============================================================================
