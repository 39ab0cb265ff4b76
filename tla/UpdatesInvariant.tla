-------------------------- MODULE UpdatesInvariant --------------------------
(***************************************************************************)
(* The inductive invariant behind the theorems about Updates.  It says why *)
(* the three numbers of the waiter are enough: "count" is "good" and the   *)
(* pts taken by the events counted since, each once, all of them above     *)
(* "good" and up to "last".  So count = last leaves no room for an event   *)
(* that was not counted.                                                   *)
(***************************************************************************)
EXTENDS Updates, EventLog

\* No event made or to be made takes pts on both sides of p.
Boundary(p) ==
  /\ p <= serverPts
  /\ \A e \in log : e.pts > p => e.pts - e.count >= p

\* Events follow one another.
LogOK ==
  /\ FirstPts <= serverPts
  /\ \A e \in log : FirstPts <= e.pts - e.count /\ e.pts <= serverPts
  /\ \A e, f \in log : e.pts < f.pts => e.pts <= f.pts - f.count
  /\ \A e, f \in log : e.pts = f.pts => e = f

\* An event is in one place at most: still to be sent, on its way, counted.
CarriesEvent(m) == m.kind \in Carriers

Genuine(m) == [pts |-> m.pts, count |-> m.count] \in log /\ m.pts \notin pending

OncePerEvent ==
  /\ pending \subseteq Events
  /\ \A m \in outbox : m.kind \notin Answers /\ (CarriesEvent(m) => Genuine(m))
  /\ \A m, n \in outbox :
       CarriesEvent(m) /\ CarriesEvent(n) /\ m.pts = n.pts => m = n
  /\ \A i \in 1 .. Len(net) : CarriesEvent(net[i]) => Genuine(net[i])
  /\ \A i \in 1 .. Len(net), m \in outbox :
       CarriesEvent(net[i]) /\ CarriesEvent(m) => net[i].pts # m.pts
  /\ \A i, j \in 1 .. Len(net) :
       CarriesEvent(net[i]) /\ CarriesEvent(net[j]) /\ net[i].pts = net[j].pts
         => i = j

\* The answer to the request of the box is on its way once, and only then.
AnswerOK ==
  /\ \A i \in 1 .. Len(net) : net[i].kind \in Answers =>
       /\ request # "none" /\ answered
       /\ net[i].kind = "state" <=> request = "state"
       /\ net[i].kind \in {"state", "slice", "difference"} =>
            /\ Boundary(net[i].pts)
            /\ net[i].pts > askedPts /\ net[i].pts >= FirstPts
  /\ \A i, j \in 1 .. Len(net) :
       net[i].kind \in Answers /\ net[j].kind \in Answers => i = j

\* Before the state comes the waiter has no pts; after, it always has.
RequestOK ==
  /\ RequestAlive
  /\ request = "state" => waiter.good = 0 /\ askedPts = 0
  /\ request # "state" => waiter.good >= FirstPts

CountOK ==
  /\ \A p \in pending : waiter.good < p /\ p <= waiter.last
  /\ waiter.good <= waiter.last
  /\ waiter.good = 0 => pending = {} 
  /\ waiter.count = waiter.good + Cardinality(SpanOf(log, pending))
  /\ Boundary(waiter.good)
  /\ waiter.last = waiter.good \/ waiter.last \in Events

\* What is counted and not in the data waits in the queue.
QueueOK ==
  /\ waiter.requesting => waiter.queue = {}
  /\ waiter.queue \subseteq pending
  /\ ~waiter.requesting => pending \subseteq waiter.queue \cup applied
  /\ applied \subseteq Events

ClientOK ==
  RequestOK /\ CountOK /\ QueueOK /\ GapWatched /\ NoLostEvent /\ NotAhead

IInv == LogOK /\ OncePerEvent /\ AnswerOK /\ ClientOK
=============================================================================
