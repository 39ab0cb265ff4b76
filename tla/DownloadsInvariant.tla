-------------------------- MODULE DownloadsInvariant --------------------------
(***************************************************************************)
(* The inductive invariant of Downloads.  A handler makes many calls; a    *)
(* part whose request is done is in hand until it is fed, kept, or asked   *)
(* for again.  So what holds of a task t is a predicate of its record x,   *)
(* of its requests S, of the parts H in hand, and of the parts W that the  *)
(* player waits for and that are not noted as wanted yet.                  *)
(***************************************************************************)
EXTENDS Downloads

Positive == Nat \ {0}

Sessions == [requested : Int, successes : Nat, max : Nat]

AnyRequests == [ task : Tasks, offset : Nat, kind : {"part", "cdn", "hashes", "reupload"},
                 session : Positive, amount : Int, old : BOOLEAN,
                 at : {"server", "reference", "failed"} ]

\* Only the data center refuses a reference.
Requests == { r \in AnyRequests : r.at = "reference" => r.kind = "part" }

TaskStates ==
  [ next : Nat, loaded : SUBSET Nat, wanted : SUBSET ({ l \in Int : l <= 0 } \X Nat),
    priority : {0, 1}, waits : SUBSET Nat,
    unchecked : UNION { [K -> Positive] : K \in SUBSET Nat },
    hashes : SUBSET Nat, cdn : BOOLEAN, more : BOOLEAN, lostRef : BOOLEAN,
    astray : BOOLEAN, state : {"new", "on", "done", "failed", "cancelled", "gone"} ]

Failures == {"no such session", "asked twice", "left in a removed session",
             "killed in use", "generation"}

Managers ==
  [ sessions : Seq(Sessions), total : Int, timeouts : Nat, removes : Nat,
    removeIndex : Nat, removed : BOOLEAN, kill : BOOLEAN,
    queue : Seq([task : Tasks, priority : Int]), sent : SUBSET Requests,
    posted : Seq(Positive), idle : BOOLEAN, broken : SUBSET Failures,
    task : [Tasks -> TaskStates] ]

Typed(m) == m \in Managers /\ m.sessions # <<>> /\ IsFiniteSet(m.sent)

TypeOK == Typed(d) /\ troubles \in Nat /\ byUser \in Nat

-----------------------------------------------------------------------------
\* The parts that the requests S are for.
Out(S) == { r.offset : r \in { q \in S : q.kind # "hashes" } }

\* The offsets of all of them.
Offs(S) == { r.offset : r \in S }

Wanted(x) == { w[2] : w \in x.wanted }

Taken(x) == 0 .. x.next - 1

\* What was taken from the front of a file is somewhere.
FileOK(t, x, S, H) ==
  /\ x.wanted = {} /\ x.waits = {} /\ x.next <= Parts[t]
  /\ x.state = "on" =>
       /\ x.loaded \cup Offs(S) \cup DOMAIN x.unchecked \cup H \subseteq Taken(x)
       /\ Taken(x) \subseteq x.loaded \cup Out(S) \cup DOMAIN x.unchecked \cup H
  /\ x.state # "on" => S = {} /\ DOMAIN x.unchecked = {} /\ ~x.lostRef
  /\ x.state = "done" => x.loaded = Offsets(t)

StreamOK(t, x, S, H) ==
  /\ Offs(S) \cup DOMAIN x.unchecked \cup Wanted(x) \cup H \subseteq Offsets(t)
  /\ x.loaded = {} /\ x.state \notin {"on", "done"}

\* No part is asked for twice, and hashes are asked for once.
Once(S) ==
  \A q, r \in S :
    /\ (q.kind = "hashes" <=> r.kind = "hashes")
    /\ q.kind # "hashes" => q.offset = r.offset
    => q = r

\* Before a task leaves its CDN with parts unchecked, each part is in one place.
NeatOK(x, S, H, W) ==
  LET kept == DOMAIN x.unchecked
  IN /\ Once(S)
     /\ Out(S) \cap kept = {} /\ H \cap (Out(S) \cup kept) = {}
     /\ Wanted(x) \cap (Out(S) \cup kept \cup H) = {}
     /\ x.loaded \cap (Out(S) \cup kept \cup H) = {}
     /\ \A v, w \in x.wanted : v[2] = w[2] => v = w
     /\ x.waits \subseteq Wanted(x) \cup Out(S) \cup kept \cup H \cup W
     /\ \A r \in S : r.kind = "hashes" => r.offset \in kept
     /\ x.cdn => \A r \in S : r.kind # "part"
     /\ ~x.cdn => kept = {} /\ \A r \in S : r.kind = "part"

TaskOK(t, x, S, H, W) ==
  /\ t \in Files => FileOK(t, x, S, H)
  /\ t \in Streams => StreamOK(t, x, S, H)
  /\ ~x.astray => NeatOK(x, S, H, W)

InQueue(m, t) == \E k \in DOMAIN m.queue : m.queue[k].task = t

\* A task is in the queue once, and a file while it is on.
QueueOK(m) ==
  /\ \A j, k \in DOMAIN m.queue : m.queue[j].task = m.queue[k].task => j = k
  /\ \A f \in Files : InQueue(m, f) => m.task[f].state = "on"

\* The record of task t is changed.
Put(m, t, y) == [m EXCEPT !.task[t] = y]

\* The parts of task t in E, a set of pairs.
PartsIn(E, t) == { e[2] : e \in { f \in E : f[1] = t } }

\* All is well, with the parts H of task a in hand.
Good(m, a, H, E) ==
  /\ Typed(m) /\ QueueOK(m)
  /\ \A t \in Tasks :
       TaskOK(t, m.task[t], SentOf(m, t), IF t = a THEN H ELSE {}, PartsIn(E, t))

Fine(m) ==
  /\ Typed(m) /\ QueueOK(m)
  /\ \A t \in Tasks : TaskOK(t, m.task[t], SentOf(m, t), {}, {})

IInv == TypeOK /\ Fine(d)

-----------------------------------------------------------------------------
(* Amounts, as long as no assertion has failed.  A request is counted by   *)
(* its session, which is there.  Session b, 0 if there is none, is about   *)
(* to be removed: its amount is raised, so that no other request goes there. *)

\* The requests of S that session s counts.
CountedBy(S, s) == { r \in S : r.session = s }

\* Each amount is the number of requests; no part is asked for twice.
Sums(m, b) ==
  /\ \A r \in m.sent : r.session \in DOMAIN m.sessions
  /\ \A q, r \in m.sent : q.task = r.task /\ q.offset = r.offset => q = r
  /\ \A s \in DOMAIN m.sessions :
       m.sessions[s].requested =
         Cardinality(CountedBy(m.sent, s)) + (IF s = b THEN Much ELSE 0)
  /\ m.total = Cardinality(m.sent)
  /\ m.kill => m.sent = {}

\* A failed assertion ends the program: nothing is said of the amounts then.
Tally(m, b) == m.broken = {} => Sums(m, b)

\* What the calls of a handler keep.
Sound(m, b) == Typed(m) /\ Tally(m, b)

=============================================================================
