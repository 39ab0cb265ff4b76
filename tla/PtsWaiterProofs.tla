--------------------------- MODULE PtsWaiterProofs ---------------------------
(***************************************************************************)
(* What the methods of a PtsWaiter do, for every set of pts P, and the     *)
(* arithmetic that makes its three numbers enough.  The boxes that own a   *)
(* waiter (Updates, ChannelUpdates) rest on these lemmas.                  *)
(***************************************************************************)
EXTENDS PtsWaiter, EventLog, FiniteSetTheorems, TLAPS

(***************************************************************************)
(* The waiter's operators keep its type.                                   *)
(***************************************************************************)
LEMMA WaiterType ==
  ASSUME NEW P \in SUBSET Nat, NEW w \in Waiters(P), NEW pts \in P, NEW count \in Nat,
         NEW b \in BOOLEAN
  PROVE  /\ InitPts(w, pts) \in Waiters(P)
         /\ SetRequesting(w, b) \in Waiters(P)
         /\ [w EXCEPT !.timer = b] \in Waiters(P)
         /\ SetWaitingForSkipped(w, b) \in Waiters(P)
         /\ Counted(w, pts, count) \in Waiters(P)
<1>1. InitPts(w, pts) \in Waiters(P)
  <2>1. pts \in Nat
    OBVIOUS
  <2> QED
    BY <2>1 DEF Waiters, InitPts
<1>2. SetRequesting(w, b) \in Waiters(P)
  BY DEF Waiters, SetRequesting
<1>3. [w EXCEPT !.timer = b] \in Waiters(P)
  BY DEF Waiters
<1>4. SetWaitingForSkipped(w, b) \in Waiters(P)
  BY DEF Waiters, SetWaitingForSkipped
<1>5. Counted(w, pts, count) \in Waiters(P)
  <2>1. Later(w.last, pts) \in P
    BY DEF Waiters, Later
  <2>2. w.count + count \in Nat
    BY DEF Waiters
  <2> QED
    BY <2>1, <2>2 DEF Waiters, Counted
<1> QED
  BY <1>1, <1>2, <1>3, <1>4, <1>5

\* PtsWaiter::check returns a waiter.
LEMMA CheckType ==
  ASSUME NEW P \in SUBSET Nat, NEW w \in Waiters(P), NEW pts \in P, NEW count \in Nat
  PROVE  Check(w, pts, count) \in Waiters(P)
<1> DEFINE c == Counted(w, pts, count)
<1>1. c \in Waiters(P)
  BY WaiterType
<1>2. [c EXCEPT !.good = c.last] \in Waiters(P)
  BY <1>1 DEF Waiters
<1>3. SetWaitingForSkipped(c, TRUE) \in Waiters(P)
  BY <1>1, WaiterType
<1>4. InitPts(w, pts) \in Waiters(P)
  BY WaiterType
<1> QED
  BY <1>2, <1>3, <1>4 DEF Check

\* PtsWaiter::updated with a queue S returns a waiter.
LEMMA UpdatedType ==
  ASSUME NEW P \in SUBSET Nat, NEW w \in Waiters(P), NEW pts \in P, NEW count \in Nat,
         NEW S \in SUBSET P
  PROVE  Updated(w, pts, count, S) \in Waiters(P)
<1> DEFINE c == Check(w, pts, count)
<1>1. c \in Waiters(P)
  BY CheckType
<1>2. [c EXCEPT !.queue = c.queue \cup S] \in Waiters(P)
  BY <1>1 DEF Waiters
<1> QED
  BY <1>1, <1>2 DEF Updated

\* PtsWaiter::applySkippedUpdates returns a waiter and what it applied.
LEMMA ApplySkippedType ==
  ASSUME NEW P \in SUBSET Nat, NEW w \in Waiters(P)
  PROVE  /\ ApplySkippedUpdates(w).waiter \in Waiters(P)
         /\ ApplySkippedUpdates(w).applied \in SUBSET P
<1> DEFINE s == SetWaitingForSkipped(w, FALSE)
<1>1. s \in Waiters(P)
  BY DEF Waiters, SetWaitingForSkipped
<1>2. [s EXCEPT !.queue = {}] \in Waiters(P)
  BY <1>1 DEF Waiters
<1>3. w.queue \in SUBSET P
  BY DEF Waiters
<1> QED
  BY <1>2, <1>3 DEF ApplySkippedUpdates

\* Both ways to feed the waiter return a waiter and what they applied.
LEMMA UpdateAndApplyType ==
  ASSUME NEW P \in SUBSET Nat, NEW w \in Waiters(P), NEW pts \in P, NEW count \in Nat
  PROVE  /\ UpdateAndApply(w, pts, count).waiter \in Waiters(P)
         /\ UpdateAndApply(w, pts, count).applied \in SUBSET P
         /\ UpdateApplied(w, pts, count).waiter \in Waiters(P)
         /\ UpdateApplied(w, pts, count).applied \in SUBSET P
<1> DEFINE u == Updated(w, pts, count, {pts})
           v == Updated(w, pts, count, {})
           q == [u EXCEPT !.queue = u.queue \cup {pts}]
<1>1. u \in Waiters(P) /\ v \in Waiters(P)
  BY UpdatedType
<1>2. q \in Waiters(P)
  BY <1>1 DEF Waiters
<1>3. /\ ApplySkippedUpdates(q).waiter \in Waiters(P)
      /\ ApplySkippedUpdates(q).applied \in SUBSET P
      /\ ApplySkippedUpdates(v).waiter \in Waiters(P)
      /\ ApplySkippedUpdates(v).applied \in SUBSET P
  BY <1>1, <1>2, ApplySkippedType
<1> HIDE DEF u, v, q
<1>4. /\ UpdateAndApply(w, pts, count).waiter \in Waiters(P)
      /\ UpdateAndApply(w, pts, count).applied \in SUBSET P
  BY <1>1, <1>3 DEF UpdateAndApply, u, q
<1>5. /\ UpdateApplied(w, pts, count).waiter \in Waiters(P)
      /\ UpdateApplied(w, pts, count).applied \in SUBSET P
  BY <1>1, <1>3 DEF UpdateApplied, v
<1> QED
  BY <1>4, <1>5

-----------------------------------------------------------------------------
(***************************************************************************)
(* What an update does to the waiter, case by case.  w is the waiter       *)
(* before it, v after.                                                     *)
(***************************************************************************)

\* What is queued waits for a gap; it is dropped when a difference is asked.
Steady(w) ==
  /\ w.requesting => w.queue = {}
  /\ w.queue # {} => w.waitingForSkipped /\ w.good > 0

\* The update was the first one of the box.
Started(v, pts) ==
  /\ v.good = pts /\ v.last = pts /\ v.count = pts
  /\ v.queue = {} /\ v.requesting = FALSE

\* A gap: the numbers move, "good" does not, the timer is armed.
GapOpened(w, v, pts, count) ==
  /\ v.last = Later(w.last, pts) /\ v.count = w.count + count
  /\ v.last # v.count
  /\ v.good = w.good /\ v.requesting = FALSE
  /\ v.waitingForSkipped /\ v.timer

\* No gap: "good" reaches "last" and nothing is queued any more.
GapClosed(w, v, pts, count) ==
  /\ v.last = Later(w.last, pts) /\ v.count = w.count + count
  /\ v.last = v.count /\ v.good = v.last
  /\ v.queue = {} /\ v.requesting = FALSE

\* A pts was heard that is no update: the gap stays, nothing is queued.
GapPassed(w, v, pts) ==
  /\ v.last = Later(w.last, pts) /\ v.count = w.count
  /\ v.last # v.count /\ v.good = w.good
  /\ v.queue = {} /\ v.requesting = FALSE

\* The timer of a poll is not taken away.
PollStays(w, v) ==
  /\ v.waitingForShortPoll = w.waitingForShortPoll
  /\ w.timer /\ w.waitingForShortPoll => v.timer

\* An update with its data turned w into v, and "done" was applied.
FedInto(w, v, done, pts, count) ==
  /\ PollStays(w, v)
  /\ \/ w.requesting /\ v = w /\ done = {pts}
     \/ ~w.requesting /\ pts <= w.good /\ v = w /\ done = {}
     \/ ~w.requesting /\ w.good = 0 /\ pts > 0 /\ Started(v, pts) /\ done = {pts}
     \/ /\ ~w.requesting /\ w.good > 0 /\ pts > w.good
        /\ GapClosed(w, v, pts, count) /\ done = w.queue \cup {pts}
     \/ /\ ~w.requesting /\ w.good > 0 /\ pts > w.good
        /\ GapOpened(w, v, pts, count)
        /\ done = {} /\ v.queue = w.queue \cup {pts}

\* The same of a pts without data (count = 0: of no update at all).
AppliedInto(w, v, done, pts, count) ==
  /\ PollStays(w, v)
  /\ \/ /\ w.requesting /\ done = {}
        /\ v.queue = {} /\ v.requesting = TRUE
        /\ v.good = w.good /\ v.last = w.last /\ v.count = w.count
     \/ ~w.requesting /\ count > 0 /\ pts <= w.good /\ v = w /\ done = {}
     \/ /\ ~w.requesting /\ w.good = 0 /\ (count > 0 => pts > 0)
        /\ Started(v, pts) /\ done = {}
     \/ /\ ~w.requesting /\ w.good > 0 /\ (count > 0 => pts > w.good)
        /\ GapClosed(w, v, pts, count) /\ done = w.queue
     \/ /\ ~w.requesting /\ w.good > 0 /\ count = 0
        /\ GapPassed(w, v, pts) /\ done = w.queue
     \/ /\ ~w.requesting /\ w.good > 0 /\ count > 0 /\ pts > w.good
        /\ GapOpened(w, v, pts, count)
        /\ done = {} /\ v.queue = w.queue

\* PtsWaiter::check of a waiter that has a pts closes the gap, or counts and
\* arms the timer.
LEMMA CheckOutcome ==
  ASSUME NEW P \in SUBSET Nat, NEW w \in Waiters(P), NEW pts \in P, NEW count \in Nat,
         w.good > 0
  PROVE  LET v == Check(w, pts, count) IN
         /\ v \in Waiters(P) /\ PollStays(w, v)
         /\ v.last = Later(w.last, pts) /\ v.count = w.count + count
         /\ v.queue = w.queue /\ v.requesting = w.requesting
         /\ \/ /\ v.last = v.count /\ v.good = v.last
               /\ v.waitingForSkipped = w.waitingForSkipped
            \/ v.last # v.count /\ v.good = w.good /\ v.waitingForSkipped /\ v.timer
         /\ CheckAccepts(w, pts, count) <=> (v.last = v.count \/ count = 0)
<1> DEFINE c == Counted(w, pts, count)
<1>1. /\ c.last = Later(w.last, pts) /\ c.count = w.count + count
      /\ c.good = w.good /\ c.queue = w.queue /\ c.requesting = w.requesting
      /\ c.waitingForSkipped = w.waitingForSkipped /\ c.timer = w.timer
      /\ c.waitingForShortPoll = w.waitingForShortPoll
  BY DEF Counted, Waiters
<1>2. c \in Waiters(P)
  BY WaiterType
<1>3. CASE Closes(c)
  <2> DEFINE v == [c EXCEPT !.good = c.last]
  <2>1. Check(w, pts, count) = v
    BY <1>3 DEF Check, Inited
  <2>2. CheckAccepts(w, pts, count)
    BY <1>3 DEF CheckAccepts
  <2>3. /\ v.last = c.last /\ v.count = c.count /\ v.good = c.last /\ v.queue = c.queue
        /\ v.requesting = c.requesting /\ v.waitingForSkipped = c.waitingForSkipped
        /\ v.timer = c.timer /\ v.waitingForShortPoll = c.waitingForShortPoll
        /\ v \in Waiters(P)
    BY <1>2 DEF Waiters
  <2>4. v.last = v.count
    BY <1>3, <2>3 DEF Closes
  <2> HIDE DEF v, c
  <2> QED
    BY <1>1, <2>1, <2>2, <2>3, <2>4 DEF PollStays
<1>4. CASE ~Closes(c)
  <2> DEFINE v == SetWaitingForSkipped(c, TRUE)
  <2>1. Check(w, pts, count) = v
    BY <1>4 DEF Check, Inited
  <2>2. CheckAccepts(w, pts, count) <=> count = 0
    BY <1>4 DEF CheckAccepts, Inited
  <2>3. /\ v.last = c.last /\ v.count = c.count /\ v.good = c.good /\ v.queue = c.queue
        /\ v.requesting = c.requesting /\ v.waitingForSkipped /\ v.timer
        /\ v.waitingForShortPoll = c.waitingForShortPoll
    BY <1>2 DEF Waiters, SetWaitingForSkipped
  <2>4. v \in Waiters(P)
    BY <1>2 DEF Waiters, SetWaitingForSkipped
  <2>5. v.last # v.count
    BY <1>4, <2>3 DEF Closes
  <2> HIDE DEF v, c
  <2> QED
    BY <1>1, <2>1, <2>2, <2>3, <2>4, <2>5 DEF PollStays
<1> QED
  BY <1>3, <1>4

\* Applying the skipped updates empties the queue and keeps the numbers.
LEMMA ApplySkippedOutcome ==
  ASSUME NEW P \in SUBSET Nat, NEW w \in Waiters(P), w.queue # {} => w.waitingForSkipped
  PROVE  LET d == ApplySkippedUpdates(w) IN
         /\ d.applied = w.queue /\ d.waiter.queue = {}
         /\ d.waiter.good = w.good /\ d.waiter.last = w.last
         /\ d.waiter.count = w.count /\ d.waiter.requesting = w.requesting
         /\ PollStays(w, d.waiter)
<1>1. CASE ~w.waitingForSkipped
  BY <1>1 DEF ApplySkippedUpdates, PollStays
<1>2. CASE w.waitingForSkipped
  <2> DEFINE v == SetWaitingForSkipped(w, FALSE)
             u == [v EXCEPT !.queue = {}]
  <2>1. /\ v.good = w.good /\ v.last = w.last
        /\ v.count = w.count /\ v.requesting = w.requesting
        /\ v.waitingForShortPoll = w.waitingForShortPoll
        /\ w.timer /\ w.waitingForShortPoll => v.timer
    BY DEF SetWaitingForSkipped, Waiters
  <2>2. v \in Waiters(P)
    BY DEF SetWaitingForSkipped, Waiters
  <2>3. ApplySkippedUpdates(w) = [waiter |-> u, applied |-> w.queue]
    BY <1>2 DEF ApplySkippedUpdates
  <2> HIDE DEF v
  <2>4. /\ u.good = v.good /\ u.last = v.last /\ u.count = v.count
        /\ u.requesting = v.requesting /\ u.waitingForShortPoll = v.waitingForShortPoll
        /\ u.timer = v.timer /\ u.queue = {}
    BY <2>2 DEF Waiters
  <2> HIDE DEF u
  <2>5. ApplySkippedUpdates(w).waiter = u /\ ApplySkippedUpdates(w).applied = w.queue
    BY <2>3
  <2> QED
    BY <2>1, <2>4, <2>5 DEF PollStays
<1> QED
  BY <1>1, <1>2

\* The first pts a box hears of.
LEMMA StartOutcome ==
  ASSUME NEW P \in SUBSET Nat, NEW w \in Waiters(P), NEW pts \in P, w.good = 0,
         ~w.requesting
  PROVE  /\ Started(InitPts(w, pts), pts) /\ PollStays(w, InitPts(w, pts))
         /\ \A count : /\ Check(w, pts, count) = InitPts(w, pts)
                       /\ CheckAccepts(w, pts, count)
<1>1. Started(InitPts(w, pts), pts) /\ PollStays(w, InitPts(w, pts))
  BY DEF Started, PollStays, InitPts, Waiters
<1>2. ~Inited(w)
  BY DEF Inited
<1> QED
  BY <1>1, <1>2 DEF Check, CheckAccepts

\* An update fed with its data is applied while the difference is asked, is
\* dropped as old, starts the box, closes the gap with the queue, or opens one.
LEMMA FeedOutcome ==
  ASSUME NEW P \in SUBSET Nat, NEW w \in Waiters(P), Steady(w), NEW pts \in P,
         NEW count \in Nat, count # 0
  PROVE  LET d == UpdateAndApply(w, pts, count)
         IN  FedInto(w, d.waiter, d.applied, pts, count)
<1> USE DEF FedInto
<1> DEFINE d == UpdateAndApply(w, pts, count)
           c == Check(w, pts, count)
<1>1. CASE w.requesting
  <2>1. Updated(w, pts, count, {pts}) = w /\ UpdatedAccepts(w, pts, count)
    BY <1>1 DEF Updated, UpdatedAccepts
  <2> QED
    BY <1>1, <2>1 DEF UpdateAndApply, Steady, PollStays
<1>2. CASE ~w.requesting /\ pts <= w.good
  <2>1. Updated(w, pts, count, {pts}) = w /\ ~UpdatedAccepts(w, pts, count)
    BY <1>2 DEF Updated, UpdatedAccepts, Covered
  <2> QED
    BY <1>2, <2>1 DEF UpdateAndApply, PollStays
<1>3. CASE ~w.requesting /\ ~(pts <= w.good)
  <2>1. /\ pts > w.good /\ w.good \in Nat /\ ~Covered(w, pts, count)
    <3>1. w.good \in Nat /\ pts \in Nat
      BY DEF Waiters
    <3> QED
      BY <1>3, <3>1 DEF Covered
  <2>2. CASE w.good = 0
    <3>1. c = InitPts(w, pts) /\ CheckAccepts(w, pts, count)
          /\ Started(c, pts) /\ PollStays(w, c)
      BY <1>3, <2>2, StartOutcome
    <3>2. Updated(w, pts, count, {pts}) = c /\ UpdatedAccepts(w, pts, count)
      BY <1>3, <2>1, <3>1 DEF Updated, UpdatedAccepts
    <3>3. d = [waiter |-> c, applied |-> {pts}]
      BY <3>1, <3>2 DEF UpdateAndApply, Started
    <3> QED
      BY <1>3, <2>1, <2>2, <3>1, <3>3
  <2>3. CASE w.good > 0 /\ CheckAccepts(w, pts, count)
    <3> DEFINE q == [c EXCEPT !.queue = c.queue \cup {pts}]
    <3>1. Updated(w, pts, count, {pts}) = c /\ UpdatedAccepts(w, pts, count)
      BY <1>3, <2>1, <2>3 DEF Updated, UpdatedAccepts
    <3>2. /\ c \in Waiters(P) /\ PollStays(w, c)
          /\ c.last = Later(w.last, pts) /\ c.count = w.count + count
          /\ c.queue = w.queue /\ c.requesting = FALSE /\ c.last = c.count
          /\ c.last = c.good \/ c.waitingForSkipped
      <4>1. w.requesting = FALSE
        BY <1>3 DEF Waiters
      <4> HIDE DEF c
      <4> QED
        BY <2>3, <4>1, CheckOutcome DEF c
    <3>3. c.good = c.last /\ (c.waitingForSkipped <=> w.waitingForSkipped)
      <4> HIDE DEF c
      <4> QED
        BY <2>3, <3>2, CheckOutcome DEF c
    <3> HIDE DEF c, d
    <3>4. CASE ~c.waitingForSkipped \/ c.queue = {}
      <4>1. d = [waiter |-> c, applied |-> {pts}]
        BY <3>1, <3>4 DEF UpdateAndApply, d
      <4>2. w.queue = {}
        BY <3>2, <3>3, <3>4 DEF Steady
      <4> QED
        BY <1>3, <2>1, <2>3, <3>2, <3>3, <4>1, <4>2 DEF GapClosed, d
    <3>5. CASE ~(~c.waitingForSkipped \/ c.queue = {})
      <4>1. d = ApplySkippedUpdates(q)
        BY <3>1, <3>5 DEF UpdateAndApply, d
      <4>2. /\ q \in Waiters(P) /\ q.waitingForSkipped
            /\ q.queue = w.queue \cup {pts} /\ q.last = c.last
            /\ q.count = c.count /\ q.good = c.good /\ q.requesting = c.requesting
            /\ q.timer = c.timer /\ q.waitingForShortPoll = c.waitingForShortPoll
        BY <3>2, <3>5 DEF Waiters
      <4> HIDE DEF q
      <4>3. /\ d.applied = q.queue /\ d.waiter.queue = {}
            /\ d.waiter.good = q.good /\ d.waiter.last = q.last
            /\ d.waiter.count = q.count /\ d.waiter.requesting = q.requesting
            /\ PollStays(q, d.waiter)
        BY <4>1, <4>2, ApplySkippedOutcome
      <4>4. PollStays(w, d.waiter)
        BY <3>2, <4>2, <4>3 DEF PollStays
      <4>5. GapClosed(w, d.waiter, pts, count)
        BY <3>2, <3>3, <4>2, <4>3 DEF GapClosed
      <4> QED
        BY <1>3, <2>1, <2>3, <4>2, <4>3, <4>4, <4>5 DEF d
    <3> QED
      BY <3>4, <3>5
  <2>4. CASE w.good > 0 /\ ~CheckAccepts(w, pts, count)
    <3> DEFINE u == [c EXCEPT !.queue = c.queue \cup {pts}]
    <3>1. d = [waiter |-> u, applied |-> {}]
      BY <1>3, <2>1, <2>4 DEF Updated, UpdatedAccepts, UpdateAndApply
    <3>2. /\ c \in Waiters(P) /\ PollStays(w, c)
          /\ c.last = Later(w.last, pts) /\ c.count = w.count + count
          /\ c.queue = w.queue /\ c.requesting = FALSE /\ c.last # c.count
      <4>1. w.requesting = FALSE
        BY <1>3 DEF Waiters
      <4> HIDE DEF c
      <4> QED
        BY <2>4, <4>1, CheckOutcome DEF c
    <3>3. c.good = w.good /\ c.waitingForSkipped /\ c.timer
      <4> HIDE DEF c
      <4> QED
        BY <2>4, <3>2, CheckOutcome DEF c
    <3>4. /\ u.last = c.last /\ u.count = c.count /\ u.good = c.good
          /\ u.requesting = c.requesting /\ u.timer = c.timer
          /\ u.waitingForSkipped = c.waitingForSkipped
          /\ u.waitingForShortPoll = c.waitingForShortPoll
          /\ u.queue = w.queue \cup {pts}
      BY <3>2 DEF Waiters
    <3> HIDE DEF c, u, d
    <3>5. d.waiter = u /\ d.applied = {}
      BY <3>1
    <3>6. GapOpened(w, u, pts, count) /\ PollStays(w, u)
      BY <3>2, <3>3, <3>4 DEF GapOpened, PollStays
    <3> QED
      BY <1>3, <2>1, <2>4, <3>4, <3>5, <3>6 DEF d
  <2> QED
    BY <2>1, <2>2, <2>3, <2>4
<1> QED
  BY <1>1, <1>2, <1>3

\* The same for a pts whose effect is in the data already, or that stands for
\* no update (count = 0).
LEMMA AppliedOutcome ==
  ASSUME NEW P \in SUBSET Nat, NEW w \in Waiters(P), Steady(w), NEW pts \in P,
         NEW count \in Nat
  PROVE  LET d == UpdateApplied(w, pts, count)
         IN  AppliedInto(w, d.waiter, d.applied, pts, count)
<1> USE DEF AppliedInto
<1> DEFINE d == UpdateApplied(w, pts, count)
           c == Check(w, pts, count)
<1>1. CASE w.requesting
  <2>1. d = ApplySkippedUpdates(w)
    BY <1>1 DEF Updated, UpdatedAccepts, UpdateApplied
  <2>2. w.queue = {} /\ w.requesting = TRUE
    BY <1>1 DEF Steady, Waiters
  <2> HIDE DEF d
  <2> QED
    BY <1>1, <2>1, <2>2, ApplySkippedOutcome DEF d
<1>2. CASE ~w.requesting /\ count > 0 /\ pts <= w.good
  <2>1. Updated(w, pts, count, {}) = w /\ ~UpdatedAccepts(w, pts, count)
    BY <1>2 DEF Updated, UpdatedAccepts, Covered
  <2> QED
    BY <1>2, <2>1 DEF UpdateApplied, PollStays
<1>3. CASE ~w.requesting /\ ~(count > 0 /\ pts <= w.good)
  <2>1. /\ count > 0 => pts > w.good
        /\ w.good \in Nat /\ ~Covered(w, pts, count) /\ w.requesting = FALSE
    <3>1. w.good \in Nat /\ pts \in Nat /\ w.requesting = FALSE
      BY <1>3 DEF Waiters
    <3> QED
      BY <1>3, <3>1 DEF Covered
  <2>2. CASE w.good = 0
    <3>1. c = InitPts(w, pts) /\ CheckAccepts(w, pts, count)
          /\ Started(c, pts) /\ PollStays(w, c)
      BY <1>3, <2>2, StartOutcome
    <3>2. d = ApplySkippedUpdates(c)
      BY <1>3, <2>1, <3>1 DEF Updated, UpdatedAccepts, UpdateApplied
    <3>3. c \in Waiters(P)
      BY CheckType
    <3> HIDE DEF c, d
    <3>4. /\ d.applied = {} /\ Started(d.waiter, pts) /\ PollStays(w, d.waiter)
      BY <3>1, <3>2, <3>3, ApplySkippedOutcome DEF Started, PollStays
    <3> QED
      BY <2>1, <2>2, <3>4 DEF d
  <2>3. CASE w.good > 0 /\ CheckAccepts(w, pts, count)
    <3>1. d = ApplySkippedUpdates(c)
      BY <1>3, <2>1, <2>3 DEF Updated, UpdatedAccepts, UpdateApplied
    <3> HIDE DEF c
    <3>2. /\ c \in Waiters(P) /\ PollStays(w, c)
          /\ c.last = Later(w.last, pts) /\ c.count = w.count + count
          /\ c.queue = w.queue /\ c.requesting = FALSE
          /\ c.last = c.count \/ count = 0
      BY <2>1, <2>3, CheckOutcome DEF c
    <3>3. \/ c.last = c.count /\ c.good = c.last
             /\ c.waitingForSkipped = w.waitingForSkipped
          \/ c.last # c.count /\ c.good = w.good /\ c.waitingForSkipped
      BY <2>3, CheckOutcome DEF c
    <3>4. c.queue # {} => c.waitingForSkipped
      BY <3>2, <3>3 DEF Steady
    <3> HIDE DEF d
    <3>5. /\ d.applied = w.queue /\ d.waiter.queue = {}
          /\ d.waiter.good = c.good /\ d.waiter.last = c.last
          /\ d.waiter.count = c.count /\ d.waiter.requesting = FALSE
          /\ PollStays(c, d.waiter)
      BY <3>1, <3>2, <3>4, ApplySkippedOutcome
    <3>6. PollStays(w, d.waiter)
      BY <3>2, <3>5 DEF PollStays
    <3>7. CASE c.last = c.count
      <4>1. GapClosed(w, d.waiter, pts, count)
        BY <3>2, <3>3, <3>5, <3>7 DEF GapClosed
      <4> QED
        BY <2>1, <2>3, <3>5, <3>6, <4>1 DEF d
    <3>8. CASE c.last # c.count
      <4>1. count = 0 /\ w.count + count = w.count
        BY <3>2, <3>8 DEF Waiters
      <4>2. GapPassed(w, d.waiter, pts)
        BY <3>2, <3>3, <3>5, <3>8, <4>1 DEF GapPassed
      <4> QED
        BY <2>1, <2>3, <3>5, <3>6, <4>1, <4>2 DEF d
    <3> QED
      BY <3>7, <3>8
  <2>4. CASE w.good > 0 /\ ~CheckAccepts(w, pts, count)
    <3> DEFINE u == [c EXCEPT !.queue = c.queue \cup {}]
    <3>1. d = [waiter |-> u, applied |-> {}]
      BY <1>3, <2>1, <2>4 DEF Updated, UpdatedAccepts, UpdateApplied
    <3> HIDE DEF c
    <3>2. /\ c \in Waiters(P) /\ PollStays(w, c)
          /\ c.last = Later(w.last, pts) /\ c.count = w.count + count
          /\ c.queue = w.queue /\ c.requesting = FALSE /\ c.last # c.count
          /\ count # 0
      BY <2>1, <2>4, CheckOutcome DEF c
    <3>3. c.good = w.good /\ c.waitingForSkipped /\ c.timer
      BY <2>4, <3>2, CheckOutcome DEF c
    <3>4. /\ u.last = c.last /\ u.count = c.count /\ u.good = c.good
          /\ u.requesting = c.requesting /\ u.timer = c.timer
          /\ u.waitingForSkipped = c.waitingForSkipped
          /\ u.waitingForShortPoll = c.waitingForShortPoll
          /\ u.queue = w.queue
      BY <3>2 DEF Waiters
    <3> HIDE DEF u, d
    <3>5. d.waiter = u /\ d.applied = {}
      BY <3>1
    <3>6. GapOpened(w, u, pts, count) /\ PollStays(w, u)
      BY <3>2, <3>3, <3>4 DEF GapOpened, PollStays
    <3>7. count > 0
      BY <3>2
    <3> QED
      BY <2>1, <2>4, <3>4, <3>5, <3>6, <3>7 DEF d
  <2>5. w.good = 0 \/ w.good > 0
    BY <2>1
  <2> HIDE DEF c, d
  <2> QED
    BY <2>2, <2>3, <2>4, <2>5
<1> QED
  BY <1>1, <1>2, <1>3

-----------------------------------------------------------------------------
(***************************************************************************)
(* The arithmetic of the waiter: the pts that a set of events takes.       *)
(***************************************************************************)

\* An event takes as many pts as its count says.
LEMMA SpanSize ==
  ASSUME NEW L, NEW top, Follow(L, top), NEW e \in L
  PROVE  IsFiniteSet(Span(e)) /\ Cardinality(Span(e)) = e.count
<1>1. /\ e.pts \in Int /\ e.pts - e.count + 1 \in Int
      /\ ~(e.pts - e.count + 1 > e.pts) /\ e.pts - (e.pts - e.count + 1) + 1 = e.count
  BY DEF Follow
<1> QED
  BY <1>1, FS_Interval DEF Span

\* A set of events takes finitely many pts.
LEMMA SpanFinite ==
  ASSUME NEW L, NEW top, Follow(L, top), NEW S
  PROVE  /\ IsFiniteSet(SpanOf(L, S)) /\ SpanOf(L, S) \subseteq Nat
         /\ Cardinality(SpanOf(L, S)) \in Nat
<1>1. SpanOf(L, S) \subseteq 1 .. top
  BY DEF SpanOf, Span, Follow
<1>2. IsFiniteSet(1 .. top) /\ 1 .. top \subseteq Nat
  BY FS_Interval DEF Follow
<1> QED
  BY <1>1, <1>2, FS_Subset, FS_CardinalityType

\* A pts is taken by one event only.
LEMMA SpansApart ==
  ASSUME NEW L, NEW top, Follow(L, top), NEW e \in L, NEW f \in L,
         NEW x \in Span(e), x \in Span(f)
  PROVE  e = f
<1>1. /\ e.pts \in Nat /\ e.count \in Nat /\ f.pts \in Nat /\ f.count \in Nat
  BY DEF Follow
<1>2. /\ e.pts - e.count < x /\ x <= e.pts
      /\ f.pts - f.count < x /\ x <= f.pts /\ x \in Int
  BY <1>1 DEF Span
<1>3. ~(e.pts < f.pts) /\ ~(f.pts < e.pts)
  BY <1>1, <1>2 DEF Follow
<1> QED
  BY <1>1, <1>3 DEF Follow

\* One event more takes its own count of pts more: spans never meet.
LEMMA SpanAdd ==
  ASSUME NEW L, NEW top, Follow(L, top), NEW e \in L, NEW S, e.pts \notin S
  PROVE  /\ SpanOf(L, S \cup {e.pts}) = SpanOf(L, S) \cup Span(e)
         /\ Cardinality(SpanOf(L, S \cup {e.pts})) = Cardinality(SpanOf(L, S)) + e.count
<1>1. \A f \in L : f.pts = e.pts => f = e
  BY DEF Follow
<1>2. SpanOf(L, S \cup {e.pts}) = SpanOf(L, S) \cup Span(e)
  BY <1>1 DEF SpanOf
<1>3. SpanOf(L, S) \cap Span(e) = {}
  <2> SUFFICES ASSUME NEW x \in SpanOf(L, S), x \in Span(e)
               PROVE  FALSE
    OBVIOUS
  <2>1. PICK f \in L : f.pts \in S /\ x \in Span(f)
    BY DEF SpanOf
  <2>2. e = f
    BY <2>1, SpansApart
  <2> QED
    BY <2>1, <2>2
<1>4. Cardinality({}) = 0
  BY FS_EmptySet
<1>5. /\ IsFiniteSet(SpanOf(L, S)) /\ IsFiniteSet(Span(e))
      /\ Cardinality(SpanOf(L, S)) \in Nat /\ Cardinality(Span(e)) = e.count
      /\ e.count \in Nat
  BY SpanFinite, SpanSize DEF Follow
<1>6. Cardinality(SpanOf(L, S) \cup Span(e)) = Cardinality(SpanOf(L, S)) + Cardinality(Span(e))
  <2>1. Cardinality(SpanOf(L, S) \cup Span(e)) =
          Cardinality(SpanOf(L, S)) + Cardinality(Span(e))
            - Cardinality(SpanOf(L, S) \cap Span(e))
    BY <1>5, FS_Union
  <2>2. Cardinality(SpanOf(L, S) \cap Span(e)) = 0
    BY <1>3, <1>4
  <2> QED
    BY <1>5, <2>1, <2>2
<1> QED
  BY <1>2, <1>5, <1>6

(***************************************************************************)
(* The heart of the matter: when "count" has reached "last", every event   *)
(* between "good" and "last" was counted.                                  *)
(***************************************************************************)
LEMMA NothingMissing ==
  ASSUME NEW L, NEW top, Follow(L, top), NEW S, NEW good \in Nat, NEW last \in Nat,
         Between(L, good), \A p \in S : good < p /\ p <= last,
         last = good + Cardinality(SpanOf(L, S)),
         NEW e \in L, good < e.pts, e.pts <= last
  PROVE  e.pts \in S
<1>0. \A f \in L : f.pts \in Nat /\ f.count \in Nat /\ f.count > 0
  BY DEF Follow
<1>1. SpanOf(L, S) \subseteq (good + 1) .. last
  <2> SUFFICES ASSUME NEW f \in L, f.pts \in S, NEW x \in Span(f)
               PROVE  x \in (good + 1) .. last
    BY DEF SpanOf
  <2>1. f.pts - f.count < x /\ x <= f.pts /\ x \in Int
    BY <1>0 DEF Span
  <2>2. good <= f.pts - f.count /\ f.pts <= last
    BY <1>0 DEF Between
  <2> QED
    BY <1>0, <2>1, <2>2
<1>2. Cardinality(SpanOf(L, S)) \in Nat
  BY SpanFinite
<1>3. IsFiniteSet((good + 1) .. last) /\ Cardinality((good + 1) .. last) = last - good
  <2>1. good <= last
    BY <1>2
  <2>2. good + 1 \in Int /\ last \in Int
    OBVIOUS
  <2>3. /\ IsFiniteSet((good + 1) .. last)
        /\ Cardinality((good + 1) .. last) =
             IF good + 1 > last THEN 0 ELSE last - (good + 1) + 1
    BY <2>2, FS_Interval
  <2> QED
    BY <2>1, <2>3
<1>4. Cardinality(SpanOf(L, S)) = last - good
  BY <1>2
<1>5. SpanOf(L, S) = (good + 1) .. last
  BY <1>1, <1>3, <1>4, FS_Subset
<1>6. e.pts \in SpanOf(L, S)
  <2>1. e.pts \in Nat
    BY <1>0
  <2>2. e.pts \in (good + 1) .. last
    BY <2>1
  <2> QED
    BY <1>5, <2>2
<1>7. PICK f \in L : f.pts \in S /\ e.pts \in Span(f)
  BY <1>6 DEF SpanOf
<1>8. e.pts \in Span(e)
  BY <1>0 DEF Span
<1>9. e = f
  BY <1>7, <1>8, SpansApart
<1> QED
  BY <1>7, <1>9
=============================================================================
