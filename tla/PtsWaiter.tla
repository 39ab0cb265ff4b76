----------------------------- MODULE PtsWaiter -----------------------------
(***************************************************************************)
(* The gap detector of one update box (data/data_pts_waiter.{h,cpp}): the  *)
(* common box of an account or the box of one channel.                     *)
(*                                                                         *)
(* A waiter is a record, and every method is an operator from a waiter to  *)
(* the waiter it leaves, so that the modules that own waiters (Updates,    *)
(* ChannelUpdates) can call several methods in one handler.  An update is  *)
(* known by its pts: two updates of one box never share one.  "timer" is   *)
(* the entry of this box in the owner's by-pts timetable                   *)
(* (_getDifferenceTimeByPts, or _whenGetDiffByPts[channel]); how long it   *)
(* is armed for (1 ms or 1 s) is not told apart.  _applySkippedLevel is    *)
(* only positive inside applySkippedUpdates, which is one step here.       *)
(***************************************************************************)
EXTENDS Integers

Waiters(Pts) == [ good : Pts, last : Pts, count : Nat, queue : SUBSET Pts,
                  requesting : BOOLEAN, waitingForSkipped : BOOLEAN,
                  waitingForShortPoll : BOOLEAN, timer : BOOLEAN ]

Fresh == [ good |-> 0, last |-> 0, count |-> 0, queue |-> {},
           requesting |-> FALSE, waitingForSkipped |-> FALSE,
           waitingForShortPoll |-> FALSE, timer |-> FALSE ]

InitPts(w, pts) == [w EXCEPT !.good = pts, !.last = pts, !.count = pts, !.queue = {}]

Inited(w) == w.good > 0

SetRequesting(w, isRequesting) ==
  [w EXCEPT !.requesting = isRequesting,
            !.queue = IF isRequesting THEN {} ELSE w.queue]

(***************************************************************************)
(* Both setters arm the one timer they share, and only the last waiting    *)
(* reason to go disarms it (checkForWaiting).                              *)
(***************************************************************************)
SetWaitingForSkipped(w, waits) ==
  [w EXCEPT !.waitingForSkipped = waits,
            !.timer = waits \/ (w.timer /\ w.waitingForShortPoll)]

SetWaitingForShortPollAlone(w, waits) ==  \* mistake: takes the gap's timer too
  [w EXCEPT !.waitingForShortPoll = waits, !.timer = waits]

SetWaitingForShortPoll(w, waits) ==
  [w EXCEPT !.waitingForShortPoll = waits,
            !.timer = waits \/ (w.timer /\ w.waitingForSkipped)]

-----------------------------------------------------------------------------
(***************************************************************************)
(* check(): counts the update in, and moves "good" when nothing is missing *)
(* up to the largest pts seen.                                             *)
(***************************************************************************)
Later(a, b) == IF a > b THEN a ELSE b

CountedDown(w, pts, count) ==  \* mistake: the sign of the count
  [w EXCEPT !.last = Later(w.last, pts), !.count = w.count - count]

Counted(w, pts, count) ==
  [w EXCEPT !.last = Later(w.last, pts), !.count = w.count + count]

Closes(w) == w.last = w.count

Check(w, pts, count) ==
  LET c == Counted(w, pts, count)
  IN  IF ~Inited(w) THEN InitPts(w, pts)
      ELSE IF Closes(c) THEN [c EXCEPT !.good = c.last]
      ELSE SetWaitingForSkipped(c, TRUE)

CheckAcceptsAny(w, pts, count) == count >= 0  \* mistake: a gap does not hold back

CheckAccepts(w, pts, count) ==
  \/ ~Inited(w)
  \/ Closes(Counted(w, pts, count))
  \/ count = 0

(***************************************************************************)
(* updated(): an update already covered is dropped, any other is counted,  *)
(* and one that may not be applied yet is queued if it has a payload.      *)
(***************************************************************************)
CoveredBefore(w, pts, count) == pts < w.good /\ count > 0  \* mistake: off by one

Covered(w, pts, count) == pts <= w.good /\ count > 0

UpdatedAccepts(w, pts, count) ==
  w.requesting \/ (~Covered(w, pts, count) /\ CheckAccepts(w, pts, count))

Updated(w, pts, count, payload) ==
  IF w.requesting \/ Covered(w, pts, count) THEN w
  ELSE LET c == Check(w, pts, count)
       IN  IF CheckAccepts(w, pts, count) THEN c
           ELSE [c EXCEPT !.queue = c.queue \cup payload]

(***************************************************************************)
(* applySkippedUpdates(): outcome records of a call, the waiter it leaves  *)
(* and the updates it hands to the owner to apply.                         *)
(***************************************************************************)
ApplySkippedKeepsQueue(w) ==  \* mistake: what was applied stays queued
  IF ~w.waitingForSkipped THEN [waiter |-> w, applied |-> {}]
  ELSE [waiter |-> SetWaitingForSkipped(w, FALSE), applied |-> w.queue]

ApplySkippedUpdates(w) ==
  IF ~w.waitingForSkipped THEN [waiter |-> w, applied |-> {}]
  ELSE [ waiter  |-> [SetWaitingForSkipped(w, FALSE) EXCEPT !.queue = {}],
         applied |-> w.queue ]

(***************************************************************************)
(* updateAndApply() of an update with a payload, and of one whose effect   *)
(* the caller has already applied.                                         *)
(***************************************************************************)
UpdateAndApply(w, pts, count) ==
  LET u == Updated(w, pts, count, {pts})
  IN  IF ~UpdatedAccepts(w, pts, count) THEN [waiter |-> u, applied |-> {}]
      ELSE IF ~u.waitingForSkipped \/ u.queue = {}
        THEN [waiter |-> u, applied |-> {pts}]
        ELSE ApplySkippedUpdates([u EXCEPT !.queue = u.queue \cup {pts}])

UpdateAppliedAlone(w, pts, count) ==  \* mistake: the queue is left alone
  [waiter |-> Updated(w, pts, count, {}), applied |-> {}]

UpdateApplied(w, pts, count) ==
  LET u == Updated(w, pts, count, {})
  IN  IF ~UpdatedAccepts(w, pts, count) THEN [waiter |-> u, applied |-> {}]
      ELSE ApplySkippedUpdates(u)
=============================================================================
