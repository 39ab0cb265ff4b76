---------------------------- MODULE UpdatesProofs ----------------------------
(***************************************************************************)
(* Theorems about the common update box, for every log, every bound and    *)
(* every interleaving.  They rest on what the server is assumed to do in   *)
(* Updates (each event is pushed or answered at most once, in one session  *)
(* messages keep their order) and on the assumptions on the constants.     *)
(***************************************************************************)
EXTENDS UpdatesInvariant, PtsWaiterProofs, WellFoundedInduction, FiniteSetTheorems,
        SequenceTheorems, TLAPS

(***************************************************************************)
(* A set of naturals has a least element.  The sets of the elements up to  *)
(* one of them are finite and ordered by inclusion, which is well-founded; *)
(* a least one of these sets belongs to a least element.                   *)
(***************************************************************************)
LEMMA LeastExists ==
  ASSUME NEW S \in SUBSET Nat, S # {}
  PROVE  \E n \in S : \A m \in S : n <= m
<1> DEFINE D(x) == { y \in S : y <= x }
<1>1. \A x \in S : x \in Nat
  OBVIOUS
<1>2. /\ \A x \in S : D(x) \subseteq S
      /\ \A x \in S, y \in S : y \in D(x) <=> y <= x
  OBVIOUS
<1> HIDE DEF D
<1>3. ASSUME NEW x \in S
      PROVE  D(x) \in FiniteSubsetsOf(S)
  <2>1. D(x) \subseteq S /\ \A y \in D(x) : y \in Nat /\ y <= x
    BY <1>1, <1>2
  <2>2. IsFiniteSet(0 .. x)
    BY <1>1, FS_Interval
  <2>3. D(x) \subseteq 0 .. x
    BY <1>1, <2>1
  <2> QED
    BY <1>1, <2>1, <2>2, <2>3, FS_Subset DEF FiniteSubsetsOf
<1> DEFINE T == { D(x) : x \in S }
<1>4. T \subseteq FiniteSubsetsOf(S) /\ T # {}
  BY <1>3
<1>5. PICK least \in T : \A e \in T : ~(<<e, least>> \in StrictSubsetOrdering(S))
  <2> HIDE DEF T
  <2> QED
    BY <1>4, WFMin, FS_StrictSubsetOrderingWellFounded
<1>6. PICK n \in S : least = D(n)
  OBVIOUS
<1>7. ASSUME NEW m \in S, m < n
      PROVE  FALSE
  <2>1. D(m) \in T
    OBVIOUS
  <2>2. D(m) \in SUBSET S /\ D(n) \in SUBSET S
    BY <1>2
  <2>3. D(m) \subseteq D(n) /\ n \in D(n) /\ n \notin D(m)
    <3>1. m \in Nat /\ n \in Nat /\ m < n
      BY <1>1, <1>7
    <3>2. n \in D(n) /\ n \notin D(m)
      BY <3>1, <1>2
    <3>3. \A y \in S : y \in D(m) => y \in D(n)
      BY <3>1, <1>1, <1>2
    <3> QED
      BY <2>2, <3>2, <3>3
  <2>4. <<D(m), least>> \in StrictSubsetOrdering(S)
    BY <1>6, <2>2, <2>3 DEF StrictSubsetOrdering
  <2> QED
    BY <1>5, <2>1, <2>4
<1>8. \A m \in S : n <= m
  BY <1>1, <1>7
<1> QED
  BY <1>8

(***************************************************************************)
(* Type correctness.                                                       *)
(***************************************************************************)
LEMMA PtsAreNaturals == Pts \subseteq Nat /\ 0 \in Pts /\ FirstPts \in Pts
BY FirstPtsAssumption, MaxPtsAssumption DEF Pts

\* The initial states are typed.
LEMMA InitTypeOK == Init => TypeOK
<1> SUFFICES ASSUME Init PROVE TypeOK
  OBVIOUS
<1>1. waiter \in Waiters(Pts)
  BY PtsAreNaturals DEF Init, Fresh, SetRequesting, Waiters
<1>2. serverPts \in Pts /\ askedPts \in Pts
  BY PtsAreNaturals DEF Init
<1>3. net \in Seq(Messages)
  BY EmptySeq DEF Init
<1>4. serverSeq \in 0 .. MaxSeq /\ disturbances \in 0 .. MaxDisturbances
  BY BoundsAssumption DEF Init
<1>5. /\ log \subseteq [pts : Pts, count : Counts] /\ outbox \subseteq Messages
      /\ updatesSeq \in Nat /\ bySeqUpdates \subseteq 0 .. MaxSeq
      /\ bySeqTimer \in BOOLEAN /\ failTimer \in BOOLEAN /\ answered \in BOOLEAN
      /\ request \in {"none", "state", "difference"}
      /\ applied \subseteq Pts /\ early \subseteq Pts /\ pending \subseteq Pts
      /\ seqDone \subseteq Nat
  BY DEF Init
<1> QED
  BY <1>1, <1>2, <1>3, <1>4, <1>5 DEF TypeOK

\* Sending one more message of the right shape.
LEMMA SendType ==
  ASSUME TypeOK, NEW m \in Messages, Send(m)
  PROVE  net' \in Seq(Messages)
BY DEF TypeOK, Send

\* What is taken from the connection is a message, and the rest stays typed.
LEMMA ReceiveType ==
  ASSUME TypeOK, NEW K, Receive(K)
  PROVE  /\ Head(net) \in Messages
         /\ Head(net).pts \in Pts /\ Head(net).count \in Nat
         /\ Head(net).seq \in 0 .. MaxSeq
         /\ net' \in Seq(Messages)
         /\ UNCHANGED serverVars
<1>1. net \in Seq(Messages) /\ net # <<>>
  BY DEF TypeOK, Receive
<1>2. Head(net) \in Messages /\ Tail(net) \in Seq(Messages)
  BY <1>1, HeadTailProperties
<1> QED
  BY <1>2 DEF Receive, Messages

\* getDifference() leaves the request, its timers and the waiter typed.
LEMMA GetDifferenceType ==
  ASSUME TypeOK, NEW w \in Waiters(Pts), GetDifference(w)
  PROVE  /\ waiter' \in Waiters(Pts)
         /\ bySeqUpdates' \subseteq 0 .. MaxSeq /\ bySeqTimer' \in BOOLEAN
         /\ failTimer' \in BOOLEAN
         /\ request' \in {"none", "state", "difference"}
         /\ askedPts' \in Pts /\ answered' \in BOOLEAN
<1>1. [w EXCEPT !.timer = FALSE] \in Waiters(Pts)
  BY WaiterType, PtsAreNaturals
<1>2. SetRequesting([w EXCEPT !.timer = FALSE], TRUE) \in Waiters(Pts)
  BY <1>1, WaiterType, PtsAreNaturals
<1>3. w.good \in Pts
  BY DEF Waiters
<1> QED
  BY <1>1, <1>2, <1>3 DEF TypeOK, GetDifference, askVars

\* The seq reached after the queue is replayed is a number.
LEMMA SeqAfterType ==
  ASSUME TypeOK, NEW seq \in 0 .. MaxSeq
  PROVE  SeqAfter(seq) \in Nat
<1>1. Run(bySeqUpdates, seq) \in SUBSET (0 .. MaxSeq)
  BY DEF TypeOK, Run
<1>2. IsFiniteSet(0 .. MaxSeq)
  BY FS_Interval, BoundsAssumption
<1>3. Cardinality(Run(bySeqUpdates, seq)) \in Nat
  BY <1>1, <1>2, FS_Subset, FS_CardinalityType
<1> QED
  BY <1>3, BoundsAssumption DEF SeqAfter, RunEnd, TypeOK

\* Setting the seq of a state leaves the seq and the queue of containers typed.
LEMMA SetSeqType ==
  ASSUME TypeOK, NEW seq \in 0 .. MaxSeq, SetSeq(seq)
  PROVE  /\ updatesSeq' \in Nat /\ bySeqUpdates' \subseteq 0 .. MaxSeq
         /\ bySeqTimer' \in BOOLEAN
         /\ Replayed(seq) \subseteq Nat
<1>1. updatesSeq' \in Nat
  BY SeqAfterType DEF SetSeq
<1>2. bySeqUpdates' \subseteq 0 .. MaxSeq
  BY DEF SetSeq, TypeOK
<1>3. bySeqTimer' \in BOOLEAN
  BY Zenon DEF SetSeq, TypeOK
<1>4. Replayed(seq) \subseteq Nat
  <2>1. Replayed(seq) \subseteq 0 .. MaxSeq
    BY DEF TypeOK, Replayed
  <2>2. 0 .. MaxSeq \subseteq Nat
    BY BoundsAssumption
  <2> QED
    BY <2>1, <2>2
<1> QED
  BY <1>1, <1>2, <1>3, <1>4

\* Feeding an update to the waiter leaves it and the data typed.
LEMMA FeedType ==
  ASSUME TypeOK, NEW m \in Messages, Feed(m)
  PROVE  /\ waiter' \in Waiters(Pts)
         /\ applied' \subseteq Pts /\ pending' \subseteq Pts
         /\ UNCHANGED <<seqVars, seqDone, askVars>>
<1>1. m.pts \in Pts /\ m.count \in Nat
  BY DEF Messages
<1>2. /\ waiter' \in Waiters(Pts)
      /\ UpdateAndApply(waiter, m.pts, m.count).applied \subseteq Pts
  BY <1>1, UpdateAndApplyType, PtsAreNaturals DEF Feed, TypeOK
<1>3. applied' \subseteq Pts
  BY <1>2 DEF Feed, TypeOK
<1>4. pending' \subseteq Pts
  BY <1>1 DEF Feed, TypeOK, Count
<1> QED
  BY <1>2, <1>3, <1>4 DEF Feed

\* Every step of Updates keeps the types.
LEMMA TypeInductive ==
  ASSUME TypeOK, [Next]_vars
  PROVE  TypeOK'
<1> DEFINE TypeServer == /\ log \subseteq [pts : Pts, count : Counts]
                         /\ serverPts \in Pts /\ serverSeq \in 0 .. MaxSeq
                         /\ outbox \subseteq Messages
                         /\ disturbances \in 0 .. MaxDisturbances
           TypeSeq == /\ updatesSeq \in Nat /\ bySeqUpdates \subseteq 0 .. MaxSeq
                      /\ bySeqTimer \in BOOLEAN
           TypeAsk == /\ failTimer \in BOOLEAN
                      /\ request \in {"none", "state", "difference"}
                      /\ askedPts \in Pts /\ answered \in BOOLEAN
           TypeData == /\ applied \subseteq Pts /\ early \subseteq Pts
                       /\ pending \subseteq Pts
<1>1. TypeOK <=> /\ TypeServer /\ net \in Seq(Messages) /\ waiter \in Waiters(Pts)
                 /\ TypeSeq /\ TypeAsk /\ TypeData /\ seqDone \subseteq Nat
  BY DEF TypeOK
<1>2. TypeOK' <=> /\ TypeServer' /\ net' \in Seq(Messages) /\ waiter' \in Waiters(Pts)
                  /\ TypeSeq' /\ TypeAsk' /\ TypeData' /\ seqDone' \subseteq Nat
  BY DEF TypeOK
<1>3. UNCHANGED serverVars => TypeServer'
  BY <1>1 DEF serverVars
<1>4. UNCHANGED seqVars => TypeSeq'
  BY <1>1 DEF seqVars
<1>5. UNCHANGED askVars => TypeAsk'
  BY <1>1 DEF askVars
<1>6. UNCHANGED dataVars => TypeData'
  BY <1>1 DEF dataVars
<1>7. UNCHANGED clientVars => /\ waiter' \in Waiters(Pts) /\ TypeSeq' /\ TypeAsk'
                              /\ TypeData' /\ seqDone' \subseteq Nat
  BY <1>1, <1>4, <1>5, <1>6 DEF clientVars
<1>8. \A kind \in Pushed \cup Results \cup Answers, pts \in Pts, count \in Nat,
         seq \in 0 .. MaxSeq : Message(kind, pts, count, seq) \in Messages
  BY DEF Message, Messages
<1>9. CASE Produce
  <2>1. PICK count \in Counts, kind \in Carriers :
          /\ serverPts + count <= MaxPts
          /\ serverPts' = serverPts + count
          /\ log' = log \cup {[pts |-> serverPts', count |-> count]}
          /\ outbox' = outbox \cup {Message(kind, serverPts', count, 0)}
    BY <1>9 DEF Produce
  <2>2. serverPts' \in Pts /\ count \in Nat
    BY <1>1, <2>1, MaxPtsAssumption, FirstPtsAssumption, CountsAssumption DEF Pts
  <2>3. Message(kind, serverPts', count, 0) \in Messages
    BY <1>8, <2>1, <2>2, BoundsAssumption DEF Carriers, Pushed, Results
  <2>4. TypeServer'
    BY <1>1, <1>9, <2>1, <2>2, <2>3 DEF Produce
  <2> QED
    BY <1>1, <1>2, <1>7, <1>9, <2>4 DEF Produce
<1>10. CASE ProduceSeq
  <2>1. serverSeq' \in 0 .. MaxSeq
    BY <1>1, <1>10, BoundsAssumption DEF ProduceSeq
  <2>2. Message("seq", 0, 0, serverSeq') \in Messages
    BY <1>8, <2>1, PtsAreNaturals DEF Pushed
  <2>3. TypeServer'
    BY <1>1, <1>10, <2>1, <2>2 DEF ProduceSeq
  <2> QED
    BY <1>1, <1>2, <1>7, <1>10, <2>3 DEF ProduceSeq
<1>11. CASE Deliver
  <2>1. net' \in Seq(Messages)
    BY <1>1, <1>11, SendType DEF Deliver
  <2>2. TypeServer'
    BY <1>1, <1>11 DEF Deliver
  <2> QED
    BY <1>1, <1>2, <1>7, <1>11, <2>1, <2>2 DEF Deliver
<1>12. CASE LosePush
  <2>1. TypeServer'
    BY <1>1, <1>12 DEF LosePush
  <2> QED
    BY <1>1, <1>2, <1>7, <1>12, <2>1 DEF LosePush
<1>14. ASSUME Disturb PROVE disturbances' \in 0 .. MaxDisturbances
  BY <1>1, <1>14, BoundsAssumption DEF Disturb
<1>15. CASE PushTooLong
  <2>1. Message("tooLong", 0, 0, 0) \in Messages
    BY PtsAreNaturals, BoundsAssumption DEF Message, Messages, Pushed
  <2>2. net' \in Seq(Messages)
    BY <1>15, <2>1, SendType DEF PushTooLong
  <2>3. TypeServer'
    BY <1>1, <1>14, <1>15 DEF PushTooLong
  <2> QED
    BY <1>2, <1>7, <1>15, <2>2, <2>3 DEF PushTooLong
<1>16. CASE LoseSession
  <2>1. net' \in Seq(Messages)
    <3>1. Message("newSession", 0, 0, 0) \in Messages
      BY PtsAreNaturals, BoundsAssumption DEF Message, Messages, Pushed
    <3> QED
      BY <1>16, <3>1 DEF LoseSession
  <2>2. TypeServer'
    BY <1>1, <1>14, <1>16, BoundsAssumption DEF LoseSession
  <2>3. TypeSeq' /\ TypeAsk' /\ TypeData'
    BY <1>1, <1>4, <1>6, <1>16 DEF LoseSession
  <2> QED
    BY <1>1, <1>2, <1>16, <2>1, <2>2, <2>3 DEF LoseSession
<1>17. ASSUME NEW kind, NEW m \in Messages, Answer(kind, m),
              disturbances' \in 0 .. MaxDisturbances
       PROVE  TypeOK'
  <2>1. net' \in Seq(Messages)
    BY <1>17, SendType DEF Answer
  <2>2. TypeServer'
    BY <1>1, <1>17 DEF Answer
  <2>3. TypeSeq' /\ TypeAsk' /\ TypeData'
    BY <1>1, <1>4, <1>6, <1>17 DEF Answer
  <2> QED
    BY <1>1, <1>2, <1>17, <2>1, <2>2, <2>3 DEF Answer
<1>18. CASE AnswerState
  <2>1. Message("state", serverPts, 0, serverSeq) \in Messages
    BY <1>1 DEF Message, Messages, Answers
  <2> QED
    BY <1>1, <1>17, <1>18, <2>1 DEF AnswerState
<1>19. CASE AnswerDifference
  <2>1. \A p \in Pts, kind \in Answers : Message(kind, p, 0, serverSeq) \in Messages
    BY <1>1 DEF Message, Messages
  <2>2. Events \subseteq Pts /\ 0 \in Pts /\ serverPts \in Pts
    BY <1>1, PtsAreNaturals DEF Events
  <2>3. PICK p \in Pts, kind \in Answers :
          Answer("difference", Message(kind, p, 0, serverSeq))
    BY <1>19, <2>2 DEF AnswerDifference, Answers
  <2> QED
    BY <1>1, <1>17, <1>19, <2>1, <2>3 DEF AnswerDifference
<1>20. CASE AnswerFail
  <2>1. Message("fail", 0, 0, 0) \in Messages
    BY PtsAreNaturals, BoundsAssumption DEF Message, Messages, Answers
  <2> QED
    BY <1>14, <1>17, <1>20, <2>1 DEF AnswerFail
<1>21. CASE SkipPush
  <2>1. net' \in Seq(Messages) /\ UNCHANGED serverVars
    BY <1>21, ReceiveType DEF SkipPush
  <2> QED
    BY <1>2, <1>3, <1>7, <1>21, <2>1 DEF SkipPush
<1>22. ASSUME Receive(Pushed \cup Results \cup Answers) \/ UNCHANGED <<serverVars, net>>,
              NEW w \in Waiters(Pts), GetDifference(w),
              updatesSeq' \in Nat, TypeData', seqDone' \subseteq Nat
       PROVE  TypeOK'
  <2>1. net' \in Seq(Messages) /\ UNCHANGED serverVars
    BY <1>1, <1>22, ReceiveType
  <2>2. waiter' \in Waiters(Pts) /\ TypeAsk' /\ TypeSeq'
    BY <1>22, GetDifferenceType
  <2> QED
    BY <1>2, <1>3, <1>22, <2>1, <2>2
<1>23. ASSUME NEW K, Receive(K), K \subseteq Pushed \cup Results \cup Answers
       PROVE  Receive(Pushed \cup Results \cup Answers)
  BY <1>23 DEF Receive
<1>24. ASSUME FeedUnknown, Receive(Pushed \cup Results \cup Answers)
       PROVE  TypeOK'
  BY <1>1, <1>6, <1>22, <1>24 DEF FeedUnknown
<1>25. CASE ReceiveUpdate
  <2>1. Receive(Pushed \cup Results \cup Answers)
    BY <1>23, <1>25 DEF ReceiveUpdate, Pushed
  <2>2. ASSUME Feed(Head(net)), UNCHANGED early PROVE TypeOK'
    BY <1>1, <1>2, <1>3, <1>4, <1>5, <2>1, <2>2, ReceiveType, FeedType
  <2> QED
    BY <1>24, <1>25, <2>1, <2>2 DEF ReceiveUpdate
<1>26. CASE ReceiveSeq
  <2>1. /\ net' \in Seq(Messages) /\ UNCHANGED serverVars
        /\ Head(net).seq \in 0 .. MaxSeq
    BY <1>26, ReceiveType DEF ReceiveSeq
  <2>2. TypeSeq' /\ seqDone' \subseteq Nat
    <3>1. CASE UNCHANGED <<seqVars, seqDone>>
      BY <1>1, <1>4, <3>1
    <3>2. CASE /\ bySeqUpdates' = bySeqUpdates \cup {Head(net).seq}
               /\ bySeqTimer' = TRUE
               /\ UNCHANGED <<updatesSeq, seqDone>>
      BY <1>1, <2>1, <3>2
    <3>3. CASE /\ SetSeq(Head(net).seq)
               /\ seqDone' = seqDone \cup {Head(net).seq} \cup Replayed(Head(net).seq)
      BY <1>1, <2>1, <3>3, SetSeqType, BoundsAssumption
    <3> QED
      BY <1>26, <3>1, <3>2, <3>3 DEF ReceiveSeq
  <2> QED
    BY <1>1, <1>2, <1>3, <1>5, <1>6, <1>26, <2>1, <2>2 DEF ReceiveSeq
<1>27. CASE ReceiveTooLong
  <2>1. Receive(Pushed \cup Results \cup Answers)
    BY <1>23, <1>27 DEF ReceiveTooLong, Pushed
  <2> QED
    BY <1>1, <1>6, <1>22, <1>27, <2>1 DEF ReceiveTooLong
<1>28. CASE ReceiveNewSession
  <2>1. Receive(Pushed \cup Results \cup Answers)
    BY <1>23, <1>28 DEF ReceiveNewSession, Pushed
  <2> QED
    BY <1>1, <1>6, <1>22, <1>28, <2>1 DEF ReceiveNewSession
<1>29. CASE ReceiveSent
  <2>1. Receive(Pushed \cup Results \cup Answers)
    BY <1>23, <1>29 DEF ReceiveSent, Results
  <2>2. ASSUME Feed(Head(net)),
               early' = early \cup IF waiter.requesting THEN {Head(net).pts} ELSE {}
        PROVE  TypeOK'
    <3>1. early' \subseteq Pts
      BY <1>1, <2>1, <2>2, ReceiveType
    <3> QED
      BY <1>1, <1>2, <1>3, <1>4, <1>5, <2>1, <2>2, <3>1, ReceiveType, FeedType
  <2> QED
    BY <1>24, <1>29, <2>1, <2>2 DEF ReceiveSent
<1>30. CASE ReceiveAffected
  <2> DEFINE m == Head(net)
             done == UpdateApplied(waiter, m.pts, m.count)
  <2>1. /\ net' \in Seq(Messages) /\ UNCHANGED serverVars
        /\ m.pts \in Pts /\ m.count \in Nat
    BY <1>30, ReceiveType DEF ReceiveAffected
  <2>2. done.waiter \in Waiters(Pts) /\ done.applied \in SUBSET Pts
    <3>1. Pts \in SUBSET Nat /\ waiter \in Waiters(Pts)
      BY PtsAreNaturals DEF TypeOK
    <3>2. ASSUME NEW pts \in Pts, NEW count \in Nat
          PROVE  /\ UpdateApplied(waiter, pts, count).waiter \in Waiters(Pts)
                 /\ UpdateApplied(waiter, pts, count).applied \in SUBSET Pts
      BY <3>1, UpdateAndApplyType
    <3> QED
      BY <2>1, <3>2
  <2>3. /\ waiter' = done.waiter
        /\ applied' = applied \cup done.applied \cup {m.pts}
        /\ early' = early \cup {m.pts}
        /\ Count(m.pts, m.count)
        /\ UNCHANGED <<seqVars, seqDone, askVars>>
    BY <1>30 DEF ReceiveAffected
  <2> HIDE DEF m, done
  <2>4. TypeData'
    BY <1>1, <2>1, <2>2, <2>3 DEF Count
  <2> QED
    BY <1>1, <1>2, <1>3, <1>4, <1>5, <2>1, <2>2, <2>3, <2>4
<1>31. ASSUME NEW pts, StateTaken(pts) PROVE TypeData'
  BY <1>1, <1>31 DEF StateTaken, Fetched, Events
<1>32. ASSUME NEW seq \in 0 .. MaxSeq, SeqCovered(seq), Replayed(seq) \subseteq Nat
       PROVE  seqDone' \subseteq Nat
  BY <1>1, <1>32, BoundsAssumption DEF SeqCovered
<1>33. ASSUME Receive(Pushed \cup Results \cup Answers), NEW pts \in Pts,
              waiter' = SetRequesting(InitPts(waiter, pts), FALSE),
              StateTaken(pts), SetSeq(Head(net).seq), SeqCovered(Head(net).seq),
              RequestDone, UNCHANGED failTimer
       PROVE  TypeOK'
  <2>1. /\ net' \in Seq(Messages) /\ UNCHANGED serverVars
        /\ Head(net).seq \in 0 .. MaxSeq
    BY <1>33, ReceiveType
  <2>2. waiter' \in Waiters(Pts)
    BY <1>1, <1>33, WaiterType, PtsAreNaturals
  <2>3. TypeSeq' /\ seqDone' \subseteq Nat
    BY <1>32, <1>33, <2>1, SetSeqType
  <2>4. TypeAsk'
    BY <1>1, <1>33 DEF RequestDone
  <2> QED
    BY <1>2, <1>3, <1>31, <1>33, <2>1, <2>2, <2>3, <2>4
<1>34. CASE ReceiveState
  <2>1. Receive(Pushed \cup Results \cup Answers) /\ Head(net).pts \in Pts
    BY <1>23, <1>34, ReceiveType DEF ReceiveState, Answers
  <2> QED
    BY <1>33, <1>34, <2>1 DEF ReceiveState
<1>35. CASE ReceiveEmpty
  <2>1. Receive(Pushed \cup Results \cup Answers)
    BY <1>23, <1>35 DEF ReceiveEmpty, Answers
  <2>2. waiter.good \in Pts
    BY <1>1 DEF Waiters
  <2> QED
    BY <1>33, <1>35, <2>1, <2>2 DEF ReceiveEmpty
<1>36. CASE ReceiveSlice
  <2> DEFINE m == Head(net)
             w == SetRequesting(InitPts(waiter, m.pts), FALSE)
  <2>1. Receive(Pushed \cup Results \cup Answers)
    BY <1>23, <1>36 DEF ReceiveSlice, Answers
  <2>2. m.pts \in Pts /\ m.seq \in 0 .. MaxSeq
    BY <2>1, ReceiveType
  <2>3. w \in Waiters(Pts)
    BY <1>1, <2>2, WaiterType, PtsAreNaturals
  <2>4. /\ GetDifference(w) /\ StateTaken(m.pts)
        /\ updatesSeq' = SeqAfter(m.seq) /\ SeqCovered(m.seq)
    BY <1>36 DEF ReceiveSlice
  <2> HIDE DEF w, m
  <2>5. updatesSeq' \in Nat /\ TypeData'
    BY <1>31, <2>2, <2>4, SeqAfterType
  <2>6. Replayed(m.seq) \subseteq Nat
    BY <1>1, BoundsAssumption DEF Replayed
  <2>7. seqDone' \subseteq Nat
    BY <1>32, <2>2, <2>4, <2>6
  <2> QED
    BY <1>22, <2>1, <2>3, <2>4, <2>5, <2>7
<1>37. CASE ReceiveFail
  <2>1. net' \in Seq(Messages) /\ UNCHANGED serverVars
    BY <1>37, ReceiveType DEF ReceiveFail
  <2>2. TypeAsk'
    BY <1>1, <1>37 DEF ReceiveFail, RequestDone
  <2> QED
    BY <1>1, <1>2, <1>3, <1>4, <1>6, <1>37, <2>1, <2>2 DEF ReceiveFail
<1>38. CASE ByPtsTimer
  BY <1>1, <1>6, <1>22, <1>38 DEF ByPtsTimer
<1>39. CASE BySeqTimer
  BY <1>1, <1>6, <1>22, <1>39 DEF BySeqTimer
<1>40. CASE FailTimer
  <2>1. SetRequesting(waiter, FALSE) \in Waiters(Pts)
    BY <1>1, WaiterType, PtsAreNaturals
  <2> QED
    BY <1>1, <1>6, <1>22, <1>40, <2>1 DEF FailTimer
<1>41. CASE UNCHANGED vars
  BY <1>1, <1>2, <1>3, <1>4, <1>5, <1>6, <1>41 DEF vars
<1> QED
  BY <1>9, <1>10, <1>11, <1>12, <1>15, <1>16, <1>18, <1>19, <1>20, <1>21,
     <1>25, <1>26, <1>27, <1>28, <1>29, <1>30, <1>34, <1>35, <1>36, <1>37, <1>38,
     <1>39, <1>40, <1>41 DEF Next, Server, Handle, Timers

(***************************************************************************)
(* Every variable keeps its type, for every value of the constants.        *)
(***************************************************************************)
THEOREM TypeCorrect == Spec => []TypeOK
<1>1. Init => TypeOK
  BY InitTypeOK
<1>2. TypeOK /\ [Next]_vars => TypeOK'
  BY TypeInductive
<1> QED
  BY <1>1, <1>2, PTL DEF Spec

-----------------------------------------------------------------------------
(***************************************************************************)
(* What the two calls of the waiter do, case by case, in a box that has    *)
(* got its pts.                                                            *)
(***************************************************************************)
WaiterOK(w) ==
  /\ w \in Waiters(Pts) /\ Steady(w)
  /\ ~w.requesting => w.good > 0

\* What an update does to the waiter: thrown away, known already, closing the gap, or
\* opening one.
LEMMA FedOutcome ==
  ASSUME NEW w, WaiterOK(w), NEW pts \in Pts, NEW count \in Nat \ {0}
  PROVE  LET d == UpdateAndApply(w, pts, count)
             v == d.waiter IN
         \/ w.requesting /\ v = w /\ d.applied = {pts}
         \/ ~w.requesting /\ pts <= w.good /\ v = w /\ d.applied = {}
         \/ /\ ~w.requesting /\ pts > w.good
            /\ GapClosed(w, v, pts, count) /\ d.applied = w.queue \cup {pts}
         \/ /\ ~w.requesting /\ pts > w.good
            /\ GapOpened(w, v, pts, count)
            /\ d.applied = {} /\ v.queue = w.queue \cup {pts}
<1> DEFINE d == UpdateAndApply(w, pts, count)
<1>1. w.requesting \/ w.good # 0
  BY DEF WaiterOK, Waiters
<1>2. /\ Pts \in SUBSET Nat /\ w \in Waiters(Pts) /\ Steady(w)
      /\ count \in Nat /\ count # 0
  BY PtsAreNaturals DEF WaiterOK
<1>3. FedInto(w, d.waiter, d.applied, pts, count)
  BY <1>2, FeedOutcome
<1> HIDE DEF d
<1> QED
  BY <1>1, <1>3 DEF FedInto, d

\* The same for the answer to a request of the client's own.
LEMMA AffectedOutcome ==
  ASSUME NEW w, WaiterOK(w), NEW pts \in Pts, NEW count \in Nat \ {0}
  PROVE  LET d == UpdateApplied(w, pts, count)
             v == d.waiter IN
         \/ /\ w.requesting /\ d.applied = {}
            /\ v.queue = {} /\ v.requesting = TRUE
            /\ v.good = w.good /\ v.last = w.last /\ v.count = w.count
         \/ ~w.requesting /\ pts <= w.good /\ v = w /\ d.applied = {}
         \/ /\ ~w.requesting /\ pts > w.good
            /\ GapClosed(w, v, pts, count) /\ d.applied = w.queue
         \/ /\ ~w.requesting /\ pts > w.good
            /\ GapOpened(w, v, pts, count)
            /\ d.applied = {} /\ v.queue = w.queue
<1> DEFINE d == UpdateApplied(w, pts, count)
           v == d.waiter
<1>1. (w.requesting \/ w.good # 0) /\ count > 0 /\ count # 0
  BY DEF WaiterOK, Waiters
<1>2. Pts \in SUBSET Nat /\ w \in Waiters(Pts) /\ Steady(w) /\ count \in Nat
  BY PtsAreNaturals DEF WaiterOK
<1>3. AppliedInto(w, v, d.applied, pts, count)
  BY <1>2, AppliedOutcome
<1> HIDE DEF d, v
<1> QED
  BY <1>1, <1>3 DEF AppliedInto, d, v

-----------------------------------------------------------------------------
(***************************************************************************)
(* The arithmetic of the waiter: the pts that a set of events takes.       *)
(***************************************************************************)
LEMMA EventIsTyped ==
  ASSUME TypeOK, NEW e \in log
  PROVE  /\ e.pts \in Nat /\ e.pts \in Pts /\ e.count \in Nat \ {0}
         /\ e.pts - e.count \in Int
<1>1. e \in [pts : Pts, count : Counts]
  BY DEF TypeOK
<1>2. e.pts \in Pts /\ e.count \in Counts
  BY <1>1
<1>3. e.pts \in Nat /\ e.count \in Nat \ {0}
  BY <1>2, PtsAreNaturals, CountsAssumption
<1> QED
  BY <1>2, <1>3

\* The numbers the proofs add and compare are natural numbers.
LEMMA NumbersTyped ==
  ASSUME TypeOK
  PROVE  /\ serverPts \in Nat /\ askedPts \in Nat
         /\ waiter.good \in Nat /\ waiter.last \in Nat /\ waiter.count \in Nat
         /\ Len(net) \in Nat
         /\ \A i \in 1 .. Len(net) : /\ net[i] \in Messages
                                   /\ net[i].pts \in Nat /\ net[i].pts \in Pts
<1>1. serverPts \in Nat /\ askedPts \in Nat
  BY PtsAreNaturals DEF TypeOK
<1>2. waiter.good \in Nat /\ waiter.last \in Nat /\ waiter.count \in Nat
  <2>1. waiter.good \in Pts /\ waiter.last \in Pts /\ waiter.count \in Nat
    BY DEF TypeOK, Waiters
  <2> QED
    BY <2>1, PtsAreNaturals
<1>3. Len(net) \in Nat /\ \A i \in 1 .. Len(net) : net[i] \in Messages
  BY DEF TypeOK
<1>4. \A i \in 1 .. Len(net) : net[i].pts \in Pts
  BY <1>3 DEF Messages
<1> QED
  BY <1>1, <1>2, <1>3, <1>4, PtsAreNaturals

\* The log is one the arithmetic of the waiter speaks of.
LEMMA LogFollows ==
  ASSUME TypeOK, LogOK
  PROVE  /\ Follow(log, serverPts)
         /\ \A p : Boundary(p) => Between(log, p)
<1>1. \A e \in log : e.pts \in Nat /\ e.count \in Nat \ {0}
  BY EventIsTyped
<1>2. \A e \in log : e.count <= e.pts /\ e.pts <= serverPts
  BY <1>1, FirstPtsAssumption DEF LogOK
<1>3. serverPts \in Nat
  BY NumbersTyped
<1> QED
  BY <1>1, <1>2, <1>3 DEF Follow, LogOK, Boundary, Between

\* An event ends where no other event is in the middle.
LEMMA EventsAreBoundaries ==
  ASSUME TypeOK, LogOK, NEW p \in Events
  PROVE  Boundary(p)
BY EventIsTyped DEF Boundary, LogOK, Events

-----------------------------------------------------------------------------
(***************************************************************************)
(* The invariant holds at the start, and no step of the server breaks it.  *)
(***************************************************************************)
LEMMA InitIInv == Init => IInv
<1> SUFFICES ASSUME Init PROVE IInv
  OBVIOUS
<1>1. LogOK
  BY FirstPtsAssumption DEF Init, LogOK
<1>2. OncePerEvent
  BY DEF Init, OncePerEvent
<1>3. AnswerOK
  BY DEF Init, AnswerOK
<1>4. /\ waiter.good = 0 /\ waiter.last = 0 /\ waiter.count = 0
      /\ waiter.queue = {} /\ waiter.requesting = TRUE
  BY DEF Init, Fresh, SetRequesting
<1>5. RequestOK
  BY <1>4 DEF Init, RequestOK, RequestAlive
<1>6. CountOK
  <2>1. SpanOf(log, pending) = {}
    BY DEF Init, SpanOf
  <2>2. Cardinality({}) = 0
    BY FS_EmptySet
  <2>3. pending = {} /\ log = {} /\ serverPts = FirstPts
    BY DEF Init
  <2>4. Boundary(waiter.good)
    BY <1>4, <2>3, FirstPtsAssumption DEF Boundary
  <2>5. waiter.count = waiter.good + Cardinality(SpanOf(log, pending))
    BY <1>4, <2>1, <2>2
  <2> QED
    BY <1>4, <2>3, <2>4, <2>5 DEF CountOK
<1>7. QueueOK /\ GapWatched /\ NoLostEvent /\ NotAhead
  BY <1>4 DEF Init, QueueOK, GapWatched, NoLostEvent, NotAhead, Events
<1> QED
  BY <1>1, <1>2, <1>3, <1>5, <1>6, <1>7 DEF IInv, ClientOK

\* Nothing that the client's part of the invariant speaks of has changed.
LEMMA ClientFrame ==
  ASSUME ClientOK,
         UNCHANGED <<log, serverPts, waiter, request, failTimer, askedPts, dataVars>>
  PROVE  ClientOK'
<1> USE DEF dataVars
<1>1. RequestOK'
  BY DEF ClientOK, RequestOK, RequestAlive
<1>2. CountOK'
  BY DEF ClientOK, CountOK, SpanOf, Boundary, Events
<1>3. QueueOK' /\ GapWatched' /\ NoLostEvent' /\ NotAhead'
  BY DEF ClientOK, QueueOK, GapWatched, NoLostEvent, NotAhead, Events
<1> QED
  BY <1>1, <1>2, <1>3 DEF ClientOK

\* One more message at the end of the session.
LEMMA SendIndex ==
  ASSUME TypeOK, NEW m \in Messages, Send(m)
  PROVE  /\ Len(net) \in Nat /\ Len(net') = Len(net) + 1
         /\ \A i \in 1 .. Len(net') :
              net'[i] = IF i = Len(net) + 1 THEN m ELSE net[i]
BY DEF TypeOK, Send

\* A new event of the server keeps the invariant: it is above all others.
LEMMA ProduceIInv ==
  ASSUME TypeOK, IInv, Produce
  PROVE  IInv'
<1>1. PICK count \in Counts, kind \in Carriers :
        /\ serverPts' = serverPts + count
        /\ log' = log \cup {[pts |-> serverPts', count |-> count]}
        /\ outbox' = outbox \cup {Message(kind, serverPts', count, 0)}
  BY DEF Produce
<1> DEFINE new == [pts |-> serverPts', count |-> count]
           m == Message(kind, serverPts', count, 0)
<1>2. /\ UNCHANGED <<net, waiter, request, failTimer, askedPts, answered>>
      /\ UNCHANGED <<applied, early, pending>>
  BY DEF Produce, clientVars, askVars, dataVars
<1>3. /\ count \in Nat \ {0} /\ serverPts \in Nat /\ serverPts' \in Nat
      /\ serverPts < serverPts' /\ new.pts = serverPts' /\ new.count = count
      /\ new.pts - new.count = serverPts
  BY <1>1, CountsAssumption, PtsAreNaturals DEF TypeOK
<1>4. \A e \in log : e.pts < serverPts' /\ e.pts <= serverPts
  BY <1>3, EventIsTyped DEF IInv, LogOK
<1>5. LogOK'
  <2>1. \A e \in log' : e \in log \/ e = new
    BY <1>1
  <2> HIDE DEF new
  <2>2. FirstPts <= serverPts /\ FirstPts \in Nat
    BY FirstPtsAssumption DEF IInv, LogOK
  <2>3. ASSUME NEW e \in log'
        PROVE  FirstPts <= e.pts - e.count /\ e.pts <= serverPts'
    <3>1. CASE e = new
      <4>1. e.pts = serverPts' /\ e.pts - e.count = serverPts
        BY <1>3, <3>1
      <4> QED
        BY <1>3, <2>2, <4>1
    <3>2. CASE e \in log
      <4>1. FirstPts <= e.pts - e.count
        BY <3>2 DEF IInv, LogOK
      <4>2. e.pts \in Nat /\ e.pts <= serverPts
        BY <1>4, <3>2, EventIsTyped
      <4> QED
        BY <1>3, <4>1, <4>2
    <3> QED
      BY <2>1, <3>1, <3>2
  <2>4. ASSUME NEW e \in log', NEW f \in log', e.pts < f.pts
        PROVE  e.pts <= f.pts - f.count
    <3>1. CASE f = new
      <4>1. e \in log
        BY <1>3, <2>1, <2>4, <3>1
      <4> QED
        BY <1>3, <1>4, <3>1, <4>1, EventIsTyped
    <3>2. CASE f \in log
      <4>1. e \in log
        BY <1>3, <1>4, <2>1, <2>4, <3>2, EventIsTyped
      <4> QED
        BY <2>4, <3>2, <4>1 DEF IInv, LogOK
    <3> QED
      BY <2>1, <3>1, <3>2
  <2>5. ASSUME NEW e \in log', NEW f \in log', e.pts = f.pts
        PROVE  e = f
    BY <1>3, <1>4, <2>1, <2>5 DEF IInv, LogOK
  <2> QED
    BY <1>3, <2>2, <2>3, <2>4, <2>5 DEF LogOK
<1>6. \A p \in Nat : Boundary(p) => Boundary(p)'
  <2>1. \A e \in log' : e \in log \/ e = new
    BY <1>1
  <2> HIDE DEF new
  <2> SUFFICES ASSUME NEW p \in Nat, Boundary(p)
               PROVE  p <= serverPts' /\ \A e \in log' : e.pts > p => e.pts - e.count >= p
    BY DEF Boundary
  <2>2. p <= serverPts
    BY DEF Boundary
  <2>3. ASSUME NEW e \in log', e.pts > p
        PROVE  e.pts - e.count >= p
    <3>1. CASE e = new
      BY <1>3, <2>2, <3>1
    <3>2. CASE e \in log
      BY <2>3, <3>2 DEF Boundary
    <3> QED
      BY <2>1, <3>1, <3>2
  <2> QED
    BY <1>3, <2>2, <2>3
<1>7. Events \subseteq Events' /\ Events' = Events \cup {serverPts'} /\ serverPts' \notin Events
  <2>1. \A e \in log : e.pts # serverPts'
    BY <1>3, <1>4, EventIsTyped
  <2>2. log' = log \cup {new} /\ new.pts = serverPts'
    BY <1>1
  <2> HIDE DEF new
  <2> QED
    BY <2>1, <2>2 DEF Events
<1>8. OncePerEvent'
  <2>1. /\ m.kind = kind /\ m.pts = serverPts' /\ m.count = count
        /\ kind \notin Answers
    BY DEF Message, Carriers, Answers
  <2>2. ASSUME NEW x, Genuine(x)
        PROVE  /\ [pts |-> x.pts, count |-> x.count] \in log' /\ x.pts \notin pending'
               /\ x.pts # serverPts'
    BY <1>1, <1>2, <1>3, <1>4, <2>2 DEF Genuine
  <2>3. serverPts' \notin pending
    BY <1>7 DEF IInv, OncePerEvent
  <2>4. /\ [pts |-> m.pts, count |-> m.count] \in log' /\ m.pts \notin pending'
    BY <1>1, <1>2, <2>1, <2>3
  <2>5. \A x \in outbox' : x \in outbox \/ x = m
    BY <1>1
  <2> HIDE DEF m, new
  <2>6. pending' \subseteq Events'
    BY <1>2, <1>7 DEF IInv, OncePerEvent
  <2> QED
    BY <1>2, <2>1, <2>2, <2>4, <2>5, <2>6 DEF IInv, OncePerEvent, CarriesEvent, Genuine
<1>9. AnswerOK'
  <2>1. \A i \in 1 .. Len(net) : net[i].pts \in Nat
    BY NumbersTyped
  <2> QED
    BY <1>2, <1>6, <2>1 DEF IInv, AnswerOK
<1>10. waiter.good \in Nat /\ waiter.good < serverPts'
  <2>1. waiter.good \in Nat
    BY NumbersTyped
  <2>2. waiter.good <= serverPts
    BY DEF IInv, ClientOK, CountOK, Boundary
  <2> QED
    BY <1>3, <2>1, <2>2
<1>11. CountOK'
  <2>1. SpanOf(log, pending)' = SpanOf(log, pending)
    <3>1. serverPts' \notin pending
      BY <1>7 DEF IInv, OncePerEvent
    <3> QED
      BY <1>1, <1>2, <3>1 DEF SpanOf, Span
  <2> QED
    BY <1>2, <1>6, <1>7, <1>10, <2>1 DEF IInv, ClientOK, CountOK
<1>12. NoLostEvent'
  BY <1>2, <1>7, <1>10, <1>3 DEF IInv, ClientOK, NoLostEvent
<1>13. QueueOK'
  BY <1>2, <1>7 DEF IInv, ClientOK, QueueOK
<1>14. RequestOK' /\ GapWatched' /\ NotAhead'
  BY <1>2 DEF IInv, ClientOK, RequestOK, RequestAlive, GapWatched, NotAhead
<1> QED
  BY <1>5, <1>8, <1>9, <1>11, <1>12, <1>13, <1>14 DEF IInv, ClientOK

\* Other than Produce: log and counts stay, messages move or vanish.
LEMMA ServerFrame ==
  ASSUME IInv, UNCHANGED <<log, serverPts>>
  PROVE  /\ LogOK'
         /\ \A p : Boundary(p) <=> Boundary(p)'
         /\ Events' = Events
BY DEF IInv, LogOK, Boundary, Events

\* A push that enters the connection keeps the invariant.
LEMMA DeliverIInv ==
  ASSUME TypeOK, IInv, Deliver
  PROVE  IInv'
<1>1. PICK m \in outbox : Send(m) /\ outbox' = outbox \ {m}
  BY DEF Deliver
<1>2. /\ UNCHANGED <<log, serverPts, waiter, request, failTimer, askedPts, answered>>
      /\ UNCHANGED dataVars
  BY DEF Deliver, clientVars, askVars
<1>3. m \in Messages
  BY DEF TypeOK
<1>4. /\ Len(net) \in Nat /\ Len(net') = Len(net) + 1
      /\ \A i \in 1 .. Len(net') : net'[i] = IF i = Len(net) + 1 THEN m ELSE net[i]
  BY <1>1, <1>3, SendIndex
<1>5. OncePerEvent'
  BY <1>1, <1>2, <1>4, ServerFrame
     DEF IInv, OncePerEvent, CarriesEvent, Genuine, dataVars
<1>6. AnswerOK'
  <2>1. m.kind \notin Answers
    BY DEF IInv, OncePerEvent
  <2> QED
    BY <1>2, <1>4, <2>1, ServerFrame DEF IInv, AnswerOK
<1> QED
  BY <1>2, <1>5, <1>6, ServerFrame, ClientFrame DEF IInv

\* Messages that carry no event come and go.
LEMMA OnceFrame ==
  ASSUME IInv, UNCHANGED <<log, pending>>,
         \A x \in outbox' : x \in outbox \/ (x.kind \notin Answers /\ ~CarriesEvent(x)),
         \A i \in 1 .. Len(net') :
           ~CarriesEvent(net'[i]) \/ (i \in 1 .. Len(net) /\ net'[i] = net[i])
  PROVE  OncePerEvent'
BY DEF IInv, OncePerEvent, CarriesEvent, Genuine, Events

\* The answer under way stays right when no answer is added to the connection.
LEMMA AnswerFrame ==
  ASSUME IInv, UNCHANGED <<log, serverPts, request, askedPts, answered>>,
         \A i \in 1 .. Len(net') :
           net'[i].kind \notin Answers \/ (i \in 1 .. Len(net) /\ net'[i] = net[i])
  PROVE  AnswerOK'
<1>1. \A p : Boundary(p) <=> Boundary(p)'
  BY ServerFrame
<1> QED
  BY <1>1 DEF IInv, AnswerOK

\* A new numbered container keeps the invariant.
LEMMA ProduceSeqIInv ==
  ASSUME IInv, ProduceSeq
  PROVE  IInv'
<1>1. /\ UNCHANGED <<log, serverPts, net, waiter, request, failTimer, askedPts, answered>>
      /\ UNCHANGED dataVars /\ pending' = pending
      /\ outbox' = outbox \cup {Message("seq", 0, 0, serverSeq')}
  BY DEF ProduceSeq, clientVars, askVars, dataVars
<1>2. OncePerEvent'
  BY <1>1, OnceFrame DEF Message, Answers, CarriesEvent, Carriers
<1>3. AnswerOK'
  BY <1>1, AnswerFrame
<1> QED
  BY <1>1, <1>2, <1>3, ServerFrame, ClientFrame DEF IInv

\* A lost push keeps the invariant: the event stays in the log.
LEMMA LosePushIInv ==
  ASSUME IInv, LosePush
  PROVE  IInv'
<1>1. /\ UNCHANGED <<log, serverPts, net, waiter, request, failTimer, askedPts, answered>>
      /\ UNCHANGED dataVars /\ pending' = pending
      /\ outbox' \subseteq outbox
  BY DEF LosePush, clientVars, askVars, dataVars
<1>2. OncePerEvent'
  BY <1>1, OnceFrame
<1>3. AnswerOK'
  BY <1>1, AnswerFrame
<1> QED
  BY <1>1, <1>2, <1>3, ServerFrame, ClientFrame DEF IInv

\* updatesTooLong keeps the invariant.
LEMMA PushTooLongIInv ==
  ASSUME TypeOK, IInv, PushTooLong
  PROVE  IInv'
<1> DEFINE m == Message("tooLong", 0, 0, 0)
<1>1. /\ UNCHANGED <<log, serverPts, outbox, waiter, request, failTimer, askedPts, answered>>
      /\ UNCHANGED dataVars /\ pending' = pending /\ Send(m)
  BY DEF PushTooLong, clientVars, askVars, dataVars
<1>2. m \in Messages /\ m.kind = "tooLong"
  BY PtsAreNaturals, BoundsAssumption, FirstPtsAssumption, MaxPtsAssumption
     DEF Message, Messages, Pushed, Pts
<1> HIDE DEF m
<1>3. /\ Len(net) \in Nat /\ Len(net') = Len(net) + 1
      /\ \A i \in 1 .. Len(net') : net'[i] = IF i = Len(net) + 1 THEN m ELSE net[i]
  BY <1>1, <1>2, SendIndex
<1>4. \A i \in 1 .. Len(net') : net'[i] = m \/ (i \in 1 .. Len(net) /\ net'[i] = net[i])
  BY <1>3
<1>5. m.kind \notin Answers /\ ~CarriesEvent(m)
  BY <1>2 DEF Answers, CarriesEvent, Carriers
<1>6. OncePerEvent'
  BY <1>1, <1>4, <1>5, OnceFrame
<1>7. AnswerOK'
  BY <1>1, <1>4, <1>5, AnswerFrame
<1> QED
  BY <1>1, <1>6, <1>7, ServerFrame, ClientFrame DEF IInv

\* A new session in place of messages keeps the invariant.
LEMMA LoseSessionIInv ==
  ASSUME IInv, LoseSession
  PROVE  IInv'
<1>1. /\ UNCHANGED <<log, serverPts, waiter, request, failTimer, askedPts>>
      /\ UNCHANGED dataVars /\ pending' = pending
      /\ outbox' \subseteq outbox
      /\ net' = <<Message("newSession", 0, 0, 0)>>
  BY DEF LoseSession, dataVars
<1>2. \A i \in 1 .. Len(net') : net'[i].kind = "newSession"
  BY <1>1 DEF Message
<1>3. OncePerEvent'
  BY <1>1, <1>2, OnceFrame DEF CarriesEvent, Carriers
<1>4. AnswerOK'
  BY <1>2 DEF AnswerOK, Answers
<1> QED
  BY <1>1, <1>3, <1>4, ServerFrame, ClientFrame DEF IInv

\* The one answer that is sent for a request.
LEMMA AnswerIInv ==
  ASSUME TypeOK, IInv, NEW kind \in {"state", "difference"}, NEW m \in Messages,
         Answer(kind, m), m.kind \in Answers,
         m.kind = "state" <=> kind = "state",
         m.kind \in {"state", "slice", "difference"} =>
           Boundary(m.pts) /\ m.pts > askedPts /\ m.pts >= FirstPts
  PROVE  IInv'
<1>1. /\ UNCHANGED <<log, serverPts, outbox, waiter, request, failTimer, askedPts>>
      /\ UNCHANGED dataVars /\ pending' = pending
      /\ Send(m) /\ request = kind /\ ~answered /\ answered' = TRUE
  BY DEF Answer, dataVars
<1>2. /\ Len(net) \in Nat /\ Len(net') = Len(net) + 1
      /\ \A i \in 1 .. Len(net') : net'[i] = IF i = Len(net) + 1 THEN m ELSE net[i]
  BY <1>1, SendIndex
<1>3. \A i \in 1 .. Len(net) : net[i].kind \notin Answers
  BY <1>1 DEF IInv, AnswerOK
<1>4. \A i \in 1 .. Len(net') : net'[i] = m \/ (i \in 1 .. Len(net) /\ net'[i] = net[i])
  BY <1>2
<1>5. OncePerEvent'
  BY <1>1, <1>4, OnceFrame DEF CarriesEvent, Carriers, Answers
<1>6. AnswerOK'
  <2>1. \A i \in 1 .. Len(net') : net'[i].kind \in Answers => i = Len(net) + 1 /\ net'[i] = m
    BY <1>2, <1>3
  <2>2. request' # "none" /\ answered' /\ (m.kind = "state" <=> request' = "state")
    BY <1>1
  <2>3. m.kind \in {"state", "slice", "difference"} =>
          Boundary(m.pts)' /\ m.pts > askedPts' /\ m.pts >= FirstPts
    BY <1>1, ServerFrame
  <2> QED
    BY <2>1, <2>2, <2>3 DEF AnswerOK
<1> QED
  BY <1>1, <1>5, <1>6, ServerFrame, ClientFrame DEF IInv

\* An answer of the server keeps the invariant, the right kind and only one.
LEMMA AnswersIInv ==
  ASSUME TypeOK, IInv, AnswerState \/ AnswerDifference \/ AnswerFail
  PROVE  IInv'
<1>1. /\ serverPts \in Nat /\ askedPts \in Nat /\ serverPts \in Pts
      /\ 0 \in Pts /\ 0 \in Nat
      /\ serverSeq \in 0 .. MaxSeq /\ 0 \in 0 .. MaxSeq
  BY NumbersTyped, FirstPtsAssumption, MaxPtsAssumption, BoundsAssumption DEF TypeOK, Pts
<1>2. Boundary(serverPts) /\ FirstPts <= serverPts
  BY EventIsTyped, <1>1 DEF IInv, LogOK, Boundary
<1>3. /\ request = "state" => askedPts = 0
      /\ request = "difference" => askedPts >= FirstPts
  BY DEF IInv, ClientOK, RequestOK, RequestAlive
<1>4. ASSUME NEW kind \in Answers, NEW pts \in Pts, NEW seq \in 0 .. MaxSeq
      PROVE  /\ Message(kind, pts, 0, seq) \in Messages
             /\ Message(kind, pts, 0, seq).kind = kind
             /\ Message(kind, pts, 0, seq).pts = pts
  BY <1>1 DEF Message, Messages
<1>5. CASE AnswerState
  <2> DEFINE m == Message("state", serverPts, 0, serverSeq)
  <2>1. Answer("state", m) /\ request = "state"
    BY <1>5 DEF AnswerState, Answer
  <2>2. m \in Messages /\ m.kind = "state" /\ m.pts = serverPts
    BY <1>1, <1>4 DEF Answers
  <2>3. serverPts > askedPts /\ serverPts >= FirstPts
    BY <1>1, <1>2, <1>3, <2>1, FirstPtsAssumption
  <2> HIDE DEF m
  <2> QED
    BY <1>2, <2>1, <2>2, <2>3, AnswerIInv DEF Answers
<1>6. CASE AnswerDifference
  <2>1. request = "difference"
    BY <1>6 DEF AnswerDifference, Answer
  <2>2. CASE Answer("difference", Message("empty", 0, 0, serverSeq))
    <3> DEFINE m == Message("empty", 0, 0, serverSeq)
    <3>1. m \in Messages /\ m.kind = "empty"
      BY <1>1, <1>4 DEF Answers
    <3>2. Answer("difference", m)
      BY <2>2
    <3> HIDE DEF m
    <3> QED
      BY <3>1, <3>2, AnswerIInv DEF Answers
  <2>3. CASE askedPts < serverPts
             /\ Answer("difference", Message("difference", serverPts, 0, serverSeq))
    <3> DEFINE m == Message("difference", serverPts, 0, serverSeq)
    <3>1. m \in Messages /\ m.kind = "difference" /\ m.pts = serverPts
      BY <1>1, <1>4 DEF Answers
    <3>2. Answer("difference", m) /\ serverPts > askedPts /\ serverPts >= FirstPts
      BY <1>1, <1>2, <2>3, FirstPtsAssumption
    <3> HIDE DEF m
    <3> QED
      BY <1>2, <3>1, <3>2, AnswerIInv DEF Answers
  <2>4. ASSUME NEW p \in Events, askedPts < p,
               Answer("difference", Message("slice", p, 0, serverSeq))
        PROVE  IInv'
    <3> DEFINE m == Message("slice", p, 0, serverSeq)
    <3>1. p \in Pts /\ p \in Nat
      BY EventIsTyped DEF Events
    <3>2. m \in Messages /\ m.kind = "slice" /\ m.pts = p
      BY <1>1, <1>4, <3>1 DEF Answers
    <3>3. Answer("difference", m) /\ p > askedPts /\ p >= FirstPts
      BY <1>1, <1>3, <2>1, <2>4, <3>1, FirstPtsAssumption
    <3>4. Boundary(p)
      BY EventsAreBoundaries DEF IInv
    <3> HIDE DEF m
    <3> QED
      BY <3>2, <3>3, <3>4, AnswerIInv DEF Answers
  <2> QED
    BY <1>6, <2>2, <2>3, <2>4 DEF AnswerDifference
<1>7. CASE AnswerFail
  <2> DEFINE m == Message("fail", 0, 0, 0)
  <2>1. m \in Messages /\ m.kind = "fail"
    BY <1>1, <1>4 DEF Answers
  <2>2. Answer("difference", m)
    BY <1>7 DEF AnswerFail
  <2> HIDE DEF m
  <2> QED
    BY <2>1, <2>2, AnswerIInv DEF Answers
<1> QED
  BY <1>5, <1>6, <1>7

-----------------------------------------------------------------------------
(***************************************************************************)
(* The handlers of the client: the message they take is gone, and the      *)
(* event it carried may be counted now.                                    *)
(***************************************************************************)
LEMMA ReceiveIndex ==
  ASSUME TypeOK, NEW K, Receive(K)
  PROVE  /\ Len(net) \in Nat /\ Len(net) > 0 /\ Len(net') = Len(net) - 1
         /\ Head(net) = net[1] /\ 1 \in 1 .. Len(net)
         /\ \A i \in 1 .. Len(net') : i + 1 \in 1 .. Len(net) /\ net'[i] = net[i + 1]
         /\ UNCHANGED <<log, serverPts, outbox>>
BY DEF TypeOK, Receive, serverVars

\* What is taken from the connection is counted at most once.
LEMMA ReceiveOnce ==
  ASSUME TypeOK, IInv, NEW K, Receive(K),
         \A p \in pending' : \/ p \in pending
                             \/ CarriesEvent(Head(net)) /\ p = Head(net).pts
  PROVE  OncePerEvent'
<1>1. /\ Len(net) \in Nat /\ Len(net') = Len(net) - 1
      /\ Head(net) = net[1] /\ 1 \in 1 .. Len(net)
      /\ \A i \in 1 .. Len(net') : i + 1 \in 1 .. Len(net) /\ net'[i] = net[i + 1]
      /\ UNCHANGED <<log, serverPts, outbox>>
  BY ReceiveIndex
<1>2. CarriesEvent(Head(net)) => Genuine(Head(net))
  BY <1>1 DEF IInv, OncePerEvent
<1>3. Events' = Events
  BY <1>1 DEF Events
<1>4. pending' \subseteq Events'
  <2>1. CarriesEvent(Head(net)) => Head(net).pts \in Events
    <3>1. ASSUME CarriesEvent(Head(net))
          PROVE  Head(net).pts \in Events
      <4> DEFINE e == [pts |-> Head(net).pts, count |-> Head(net).count]
      <4>1. e \in log /\ e.pts = Head(net).pts
        BY <1>2, <3>1 DEF Genuine
      <4> HIDE DEF e
      <4> QED
        BY <4>1 DEF Events
    <3> QED
      BY <3>1
  <2> QED
    BY <1>3, <2>1 DEF IInv, OncePerEvent
<1>5. ASSUME NEW m, Genuine(m), CarriesEvent(m),
             CarriesEvent(Head(net)) => Head(net).pts # m.pts
      PROVE  Genuine(m)'
  BY <1>1, <1>5 DEF Genuine
<1>6. \A m \in outbox : CarriesEvent(m) => Genuine(m) /\ Genuine(m)'
  BY <1>1, <1>5 DEF IInv, OncePerEvent
<1>7. ASSUME NEW i \in 1 .. Len(net'), CarriesEvent(net'[i])
      PROVE  /\ [pts |-> net'[i].pts, count |-> net'[i].count] \in log'
             /\ net'[i].pts \notin pending'
  <2>1. i + 1 \in 1 .. Len(net) /\ net'[i] = net[i + 1] /\ i + 1 # 1
    BY <1>1
  <2>2. Genuine(net[i + 1])
    BY <1>7, <2>1 DEF IInv, OncePerEvent
  <2>3. CarriesEvent(net[1]) => net[1].pts # net[i + 1].pts
    BY <1>1, <1>7, <2>1 DEF IInv, OncePerEvent
  <2>4. [pts |-> net[i + 1].pts, count |-> net[i + 1].count] \in log'
    BY <1>1, <2>2 DEF Genuine
  <2>5. net[i + 1].pts \notin pending'
    BY <1>1, <2>2, <2>3 DEF Genuine
  <2> QED
    BY <2>1, <2>4, <2>5
<1>8. \A i \in 1 .. Len(net'), m \in outbox' :
        CarriesEvent(net'[i]) /\ CarriesEvent(m) => net'[i].pts # m.pts
  BY <1>1 DEF IInv, OncePerEvent
<1>9. \A i, j \in 1 .. Len(net') :
        CarriesEvent(net'[i]) /\ CarriesEvent(net'[j]) /\ net'[i].pts = net'[j].pts
          => i = j
  <2> SUFFICES ASSUME NEW i \in 1 .. Len(net'), NEW j \in 1 .. Len(net'),
                      CarriesEvent(net'[i]), CarriesEvent(net'[j]),
                      net'[i].pts = net'[j].pts
               PROVE  i = j
    OBVIOUS
  <2>1. /\ i + 1 \in 1 .. Len(net) /\ net'[i] = net[i + 1]
        /\ j + 1 \in 1 .. Len(net) /\ net'[j] = net[j + 1]
    BY <1>1
  <2>2. i + 1 = j + 1
    BY <2>1 DEF IInv, OncePerEvent
  <2> QED
    BY <1>1, <2>2
<1> QED
  BY <1>1, <1>4, <1>6, <1>7, <1>8, <1>9 DEF IInv, OncePerEvent, Genuine, CarriesEvent

\* No answer is on its way unless the box waits for one, and it is the only one.
LEMMA IdleNoAnswers ==
  ASSUME TypeOK, IInv, NEW K, Receive(K),
         request = "none" \/ Head(net).kind \in Answers
  PROVE  AnswerOK'
<1>1. /\ Len(net) \in Nat /\ Head(net) = net[1] /\ 1 \in 1 .. Len(net)
      /\ \A i \in 1 .. Len(net') : i + 1 \in 1 .. Len(net) /\ net'[i] = net[i + 1]
  BY ReceiveIndex
<1>2. \A i \in 1 .. Len(net') : i \in Nat /\ i + 1 # 1
  OBVIOUS
<1>3. \A i \in 1 .. Len(net') : net'[i].kind \notin Answers
  BY <1>1, <1>2 DEF IInv, AnswerOK
<1> QED
  BY <1>3 DEF AnswerOK

\* A message taken from the connection leaves the answer under way right.
LEMMA KeepAnswers ==
  ASSUME TypeOK, IInv, NEW K, Receive(K), UNCHANGED <<request, askedPts, answered>>
  PROVE  AnswerOK'
<1>1. /\ Len(net) \in Nat
      /\ \A i \in 1 .. Len(net') : i + 1 \in 1 .. Len(net) /\ net'[i] = net[i + 1]
      /\ UNCHANGED <<log, serverPts>>
  BY ReceiveIndex
<1>2. \A p : Boundary(p) <=> Boundary(p)'
  BY <1>1, ServerFrame
<1>3. (\A i \in 1 .. Len(net) : net[i].kind \in Answers =>
       /\ request # "none" /\ answered
       /\ net[i].kind = "state" <=> request = "state"
       /\ net[i].kind \in {"state", "slice", "difference"} =>
            /\ Boundary(net[i].pts)
            /\ net[i].pts > askedPts /\ net[i].pts >= FirstPts)'
  <2> SUFFICES ASSUME NEW i \in 1 .. Len(net'), net'[i].kind \in Answers
               PROVE  (/\ request # "none" /\ answered
                       /\ net[i].kind = "state" <=> request = "state"
                       /\ net[i].kind \in {"state", "slice", "difference"} =>
                            /\ Boundary(net[i].pts)
                            /\ net[i].pts > askedPts /\ net[i].pts >= FirstPts)'
    OBVIOUS
  <2> DEFINE m == net[i + 1]
  <2>1. i + 1 \in 1 .. Len(net) /\ net'[i] = m /\ m.kind \in Answers
    BY <1>1
  <2>2. /\ request # "none" /\ answered
        /\ m.kind = "state" <=> request = "state"
        /\ m.kind \in {"state", "slice", "difference"} =>
             Boundary(m.pts) /\ m.pts > askedPts /\ m.pts >= FirstPts
    BY <2>1 DEF IInv, AnswerOK
  <2> HIDE DEF m
  <2>3. Boundary(m.pts) => Boundary(net[i].pts)'
    BY <1>1, <2>1 DEF Boundary
  <2> QED
    BY <2>1, <2>2, <2>3
<1>4. ASSUME NEW i \in 1 .. Len(net'), NEW j \in 1 .. Len(net'),
             net'[i].kind \in Answers, net'[j].kind \in Answers
      PROVE  i = j
  <2>1. i + 1 \in 1 .. Len(net) /\ j + 1 \in 1 .. Len(net)
        /\ net[i + 1].kind \in Answers /\ net[j + 1].kind \in Answers
    BY <1>1, <1>4
  <2>2. i + 1 = j + 1
    BY <2>1 DEF IInv, AnswerOK
  <2> QED
    BY <2>2
<1> QED
  BY <1>3, <1>4 DEF AnswerOK

\* While the box waits for an answer the waiter has the pts it has asked with.
LEMMA AskedFromGood ==
  ASSUME TypeOK, IInv, request # "none"
  PROVE  askedPts = waiter.good /\ ~failTimer /\ waiter.requesting
BY DEF TypeOK, IInv, ClientOK, RequestOK, RequestAlive

-----------------------------------------------------------------------------
(***************************************************************************)
(* What a step is to the abstract box.                                     *)
(***************************************************************************)
BoxStep == [Box!Next]_<<Events, applied, waiter.good>>

\* A step that shows nothing and moves nothing is a stutter of the box.
LEMMA BoxStutters ==
  ASSUME UNCHANGED <<log, applied>>, waiter'.good = waiter.good
  PROVE  BoxStep
BY DEF BoxStep, Events

\* A step that shows one made event is See.
LEMMA BoxSees ==
  ASSUME TypeOK, UNCHANGED log, waiter'.good = waiter.good,
         NEW p \in Events, applied' = applied \cup {p}
  PROVE  BoxStep
<1>1. Events' = Events /\ {p} \in SUBSET Events
  BY DEF Events
<1>2. Box!See({p})
  BY <1>1 DEF Box!See
<1> QED
  BY <1>1, <1>2 DEF BoxStep, Box!Next

-----------------------------------------------------------------------------
(***************************************************************************)
(* The client's part of the invariant, for each thing that can happen to   *)
(* the waiter.                                                             *)
(***************************************************************************)

\* getDifference(): called on the waiter as it is, or after "requesting" was
\* reset by the timer that follows a failure.
LEMMA GetDifferenceClient ==
  ASSUME TypeOK, IInv, UNCHANGED <<log, serverPts, dataVars>>,
         \/ GetDifference(waiter)
         \/ failTimer /\ GetDifference(SetRequesting(waiter, FALSE))
  PROVE  /\ ClientOK'
         /\ request = "none" \/ UNCHANGED <<request, askedPts, answered>>
<1> USE DEF dataVars
<1>0. waiter \in Waiters(Pts)
  BY DEF TypeOK
<1>1. CASE GetDifference(waiter) /\ waiter.requesting
  <2>1. UNCHANGED <<request, askedPts, answered, failTimer>>
    BY <1>1 DEF GetDifference, askVars
  <2>2. /\ waiter'.good = waiter.good /\ waiter'.last = waiter.last
        /\ waiter'.count = waiter.count /\ waiter'.queue = waiter.queue
        /\ waiter'.requesting = waiter.requesting
        /\ waiter'.waitingForSkipped = waiter.waitingForSkipped
    BY <1>0, <1>1 DEF GetDifference, Waiters
  <2>3. RequestOK'
    BY <2>1, <2>2 DEF IInv, ClientOK, RequestOK, RequestAlive
  <2>4. CountOK'
    BY <2>2 DEF IInv, ClientOK, CountOK, SpanOf, Boundary, Events
  <2>5. QueueOK' /\ NoLostEvent' /\ NotAhead'
    BY <2>2 DEF IInv, ClientOK, QueueOK, NoLostEvent, NotAhead, Events
  <2>6. GapWatched'
    BY <1>1, <2>2 DEF IInv, ClientOK, GapWatched, Closes
  <2> QED
    BY <2>1, <2>3, <2>4, <2>5, <2>6 DEF ClientOK
<1>2. ASSUME request = "none",
             request' = "difference", askedPts' = waiter.good, ~failTimer',
             waiter'.good = waiter.good, waiter'.last = waiter.last,
             waiter'.count = waiter.count, waiter'.queue = {},
             waiter'.requesting = TRUE
      PROVE  ClientOK'
  <2>1. RequestOK'
    BY <1>2 DEF IInv, ClientOK, RequestOK, RequestAlive
  <2>2. CountOK'
    BY <1>2 DEF IInv, ClientOK, CountOK, SpanOf, Boundary, Events
  <2>3. QueueOK' /\ NoLostEvent' /\ NotAhead' /\ GapWatched'
    BY <1>2 DEF IInv, ClientOK, QueueOK, NoLostEvent, NotAhead, GapWatched, Events
  <2> QED
    BY <2>1, <2>2, <2>3 DEF ClientOK
<1>3. CASE GetDifference(waiter) /\ ~waiter.requesting
  <2>1. request = "none"
    BY <1>3 DEF IInv, ClientOK, RequestOK, RequestAlive
  <2>2. /\ request' = "difference" /\ askedPts' = waiter.good /\ ~failTimer'
        /\ waiter' = SetRequesting([waiter EXCEPT !.timer = FALSE], TRUE)
    BY <1>3 DEF GetDifference
  <2>3. /\ waiter'.good = waiter.good /\ waiter'.last = waiter.last
        /\ waiter'.count = waiter.count /\ waiter'.queue = {}
        /\ waiter'.requesting = TRUE
    BY <1>0, <2>2 DEF SetRequesting, Waiters
  <2> QED
    BY <1>2, <2>1, <2>2, <2>3
<1>4. CASE failTimer /\ GetDifference(SetRequesting(waiter, FALSE))
  <2> DEFINE w == SetRequesting(waiter, FALSE)
  <2>1. request = "none"
    BY <1>4 DEF IInv, ClientOK, RequestOK, RequestAlive
  <2>2. /\ w \in Waiters(Pts) /\ ~w.requesting
        /\ w.good = waiter.good /\ w.last = waiter.last /\ w.count = waiter.count
    BY <1>0 DEF SetRequesting, Waiters
  <2>3. GetDifference(w)
    BY <1>4
  <2> HIDE DEF w
  <2>4. /\ request' = "difference" /\ askedPts' = w.good /\ ~failTimer'
        /\ waiter' = SetRequesting([w EXCEPT !.timer = FALSE], TRUE)
    BY <2>2, <2>3 DEF GetDifference
  <2>5. /\ waiter'.good = waiter.good /\ waiter'.last = waiter.last
        /\ waiter'.count = waiter.count /\ waiter'.queue = {}
        /\ waiter'.requesting = TRUE
    BY <2>2, <2>4 DEF SetRequesting, Waiters
  <2> QED
    BY <1>2, <2>1, <2>2, <2>4, <2>5
<1>5. waiter.requesting \/ request = "none"
  BY DEF IInv, ClientOK, RequestOK, RequestAlive
<1>6. failTimer => request = "none"
  BY DEF IInv, ClientOK, RequestOK, RequestAlive
<1> QED
  BY <1>1, <1>3, <1>4, <1>5, <1>6 DEF GetDifference, askVars

\* The effect of an event is in the data, and the waiter has not moved: the
\* box is "requesting", or it has counted the event before.
LEMMA KeptClient ==
  ASSUME IInv, UNCHANGED <<log, serverPts, request, failTimer, askedPts, pending>>,
         waiter'.good = waiter.good, waiter'.last = waiter.last,
         waiter'.count = waiter.count, waiter'.requesting = waiter.requesting,
         \/ waiter.requesting /\ waiter'.queue = {}
         \/ waiter' = waiter,
         applied \subseteq applied', early \subseteq early',
         \A p \in applied' : p \in applied \/ (p \in Events /\ (p <= waiter.good \/ p \in early'))
  PROVE  ClientOK'
<1>1. Events' = Events
  BY DEF Events
<1>2. RequestOK'
  BY DEF IInv, ClientOK, RequestOK, RequestAlive
<1>3. CountOK'
  BY DEF IInv, ClientOK, CountOK, SpanOf, Boundary, Events
<1>4. QueueOK'
  BY <1>1 DEF IInv, ClientOK, QueueOK
<1>5. NoLostEvent' /\ NotAhead'
  BY <1>1 DEF IInv, ClientOK, NoLostEvent, NotAhead
<1>6. GapWatched'
  BY DEF IInv, ClientOK, GapWatched, Closes
<1> QED
  BY <1>2, <1>3, <1>4, <1>5, <1>6 DEF ClientOK

\* The event has left a gap before it.
LEMMA OpenedClient ==
  ASSUME TypeOK, IInv, ~waiter.requesting,
         UNCHANGED <<log, serverPts, request, failTimer, askedPts>>,
         NEW e \in log, e.pts \notin pending, e.pts > waiter.good,
         GapOpened(waiter, waiter', e.pts, e.count),
         pending' = { p \in pending \cup {e.pts} : p > waiter'.good },
         waiter.queue \subseteq waiter'.queue,
         waiter'.queue \subseteq waiter.queue \cup {e.pts},
         applied \subseteq applied', early \subseteq early',
         \A p \in applied' : p \in applied \/ (p = e.pts /\ p \in early'),
         e.pts \in waiter'.queue \cup applied'
  PROVE  ClientOK'
<1>1. /\ waiter.good \in Nat /\ waiter.last \in Nat /\ waiter.count \in Nat
      /\ e.pts \in Nat /\ e.count \in Nat
  BY NumbersTyped, EventIsTyped
<1>2. e.pts \in Events /\ Events' = Events
  BY DEF Events
<1>3. /\ waiter'.last = Later(waiter.last, e.pts)
      /\ waiter'.count = waiter.count + e.count
      /\ waiter'.good = waiter.good /\ waiter'.requesting = FALSE
      /\ waiter'.last # waiter'.count
      /\ waiter'.waitingForSkipped /\ waiter'.timer
  BY DEF GapOpened
<1>4. /\ waiter'.last \in Nat /\ waiter.last <= waiter'.last /\ e.pts <= waiter'.last
      /\ waiter'.last \in {waiter.last, e.pts}
  BY <1>1, <1>3 DEF Later
<1>5. \A p \in pending : p \in Nat /\ waiter.good < p /\ p <= waiter.last
  <2>1. pending \subseteq Events
    BY DEF IInv, OncePerEvent
  <2>2. \A p \in Events : p \in Nat
    BY EventIsTyped DEF Events
  <2> QED
    BY <2>1, <2>2 DEF IInv, ClientOK, CountOK
<1>6. pending' = pending \cup {e.pts}
  BY <1>1, <1>3, <1>5
<1>7. RequestOK'
  BY <1>3 DEF IInv, ClientOK, RequestOK, RequestAlive
<1>8. CountOK'
  <2>1. \A p \in pending' : waiter'.good < p /\ p <= waiter'.last
    BY <1>1, <1>3, <1>4, <1>5, <1>6
  <2>2. waiter'.good <= waiter'.last
    <3>1. waiter.good <= waiter.last
      BY DEF IInv, ClientOK, CountOK
    <3> QED
      BY <1>1, <1>3, <1>4, <3>1
  <2>3. waiter.good # 0
    <3>1. request # "state"
      BY DEF IInv, ClientOK, RequestOK, RequestAlive
    <3> QED
      BY <3>1, FirstPtsAssumption DEF IInv, ClientOK, RequestOK
  <2>4. waiter'.count = waiter'.good + Cardinality(SpanOf(log, pending)')
    <3>1. SpanOf(log, pending)' = SpanOf(log, pending \cup {e.pts})
      BY <1>6 DEF SpanOf, Span
    <3>2. Cardinality(SpanOf(log, pending \cup {e.pts})) = Cardinality(SpanOf(log, pending)) + e.count
      BY SpanAdd, LogFollows DEF IInv
    <3>3. Cardinality(SpanOf(log, pending)) \in Nat
      BY SpanFinite, LogFollows DEF IInv
    <3>4. waiter.count = waiter.good + Cardinality(SpanOf(log, pending))
      BY DEF IInv, ClientOK, CountOK
    <3>5. waiter'.count = waiter.good + (Cardinality(SpanOf(log, pending)) + e.count)
      BY <1>1, <1>3, <3>3, <3>4
    <3> QED
      BY <1>3, <3>1, <3>2, <3>5
  <2>5. Boundary(waiter.good)'
    BY <1>3 DEF IInv, ClientOK, CountOK, Boundary
  <2>6. waiter'.last = waiter'.good \/ waiter'.last \in Events'
    BY <1>2, <1>3, <1>4 DEF IInv, ClientOK, CountOK
  <2> QED
    BY <1>3, <2>1, <2>2, <2>3, <2>4, <2>5, <2>6 DEF CountOK
<1>9. QueueOK'
  BY <1>2, <1>3, <1>6 DEF IInv, ClientOK, QueueOK
<1>10. NoLostEvent' /\ NotAhead'
  BY <1>2, <1>3 DEF IInv, ClientOK, NoLostEvent, NotAhead
<1>11. GapWatched'
  BY <1>3 DEF GapWatched, Closes
<1> QED
  BY <1>7, <1>8, <1>9, <1>10, <1>11 DEF ClientOK

\* The event has left no gap: the queue is fed with it.
LEMMA ClosedClient ==
  ASSUME TypeOK, IInv, ~waiter.requesting,
         UNCHANGED <<log, serverPts, request, failTimer, askedPts>>,
         NEW e \in log, e.pts \notin pending, e.pts > waiter.good,
         GapClosed(waiter, waiter', e.pts, e.count),
         pending' = { p \in pending \cup {e.pts} : p > waiter'.good },
         applied' = applied \cup waiter.queue \cup {e.pts},
         early \subseteq early'
  PROVE  ClientOK' /\ waiter'.good >= waiter.good /\ BoxStep
<1>1. /\ waiter.good \in Nat /\ waiter.last \in Nat /\ waiter.count \in Nat
      /\ e.pts \in Nat /\ e.count \in Nat
  BY NumbersTyped, EventIsTyped
<1>2. e.pts \in Events /\ Events' = Events
  BY DEF Events
<1>3. /\ waiter'.last = Later(waiter.last, e.pts)
      /\ waiter'.count = waiter.count + e.count
      /\ waiter'.good = waiter'.last /\ waiter'.requesting = FALSE
      /\ waiter'.last = waiter'.count /\ waiter'.queue = {}
  BY DEF GapClosed
<1>4. /\ waiter'.last \in Nat /\ waiter.last <= waiter'.last /\ e.pts <= waiter'.last
      /\ waiter'.last \in {waiter.last, e.pts}
  BY <1>1, <1>3 DEF Later
<1>5. \A p \in pending : p \in Nat /\ waiter.good < p /\ p <= waiter.last
  <2>1. pending \subseteq Events
    BY DEF IInv, OncePerEvent
  <2>2. \A p \in Events : p \in Nat
    BY EventIsTyped DEF Events
  <2> QED
    BY <2>1, <2>2 DEF IInv, ClientOK, CountOK
<1>6. pending' = {}
  BY <1>1, <1>3, <1>4, <1>5
<1>7. waiter.good <= waiter.last /\ waiter.good <= waiter'.good
  <2>1. waiter.good <= waiter.last
    BY DEF IInv, ClientOK, CountOK
  <2> QED
    BY <1>1, <1>3, <1>4, <2>1
<1>8. request # "state" /\ waiter.good >= FirstPts
  BY DEF IInv, ClientOK, RequestOK, RequestAlive
<1>9. waiter'.good >= FirstPts /\ waiter'.good # 0
  BY <1>1, <1>3, <1>4, <1>7, <1>8, FirstPtsAssumption
<1>10. RequestOK'
  BY <1>3, <1>8, <1>9 DEF IInv, ClientOK, RequestOK, RequestAlive
<1>11. CountOK'
  <2>1. SpanOf(log, pending)' = {}
    BY <1>6 DEF SpanOf
  <2>2. Cardinality(SpanOf(log, pending)') = 0
    BY <2>1, FS_EmptySet
  <2>3. Boundary(waiter'.last)
    <3>1. waiter.last = waiter.good \/ waiter.last \in Events
      BY DEF IInv, ClientOK, CountOK
    <3>2. Boundary(waiter.good)
      BY DEF IInv, ClientOK, CountOK
    <3> QED
      BY <1>2, <1>4, <3>1, <3>2, EventsAreBoundaries DEF IInv
  <2>4. Boundary(waiter.good)'
    BY <1>3, <2>3 DEF Boundary
  <2>5. waiter'.count = waiter'.good + Cardinality(SpanOf(log, pending)')
    BY <1>3, <1>4, <2>2
  <2> QED
    BY <1>3, <1>4, <1>6, <2>4, <2>5 DEF CountOK
<1>12. QueueOK'
  <2>1. waiter.queue \subseteq Events
    BY DEF IInv, ClientOK, QueueOK, OncePerEvent
  <2> QED
    BY <1>2, <1>3, <1>6, <2>1 DEF IInv, ClientOK, QueueOK
<1>13. GapWatched'
  BY <1>3 DEF GapWatched, Closes
<1>14. NoLostEvent'
  <2> SUFFICES ASSUME NEW f \in log, f.pts <= waiter'.good
               PROVE  f.pts \in applied'
    BY DEF NoLostEvent, Events
  <2>1. CASE f.pts <= waiter.good
    BY <2>1 DEF IInv, ClientOK, NoLostEvent, Events
  <2>2. CASE f.pts > waiter.good
    <3> DEFINE S == pending \cup {e.pts}
    <3>1. S \subseteq Events
      BY <1>2 DEF IInv, OncePerEvent
    <3>2. \A p \in S : waiter.good < p /\ p <= waiter'.last
      BY <1>1, <1>4, <1>5
    <3>3. waiter'.last = waiter.good + Cardinality(SpanOf(log, S))
      <4>1. Cardinality(SpanOf(log, S)) = Cardinality(SpanOf(log, pending)) + e.count
        BY SpanAdd, LogFollows DEF IInv
      <4>2. Cardinality(SpanOf(log, pending)) \in Nat
        BY SpanFinite, LogFollows DEF IInv
      <4>3. waiter.count = waiter.good + Cardinality(SpanOf(log, pending))
        BY DEF IInv, ClientOK, CountOK
      <4> HIDE DEF S
      <4> QED
        BY <1>1, <1>3, <4>1, <4>2, <4>3
    <3>4. f.pts <= waiter'.last /\ waiter.good < f.pts
      BY <1>1, <1>3, <2>2, EventIsTyped
    <3>5. Boundary(waiter.good) /\ LogOK
      BY DEF IInv, ClientOK, CountOK
    <3> HIDE DEF S
    <3>6. f.pts \in S
      BY <1>1, <1>4, <3>1, <3>2, <3>3, <3>4, <3>5, NothingMissing, LogFollows
    <3>7. pending \subseteq waiter.queue \cup applied
      BY DEF IInv, ClientOK, QueueOK
    <3> QED
      BY <3>6, <3>7 DEF S
  <2> QED
    BY <1>1, <2>1, <2>2, EventIsTyped
<1>15. NotAhead'
  <2> SUFFICES ASSUME NEW p \in applied'
               PROVE  p <= waiter'.good \/ p \in early'
    BY DEF NotAhead
  <2>1. waiter.queue \subseteq pending
    BY DEF IInv, ClientOK, QueueOK
  <2>2. CASE p \in waiter.queue \cup {e.pts}
    BY <1>1, <1>3, <1>4, <1>5, <2>1, <2>2
  <2>3. CASE p \in applied
    <3>1. p \in Nat
      <4>1. applied \subseteq Pts
        BY DEF TypeOK
      <4> QED
        BY <2>3, <4>1, PtsAreNaturals
    <3>2. p <= waiter.good \/ p \in early
      BY <2>3 DEF IInv, ClientOK, NotAhead
    <3> QED
      BY <1>1, <1>3, <1>4, <1>7, <3>1, <3>2
  <2> QED
    BY <2>2, <2>3
<1>16. BoxStep
  <2>1. waiter'.good \in Pts
    <3>1. waiter.last \in Pts /\ e.pts \in Pts
      BY EventIsTyped DEF TypeOK, Waiters
    <3> QED
      BY <1>3, <1>4, <3>1
  <2>2. waiter.queue \cup {e.pts} \subseteq { q \in Events : q <= waiter'.good }
    <3>1. waiter.queue \subseteq pending /\ pending \subseteq Events
      BY DEF IInv, ClientOK, QueueOK, OncePerEvent
    <3>2. \A q \in pending : q <= waiter'.good
      BY <1>1, <1>3, <1>4, <1>5
    <3> QED
      BY <1>2, <1>3, <1>4, <3>1, <3>2
  <2>3. { q \in Events : q <= waiter'.good } \subseteq applied'
    BY <1>2, <1>14 DEF NoLostEvent
  <2>4. applied' = applied \cup { q \in Events : q <= waiter'.good }
    BY <2>2, <2>3
  <2>5. waiter'.good > waiter.good
    BY <1>1, <1>3, <1>4
  <2>6. Box!Advance(waiter'.good)
    BY <1>2, <2>4, <2>5 DEF Box!Advance
  <2> QED
    BY <2>1, <2>6 DEF BoxStep, Box!Next
<1> QED
  BY <1>1, <1>3, <1>4, <1>7, <1>10, <1>11, <1>12, <1>13, <1>14, <1>15, <1>16 DEF ClientOK

\* A state was taken: the box moves to a pts it had everything up to.
LEMMA StateClient ==
  ASSUME TypeOK, IInv, UNCHANGED <<log, serverPts>>, request # "none",
         NEW pts \in Nat, Boundary(pts), pts >= waiter.good, pts >= FirstPts,
         StateTaken(pts),
         waiter'.good = pts, waiter'.last = pts, waiter'.count = pts,
         waiter'.queue = {}, ~failTimer',
         \/ waiter'.requesting = FALSE /\ request' = "none"
         \/ waiter'.requesting = TRUE /\ request' = "difference" /\ askedPts' = pts
  PROVE  ClientOK' /\ (pts \in Pts => BoxStep)
<1>1. askedPts = waiter.good /\ waiter.good \in Nat
  BY AskedFromGood, NumbersTyped
<1>2. /\ applied' = applied \cup { p \in Events : waiter.good < p /\ p <= pts }
      /\ pending' = {} /\ early' = early
      /\ Events' = Events
  BY <1>1 DEF StateTaken, Fetched, Events
<1>3. pts # 0 /\ pts > 0
  BY FirstPtsAssumption
<1>4. RequestOK'
  BY <1>3 DEF RequestOK, RequestAlive
<1>5. CountOK'
  <2>1. SpanOf(log, pending)' = {}
    BY <1>2 DEF SpanOf
  <2>2. Cardinality(SpanOf(log, pending)') = 0
    BY <2>1, FS_EmptySet
  <2>3. Boundary(waiter.good)'
    BY DEF Boundary
  <2>4. waiter'.count = waiter'.good + Cardinality(SpanOf(log, pending)')
    BY <2>2
  <2> QED
    BY <1>2, <2>3, <2>4 DEF CountOK
<1>6. QueueOK'
  BY <1>2 DEF IInv, ClientOK, QueueOK
<1>7. GapWatched'
  BY DEF GapWatched, Closes
<1>8. NoLostEvent'
  <2> SUFFICES ASSUME NEW p \in Events, p <= pts
               PROVE  p \in applied'
    BY <1>2 DEF NoLostEvent
  <2>1. p \in Nat
    BY EventIsTyped DEF Events
  <2> QED
    BY <1>1, <1>2, <2>1 DEF IInv, ClientOK, NoLostEvent
<1>9. NotAhead'
  <2> SUFFICES ASSUME NEW p \in applied'
               PROVE  p <= pts \/ p \in early
    BY <1>2 DEF NotAhead
  <2>1. CASE p \in applied
    <3>1. p \in Nat
      <4>1. applied \subseteq Pts
        BY DEF TypeOK
      <4> QED
        BY <2>1, <4>1, PtsAreNaturals
    <3>2. p <= waiter.good \/ p \in early
      BY <2>1 DEF IInv, ClientOK, NotAhead
    <3> QED
      BY <1>1, <3>1, <3>2
  <2> QED
    BY <1>2, <2>1
<1>10. ASSUME pts \in Pts
       PROVE  BoxStep
  <2>1. CASE pts = waiter.good
    <3>1. applied' = applied
      BY <1>1, <1>2, <2>1, EventIsTyped DEF Events
    <3> QED
      BY <2>1, <3>1, BoxStutters
  <2>2. CASE pts > waiter.good
    <3>1. applied' = applied \cup { q \in Events : q <= pts }
      <4>1. \A q \in Events : q \in Nat /\ (q <= waiter.good => q \in applied)
        BY EventIsTyped DEF IInv, ClientOK, NoLostEvent, Events
      <4> QED
        BY <1>1, <1>2, <4>1
    <3>2. Box!Advance(pts)
      BY <1>2, <2>2, <3>1 DEF Box!Advance
    <3> QED
      BY <1>10, <3>2 DEF BoxStep, Box!Next
  <2> QED
    BY <1>1, <2>1, <2>2
<1> QED
  BY <1>4, <1>5, <1>6, <1>7, <1>8, <1>9, <1>10 DEF ClientOK

-----------------------------------------------------------------------------
(***************************************************************************)
(* One lemma per handler.  Each also says that the box does not go back,   *)
(* and that it does what the abstract box may do.                          *)
(***************************************************************************)
Kept == IInv' /\ waiter'.good >= waiter.good /\ BoxStep

\* A message that carries an event carries a genuine one.
LEMMA HeadEvent ==
  ASSUME TypeOK, IInv, NEW K \in SUBSET Carriers, Receive(K)
  PROVE  /\ CarriesEvent(Head(net))
         /\ [pts |-> Head(net).pts, count |-> Head(net).count] \in log
         /\ Head(net).pts \notin pending /\ Head(net).pts \in Events
         /\ Head(net).pts \in Pts /\ Head(net).pts \in Nat
         /\ Head(net).count \in Nat \ {0}
<1> DEFINE e == [pts |-> Head(net).pts, count |-> Head(net).count]
<1>1. Head(net) = net[1] /\ 1 \in 1 .. Len(net)
  BY ReceiveIndex
<1>2. CarriesEvent(Head(net))
  BY DEF Receive, CarriesEvent
<1>3. e \in log /\ Head(net).pts \notin pending
  BY <1>1, <1>2 DEF IInv, OncePerEvent, Genuine
<1>4. e.pts = Head(net).pts /\ e.count = Head(net).count
  OBVIOUS
<1> HIDE DEF e
<1>5. e.pts \in Nat /\ e.pts \in Pts /\ e.count \in Nat \ {0} /\ e.pts \in Events
  BY <1>3, EventIsTyped DEF Events
<1> QED
  BY <1>2, <1>3, <1>4, <1>5 DEF e

\* The waiter is one the lemmas about feeding speak of.
LEMMA GoodInited ==
  ASSUME TypeOK, IInv
  PROVE  WaiterOK(waiter)
<1>1. ~waiter.requesting => waiter.good > 0
  <2>1. ~waiter.requesting => request # "state"
    BY DEF IInv, ClientOK, RequestOK, RequestAlive
  <2> QED
    BY <2>1, FirstPtsAssumption, NumbersTyped DEF IInv, ClientOK, RequestOK
<1>2. (waiter.requesting => waiter.queue = {})
      /\ (waiter.queue # {} => waiter.waitingForSkipped)
  BY DEF IInv, ClientOK, QueueOK, GapWatched
<1> QED
  BY <1>1, <1>2 DEF WaiterOK, Steady, TypeOK

\* What both ways of taking an event have in common.
LEMMA EventTaken ==
  ASSUME TypeOK, IInv, NEW K \in SUBSET Carriers, Receive(K),
         UNCHANGED askVars, Count(Head(net).pts, Head(net).count),
         ClientOK', waiter'.good >= waiter.good, BoxStep
  PROVE  Kept
<1>1. UNCHANGED <<log, serverPts, request, askedPts, answered>>
  BY DEF Receive, serverVars, askVars
<1>2. OncePerEvent'
  <2>1. \A p \in pending' : p \in pending \/ p = Head(net).pts
    BY DEF Count
  <2> QED
    BY <2>1, HeadEvent, ReceiveOnce
<1>3. AnswerOK'
  BY <1>1, KeepAnswers
<1>4. LogOK'
  BY <1>1, ServerFrame
<1> QED
  BY <1>2, <1>3, <1>4 DEF Kept, IInv

\* Feeding an update that was taken keeps the invariant.
LEMMA FeedIInv ==
  ASSUME TypeOK, IInv, NEW K \in SUBSET Carriers, Receive(K), Feed(Head(net)),
         early' = early \cup IF waiter.requesting THEN {Head(net).pts} ELSE {}
  PROVE  Kept
<1> DEFINE m == Head(net)
           e == [pts |-> m.pts, count |-> m.count]
           d == UpdateAndApply(waiter, m.pts, m.count)
<1>1. /\ e \in log /\ m.pts \notin pending /\ m.pts \in Events
      /\ m.pts \in Pts /\ m.pts \in Nat /\ m.count \in Nat \ {0}
      /\ e.pts = m.pts /\ e.count = m.count
  BY HeadEvent
<1>2. WaiterOK(waiter) /\ waiter \in Waiters(Pts) /\ waiter.good \in Nat
  BY GoodInited, NumbersTyped DEF TypeOK
<1>3. /\ waiter' = d.waiter /\ applied' = applied \cup d.applied
      /\ Count(m.pts, m.count) /\ UNCHANGED <<log, serverPts, request, failTimer, askedPts>>
      /\ UNCHANGED askVars
  BY DEF Feed, Receive, serverVars, askVars
<1>4. early \subseteq early' /\ (waiter.requesting => m.pts \in early')
  OBVIOUS
<1>5. pending' = IF waiter.requesting \/ m.pts <= waiter.good THEN pending
                 ELSE { p \in pending \cup {m.pts} : p > waiter'.good }
  BY <1>1, <1>3 DEF Count, Covered
<1>6. \/ waiter.requesting /\ waiter' = waiter /\ applied' = applied \cup {m.pts}
      \/ ~waiter.requesting /\ m.pts <= waiter.good /\ waiter' = waiter /\ applied' = applied
      \/ /\ ~waiter.requesting /\ m.pts > waiter.good
         /\ GapClosed(waiter, waiter', m.pts, m.count)
         /\ applied' = applied \cup waiter.queue \cup {m.pts}
      \/ /\ ~waiter.requesting /\ m.pts > waiter.good
         /\ GapOpened(waiter, waiter', m.pts, m.count)
         /\ applied' = applied /\ waiter'.queue = waiter.queue \cup {m.pts}
  <2> HIDE DEF d, m
  <2>1. LET v == d.waiter IN
         \/ waiter.requesting /\ v = waiter /\ d.applied = {m.pts}
         \/ ~waiter.requesting /\ m.pts <= waiter.good /\ v = waiter /\ d.applied = {}
         \/ /\ ~waiter.requesting /\ m.pts > waiter.good
            /\ GapClosed(waiter, v, m.pts, m.count) /\ d.applied = waiter.queue \cup {m.pts}
         \/ /\ ~waiter.requesting /\ m.pts > waiter.good
            /\ GapOpened(waiter, v, m.pts, m.count)
            /\ d.applied = {} /\ v.queue = waiter.queue \cup {m.pts}
    BY <1>1, <1>2, FedOutcome DEF d
  <2> QED
    BY <1>3, <2>1
<1> HIDE DEF d, m, e
<1>7. CASE waiter' = waiter /\ (waiter.requesting \/ m.pts <= waiter.good)
           /\ \/ applied' = applied
              \/ waiter.requesting /\ applied' = applied \cup {m.pts}
  <2>1. pending' = pending
    BY <1>5, <1>7
  <2>2. waiter'.good >= waiter.good
    BY <1>2, <1>7
  <2>3. \A p \in applied' : p \in applied \/ (p \in Events /\ (p <= waiter.good \/ p \in early'))
    BY <1>1, <1>4, <1>7
  <2>4. ClientOK'
    BY <1>3, <1>4, <1>7, <2>1, <2>3, KeptClient
  <2>5. BoxStep
    BY <1>1, <1>3, <1>7, BoxStutters, BoxSees
  <2> QED
    BY <1>3, <2>2, <2>4, <2>5, EventTaken DEF m
<1>8. CASE /\ ~waiter.requesting /\ m.pts > waiter.good
           /\ GapClosed(waiter, waiter', m.pts, m.count)
           /\ applied' = applied \cup waiter.queue \cup {m.pts}
  <2>1. pending' = { p \in pending \cup {e.pts} : p > waiter'.good }
    BY <1>1, <1>2, <1>5, <1>8
  <2>2. ClientOK' /\ waiter'.good >= waiter.good /\ BoxStep
    BY <1>1, <1>3, <1>4, <1>8, <2>1, ClosedClient
  <2> QED
    BY <1>3, <2>2, EventTaken DEF m
<1>9. CASE /\ ~waiter.requesting /\ m.pts > waiter.good
           /\ GapOpened(waiter, waiter', m.pts, m.count)
           /\ applied' = applied /\ waiter'.queue = waiter.queue \cup {m.pts}
  <2>1. pending' = { p \in pending \cup {e.pts} : p > waiter'.good }
    BY <1>1, <1>2, <1>5, <1>9
  <2>2. ClientOK'
    BY <1>1, <1>3, <1>4, <1>9, <2>1, OpenedClient
  <2>3. waiter'.good = waiter.good
    BY <1>9 DEF GapOpened
  <2>4. waiter'.good >= waiter.good /\ BoxStep
    BY <1>2, <1>3, <1>9, <2>3, BoxStutters
  <2> QED
    BY <1>3, <2>2, <2>4, EventTaken DEF m
<1> QED
  BY <1>6, <1>7, <1>8, <1>9

\* An answer with pts of its own keeps the invariant.
LEMMA AffectedIInv ==
  ASSUME TypeOK, IInv, ReceiveAffected
  PROVE  Kept
<1> DEFINE m == Head(net)
           e == [pts |-> m.pts, count |-> m.count]
           d == UpdateApplied(waiter, m.pts, m.count)
           K == {"affected"}
<1>0. K \in SUBSET Carriers /\ Receive(K)
  BY DEF Carriers, ReceiveAffected
<1>1. /\ e \in log /\ m.pts \notin pending /\ m.pts \in Events
      /\ m.pts \in Pts /\ m.pts \in Nat /\ m.count \in Nat \ {0}
      /\ e.pts = m.pts /\ e.count = m.count
  BY <1>0, HeadEvent
<1>2. WaiterOK(waiter) /\ waiter \in Waiters(Pts) /\ waiter.good \in Nat
  BY GoodInited, NumbersTyped DEF TypeOK
<1>3. /\ waiter' = d.waiter /\ applied' = applied \cup d.applied \cup {m.pts}
      /\ Count(m.pts, m.count) /\ UNCHANGED <<log, serverPts, request, failTimer, askedPts>>
      /\ UNCHANGED askVars
      /\ early' = early \cup {m.pts}
  BY DEF ReceiveAffected, Receive, serverVars, askVars
<1>5. pending' = IF waiter.requesting \/ m.pts <= waiter.good THEN pending
                 ELSE { p \in pending \cup {m.pts} : p > waiter'.good }
  BY <1>1, <1>3 DEF Count, Covered
<1>6. \/ /\ waiter.requesting /\ applied' = applied \cup {m.pts}
         /\ waiter'.queue = {} /\ waiter'.requesting = TRUE
         /\ waiter'.good = waiter.good /\ waiter'.last = waiter.last
         /\ waiter'.count = waiter.count
      \/ /\ ~waiter.requesting /\ m.pts <= waiter.good /\ waiter' = waiter
         /\ applied' = applied \cup {m.pts}
      \/ /\ ~waiter.requesting /\ m.pts > waiter.good
         /\ GapClosed(waiter, waiter', m.pts, m.count)
         /\ applied' = applied \cup waiter.queue \cup {m.pts}
      \/ /\ ~waiter.requesting /\ m.pts > waiter.good
         /\ GapOpened(waiter, waiter', m.pts, m.count)
         /\ applied' = applied \cup {m.pts} /\ waiter'.queue = waiter.queue
  <2> HIDE DEF d, m
  <2>1. LET v == d.waiter IN
         \/ /\ waiter.requesting /\ d.applied = {}
            /\ v.queue = {} /\ v.requesting = TRUE
            /\ v.good = waiter.good /\ v.last = waiter.last /\ v.count = waiter.count
         \/ ~waiter.requesting /\ m.pts <= waiter.good /\ v = waiter /\ d.applied = {}
         \/ /\ ~waiter.requesting /\ m.pts > waiter.good
            /\ GapClosed(waiter, v, m.pts, m.count) /\ d.applied = waiter.queue
         \/ /\ ~waiter.requesting /\ m.pts > waiter.good
            /\ GapOpened(waiter, v, m.pts, m.count)
            /\ d.applied = {} /\ v.queue = waiter.queue
    BY <1>1, <1>2, AffectedOutcome DEF d
  <2> QED
    BY <1>3, <2>1
<1> HIDE DEF d, m, e, K
<1>7. CASE /\ waiter.requesting /\ applied' = applied \cup {m.pts}
           /\ waiter'.queue = {} /\ waiter'.requesting = TRUE
           /\ waiter'.good = waiter.good /\ waiter'.last = waiter.last
           /\ waiter'.count = waiter.count
  <2>1. pending' = pending /\ waiter'.good >= waiter.good
    BY <1>2, <1>5, <1>7
  <2>2. waiter'.requesting = waiter.requesting
    BY <1>2, <1>7 DEF Waiters
  <2>3. ClientOK'
    BY <1>1, <1>3, <1>7, <2>1, <2>2, KeptClient
  <2>4. BoxStep
    BY <1>1, <1>3, <1>7, BoxSees
  <2> QED
    BY <1>0, <1>3, <2>1, <2>3, <2>4, EventTaken DEF m
<1>8. CASE /\ ~waiter.requesting /\ m.pts <= waiter.good /\ waiter' = waiter
           /\ applied' = applied \cup {m.pts}
  <2>1. pending' = pending /\ waiter'.good >= waiter.good
    BY <1>2, <1>5, <1>8
  <2>2. ClientOK'
    BY <1>1, <1>3, <1>8, <2>1, KeptClient
  <2>3. BoxStep
    BY <1>1, <1>3, <1>8, BoxSees
  <2> QED
    BY <1>0, <1>3, <2>1, <2>2, <2>3, EventTaken DEF m
<1>9. CASE /\ ~waiter.requesting /\ m.pts > waiter.good
           /\ GapClosed(waiter, waiter', m.pts, m.count)
           /\ applied' = applied \cup waiter.queue \cup {m.pts}
  <2>1. pending' = { p \in pending \cup {e.pts} : p > waiter'.good }
    BY <1>1, <1>2, <1>5, <1>9
  <2>2. ClientOK' /\ waiter'.good >= waiter.good /\ BoxStep
    BY <1>1, <1>3, <1>9, <2>1, ClosedClient
  <2> QED
    BY <1>0, <1>3, <2>2, EventTaken DEF m
<1>10. CASE /\ ~waiter.requesting /\ m.pts > waiter.good
            /\ GapOpened(waiter, waiter', m.pts, m.count)
            /\ applied' = applied \cup {m.pts} /\ waiter'.queue = waiter.queue
  <2>1. pending' = { p \in pending \cup {e.pts} : p > waiter'.good }
    BY <1>1, <1>2, <1>5, <1>10
  <2>2. ClientOK'
    BY <1>1, <1>3, <1>10, <2>1, OpenedClient
  <2>3. waiter'.good = waiter.good
    BY <1>10 DEF GapOpened
  <2>4. waiter'.good >= waiter.good /\ BoxStep
    BY <1>1, <1>2, <1>3, <1>10, <2>3, BoxSees
  <2> QED
    BY <1>0, <1>3, <2>2, <2>4, EventTaken DEF m
<1> QED
  BY <1>6, <1>7, <1>8, <1>9, <1>10

\* The message is taken, or a timer fires, and all that happens is that the
\* difference may be asked for.
LEMMA AskIInv ==
  ASSUME TypeOK, IInv,
         UNCHANGED <<log, serverPts, outbox, dataVars>>,
         net' = net \/ \E K : Receive(K),
         \/ GetDifference(waiter)
         \/ failTimer /\ GetDifference(SetRequesting(waiter, FALSE))
  PROVE  Kept
<1>1. /\ ClientOK'
      /\ request = "none" \/ UNCHANGED <<request, askedPts, answered>>
  BY GetDifferenceClient
<1>2. LogOK' /\ pending' = pending
  BY ServerFrame DEF dataVars
<1>3. waiter'.good >= waiter.good /\ BoxStep
  <2>1. waiter \in Waiters(Pts) /\ waiter.good \in Nat
    BY NumbersTyped DEF TypeOK
  <2>2. ASSUME NEW w \in Waiters(Pts), w.good = waiter.good, GetDifference(w)
        PROVE  waiter'.good = waiter.good
    <3>1. waiter' = [w EXCEPT !.timer = FALSE] \/
          waiter' = SetRequesting([w EXCEPT !.timer = FALSE], TRUE)
      BY <2>2 DEF GetDifference
    <3> QED
      BY <2>2, <3>1 DEF SetRequesting, Waiters
  <2>3. SetRequesting(waiter, FALSE) \in Waiters(Pts)
        /\ SetRequesting(waiter, FALSE).good = waiter.good
    BY <2>1 DEF SetRequesting, Waiters
  <2>4. waiter'.good = waiter.good
    BY <2>1, <2>2, <2>3
  <2> QED
    BY <2>1, <2>4, BoxStutters DEF dataVars
<1>4. CASE net' = net
  <2>1. OncePerEvent'
    BY <1>2, <1>4, OnceFrame
  <2>2. AnswerOK'
    <3>1. CASE request = "none"
      BY <1>4, <3>1 DEF IInv, AnswerOK
    <3>2. CASE UNCHANGED <<request, askedPts, answered>>
      BY <1>4, <3>2, AnswerFrame
    <3> QED
      BY <1>1, <3>1, <3>2
  <2> QED
    BY <1>1, <1>2, <1>3, <2>1, <2>2 DEF Kept, IInv
<1>5. ASSUME NEW K, Receive(K)
      PROVE  Kept
  <2>1. OncePerEvent'
    BY <1>2, <1>5, ReceiveOnce
  <2>2. AnswerOK'
    BY <1>1, <1>5, IdleNoAnswers, KeepAnswers
  <2> QED
    BY <1>1, <1>2, <1>3, <2>1, <2>2 DEF Kept, IInv
<1> QED
  BY <1>4, <1>5

\* The message is taken and nothing that the invariant speaks of changes.
LEMMA PassIInv ==
  ASSUME TypeOK, IInv, NEW K, Receive(K),
         UNCHANGED <<waiter, askVars, dataVars>>
  PROVE  Kept
<1>1. /\ UNCHANGED <<log, serverPts, request, failTimer, askedPts, answered>>
      /\ pending' = pending
  BY DEF Receive, serverVars, askVars, dataVars
<1>2. OncePerEvent' /\ AnswerOK'
  BY <1>1, ReceiveOnce, KeepAnswers
<1>3. ClientOK' /\ LogOK'
  BY <1>1, ClientFrame, ServerFrame DEF IInv
<1>4. waiter'.good >= waiter.good /\ BoxStep
  BY <1>1, NumbersTyped, BoxStutters DEF dataVars
<1> QED
  BY <1>2, <1>3, <1>4 DEF Kept, IInv

\* What an answer says of the request.
LEMMA HeadAnswer ==
  ASSUME TypeOK, IInv, NEW K \in SUBSET Answers, Receive(K)
  PROVE  /\ request # "none" /\ askedPts = waiter.good /\ ~failTimer
         /\ waiter.requesting
         /\ Head(net).kind = "state" <=> request = "state"
         /\ Head(net).pts \in Nat
         /\ Head(net).kind \in {"state", "slice", "difference"} =>
              /\ Boundary(Head(net).pts)
              /\ Head(net).pts > waiter.good /\ Head(net).pts >= FirstPts
         /\ AnswerOK' /\ LogOK'
<1>1. /\ Head(net) = net[1] /\ 1 \in 1 .. Len(net) /\ Head(net).kind \in Answers
      /\ UNCHANGED <<log, serverPts>>
  BY ReceiveIndex DEF Receive
<1>2. /\ request # "none"
      /\ Head(net).kind = "state" <=> request = "state"
      /\ Head(net).kind \in {"state", "slice", "difference"} =>
           /\ Boundary(Head(net).pts)
           /\ Head(net).pts > askedPts /\ Head(net).pts >= FirstPts
  BY <1>1 DEF IInv, AnswerOK
<1>3. askedPts = waiter.good /\ ~failTimer /\ waiter.requesting
  BY <1>2, AskedFromGood
<1>4. Head(net).pts \in Nat
  BY <1>1, NumbersTyped
<1>5. AnswerOK' /\ LogOK'
  BY <1>1, IdleNoAnswers, ServerFrame
<1> QED
  BY <1>2, <1>3, <1>4, <1>5

\* The last answer, or the only one, and the pts it leads to.
LEMMA LastIInv ==
  ASSUME TypeOK, IInv, NEW K \in SUBSET Answers, Receive(K),
         NEW pts \in Nat, pts \in Pts, Boundary(pts), pts >= waiter.good, pts >= FirstPts,
         waiter' = SetRequesting(InitPts(waiter, pts), FALSE),
         StateTaken(pts), RequestDone, UNCHANGED failTimer
  PROVE  Kept
<1>1. request # "none" /\ ~failTimer /\ AnswerOK' /\ LogOK'
  BY HeadAnswer
<1>2. waiter \in Waiters(Pts)
  BY DEF TypeOK
<1>3. /\ waiter'.good = pts /\ waiter'.last = pts /\ waiter'.count = pts
      /\ waiter'.queue = {} /\ waiter'.requesting = FALSE
  BY <1>2 DEF SetRequesting, InitPts, Waiters
<1>4. ClientOK' /\ BoxStep
  <2>1. request' = "none" /\ ~failTimer' /\ UNCHANGED <<log, serverPts>>
    BY <1>1 DEF RequestDone, Receive, serverVars
  <2> QED
    BY <1>1, <1>3, <2>1, StateClient
<1>5. OncePerEvent'
  BY ReceiveOnce DEF StateTaken
<1> QED
  BY <1>1, <1>3, <1>4, <1>5 DEF Kept, IInv

\* The state, or the last part of a difference, keeps the invariant.
LEMMA StateIInv ==
  ASSUME TypeOK, IInv, ReceiveState
  PROVE  Kept
<1> DEFINE K == {"state", "difference"}
           pts == Head(net).pts
<1>1. Receive(K) /\ K \in SUBSET Answers /\ Head(net).kind \in K
  BY DEF ReceiveState, Receive, Answers
<1>2. waiter' = SetRequesting(InitPts(waiter, pts), FALSE)
      /\ StateTaken(pts) /\ RequestDone /\ UNCHANGED failTimer
  BY DEF ReceiveState
<1> HIDE DEF K
<1>3. pts \in Nat /\ Boundary(pts) /\ pts > waiter.good /\ pts >= FirstPts
  BY <1>1, HeadAnswer DEF K
<1>4. pts >= waiter.good /\ pts \in Pts
  <2>1. Head(net) = net[1] /\ 1 \in 1 .. Len(net)
    BY <1>1, ReceiveIndex
  <2> QED
    BY <1>3, <2>1, NumbersTyped
<1> HIDE DEF pts
<1> QED
  BY <1>1, <1>2, <1>3, <1>4, LastIInv

\* An empty difference keeps the invariant.
LEMMA EmptyIInv ==
  ASSUME TypeOK, IInv, ReceiveEmpty
  PROVE  Kept
<1> DEFINE K == {"empty"}
<1>1. Receive(K) /\ K \in SUBSET Answers /\ Head(net).kind = "empty"
  BY DEF ReceiveEmpty, Receive, Answers
<1>2. waiter' = SetRequesting(InitPts(waiter, waiter.good), FALSE)
      /\ StateTaken(waiter.good) /\ RequestDone /\ UNCHANGED failTimer
  BY DEF ReceiveEmpty
<1>3. request # "state"
  BY <1>1, HeadAnswer
<1>4. waiter.good \in Nat /\ Boundary(waiter.good) /\ waiter.good >= waiter.good
      /\ waiter.good >= FirstPts
  BY <1>3, NumbersTyped DEF IInv, ClientOK, CountOK, RequestOK
<1>5. waiter.good \in Pts
  BY DEF TypeOK, Waiters
<1> HIDE DEF K
<1> QED
  BY <1>1, <1>2, <1>4, <1>5, LastIInv

\* A slice, after which the next is asked for, keeps the invariant.
LEMMA SliceIInv ==
  ASSUME TypeOK, IInv, ReceiveSlice
  PROVE  Kept
<1> DEFINE K == {"slice"}
           pts == Head(net).pts
           w == SetRequesting(InitPts(waiter, pts), FALSE)
<1>1. Receive(K) /\ K \in SUBSET Answers /\ Head(net).kind = "slice"
  BY DEF ReceiveSlice, Receive, Answers
<1>2. GetDifference(w) /\ StateTaken(pts)
  BY DEF ReceiveSlice
<1> HIDE DEF K
<1>3. /\ pts \in Nat /\ Boundary(pts) /\ pts > waiter.good /\ pts >= FirstPts
      /\ request # "none" /\ AnswerOK' /\ LogOK'
  BY <1>1, HeadAnswer
<1>4. pts >= waiter.good /\ pts \in Pts /\ waiter \in Waiters(Pts)
  <2>1. pts \in Pts
    <3>1. Head(net) = net[1] /\ 1 \in 1 .. Len(net)
      BY <1>1, ReceiveIndex
    <3> QED
      BY <3>1, NumbersTyped
  <2> QED
    BY <1>3, <2>1, NumbersTyped DEF TypeOK
<1> HIDE DEF pts
<1>5. /\ w \in Waiters(Pts) /\ w.requesting = FALSE
      /\ w.good = pts /\ w.last = pts /\ w.count = pts
  BY <1>3, <1>4 DEF SetRequesting, InitPts, Waiters
<1> HIDE DEF w
<1>6. /\ request' = "difference" /\ askedPts' = pts /\ ~failTimer'
      /\ waiter' = SetRequesting([w EXCEPT !.timer = FALSE], TRUE)
  BY <1>2, <1>5 DEF GetDifference
<1>7. /\ waiter'.good = pts /\ waiter'.last = pts /\ waiter'.count = pts
      /\ waiter'.queue = {} /\ waiter'.requesting = TRUE
  BY <1>5, <1>6 DEF SetRequesting, Waiters
<1>8. UNCHANGED <<log, serverPts>>
  BY <1>1 DEF Receive, serverVars
<1>9. ClientOK' /\ BoxStep
  BY <1>2, <1>3, <1>4, <1>6, <1>7, <1>8, StateClient
<1>10. OncePerEvent'
  BY <1>1, <1>2, ReceiveOnce DEF StateTaken
<1> QED
  BY <1>3, <1>4, <1>7, <1>9, <1>10 DEF Kept, IInv

\* A failed request keeps the invariant: the retry timer is armed.
LEMMA FailIInv ==
  ASSUME TypeOK, IInv, ReceiveFail
  PROVE  Kept
<1> DEFINE K == {"fail"}
<1>1. Receive(K) /\ K \in SUBSET Answers /\ Head(net).kind = "fail"
  BY DEF ReceiveFail, Receive, Answers
<1>2. /\ UNCHANGED <<log, serverPts, waiter, applied, early, pending>>
      /\ request' = "none" /\ failTimer' = TRUE
  BY DEF ReceiveFail, Receive, serverVars, dataVars, RequestDone
<1> HIDE DEF K
<1>3. /\ request # "state" /\ waiter.requesting
      /\ AnswerOK' /\ LogOK'
  BY <1>1, HeadAnswer
<1>4. OncePerEvent'
  BY <1>1, <1>2, ReceiveOnce
<1>5. ClientOK'
  <2>1. RequestOK'
    BY <1>2, <1>3 DEF IInv, ClientOK, RequestOK, RequestAlive
  <2>2. CountOK'
    BY <1>2 DEF IInv, ClientOK, CountOK, SpanOf, Boundary, Events
  <2>3. QueueOK' /\ GapWatched' /\ NoLostEvent' /\ NotAhead'
    BY <1>2 DEF IInv, ClientOK, QueueOK, GapWatched, NoLostEvent, NotAhead, Events
  <2> QED
    BY <2>1, <2>2, <2>3 DEF ClientOK
<1>6. waiter'.good >= waiter.good /\ BoxStep
  BY <1>2, NumbersTyped, BoxStutters
<1> QED
  BY <1>3, <1>4, <1>5, <1>6 DEF Kept, IInv

\* Every handler of the main thread keeps the invariant.
LEMMA HandleIInv ==
  ASSUME TypeOK, IInv, Handle
  PROVE  Kept
<1>1. ASSUME NEW K, Receive(K)
      PROVE  UNCHANGED <<log, serverPts, outbox>> /\ \E L : Receive(L)
  BY <1>1 DEF serverVars, Receive
<1>2. CASE SkipPush
  BY <1>2, PassIInv DEF SkipPush, clientVars
<1>3. CASE ReceiveSeq
  BY <1>3, PassIInv DEF ReceiveSeq
<1>4. CASE ReceiveTooLong
  BY <1>1, <1>4, AskIInv DEF ReceiveTooLong
<1>5. CASE ReceiveNewSession
  BY <1>1, <1>5, AskIInv DEF ReceiveNewSession
<1>6. ASSUME NEW K, Receive(K), FeedUnknown
      PROVE  Kept
  BY <1>1, <1>6, AskIInv DEF FeedUnknown
<1>7. CASE ReceiveUpdate
  <2>1. CASE Feed(Head(net)) /\ UNCHANGED early
    <3>1. Receive({"update"}) /\ {"update"} \in SUBSET Carriers /\ ~waiter.requesting
      BY <1>7 DEF ReceiveUpdate, Carriers
    <3>2. early' = early \cup IF waiter.requesting THEN {Head(net).pts} ELSE {}
      BY <2>1, <3>1
    <3> QED
      BY <2>1, <3>1, <3>2, FeedIInv
  <2> QED
    BY <1>6, <1>7, <2>1 DEF ReceiveUpdate
<1>8. CASE ReceiveSent
  <2>1. Receive({"sent"}) /\ {"sent"} \in SUBSET Carriers
    BY <1>8 DEF ReceiveSent, Carriers
  <2> QED
    BY <1>6, <1>8, <2>1, FeedIInv DEF ReceiveSent
<1> QED
  BY <1>2, <1>3, <1>4, <1>5, <1>7, <1>8, AffectedIInv, StateIInv, EmptyIInv,
     SliceIInv, FailIInv DEF Handle

\* The timers keep the invariant.
LEMMA TimersIInv ==
  ASSUME TypeOK, IInv, Timers
  PROVE  Kept
<1>1. UNCHANGED <<log, serverPts, outbox, net, dataVars>>
  BY DEF Timers, ByPtsTimer, BySeqTimer, FailTimer, serverVars
<1>2. \/ GetDifference(waiter)
      \/ failTimer /\ GetDifference(SetRequesting(waiter, FALSE))
  BY DEF Timers, ByPtsTimer, BySeqTimer, FailTimer
<1> QED
  BY <1>1, <1>2, AskIInv

\* The server and the connection keep the invariant.
LEMMA ServerIInv ==
  ASSUME TypeOK, TypeOK', IInv, Server
  PROVE  Kept
<1>1. IInv'
  BY ProduceIInv, ProduceSeqIInv, DeliverIInv, LosePushIInv, PushTooLongIInv,
     LoseSessionIInv, AnswersIInv DEF Server
<1>2. waiter' = waiter /\ applied' = applied /\ waiter.good \in Nat
  BY NumbersTyped DEF Server, Produce, ProduceSeq, Deliver, LosePush, PushTooLong,
     LoseSession, AnswerState, AnswerDifference, AnswerFail, Answer, clientVars, dataVars
<1>3. CASE ~Produce
  <2>1. log' = log
    BY <1>3 DEF Server, ProduceSeq, Deliver, LosePush, PushTooLong,
       LoseSession, AnswerState, AnswerDifference, AnswerFail, Answer
  <2> QED
    BY <1>1, <1>2, <2>1, BoxStutters DEF Kept
<1>4. CASE Produce
  <2>1. PICK count \in Counts : /\ serverPts' = serverPts + count
                                /\ log' = log \cup {[pts |-> serverPts', count |-> count]}
    BY <1>4 DEF Produce
  <2> DEFINE new == [pts |-> serverPts', count |-> count]
  <2>2. serverPts < serverPts' /\ serverPts \in Nat /\ serverPts' \in Nat /\ serverPts' \in Pts
    BY <2>1, CountsAssumption, PtsAreNaturals DEF TypeOK
  <2>3. log' = log \cup {new} /\ new.pts = serverPts'
    BY <2>1
  <2> HIDE DEF new
  <2>4. Events' = Events \cup {serverPts'}
    BY <2>3 DEF Events
  <2>5. waiter.good <= serverPts
    BY DEF IInv, ClientOK, CountOK, Boundary
  <2>6. \A q \in Events : q < serverPts'
    BY <2>2, EventIsTyped DEF IInv, LogOK, Events
  <2>7. Box!Make(serverPts')
    BY <1>2, <2>2, <2>4, <2>5, <2>6 DEF Box!Make
  <2> QED
    BY <1>1, <1>2, <2>2, <2>7 DEF Kept, BoxStep, Box!Next
<1> QED
  BY <1>3, <1>4

\* Every step keeps the invariant.
LEMMA StepKept ==
  ASSUME TypeOK, TypeOK', IInv, [Next]_vars
  PROVE  Kept
<1>1. CASE UNCHANGED vars
  <2>1. /\ UNCHANGED <<log, serverPts, net, outbox, pending, applied, waiter>>
        /\ UNCHANGED <<request, failTimer, askedPts, answered, dataVars>>
    BY <1>1 DEF vars, serverVars, askVars, dataVars
  <2>2. LogOK' /\ OncePerEvent' /\ AnswerOK' /\ ClientOK'
    BY <2>1, ServerFrame, OnceFrame, AnswerFrame, ClientFrame DEF IInv
  <2>3. waiter'.good >= waiter.good
    BY <2>1, NumbersTyped
  <2> QED
    BY <2>1, <2>2, <2>3, BoxStutters DEF Kept, IInv
<1> QED
  BY <1>1, HandleIInv, TimersIInv, ServerIInv DEF Next

-----------------------------------------------------------------------------
(***************************************************************************)
(* The theorems: in every instance, whatever is lost, reordered or late.   *)
(***************************************************************************)

\* The inductive invariant.
LEMMA Invariance == Spec => [](TypeOK /\ IInv)
<1>1. Init => TypeOK /\ IInv
  BY InitTypeOK, InitIInv
<1>2. TypeOK /\ IInv /\ [Next]_vars => (TypeOK /\ IInv)'
  BY TypeInductive, StepKept DEF Kept
<1> QED
  BY <1>1, <1>2, PTL DEF Spec

\* Whatever ended at or before "good" is in the data of the client: a check
\* of the waiter that finds count = last has missed nothing.
THEOREM NothingIsLost == Spec => []NoLostEvent
<1>1. IInv => NoLostEvent
  BY DEF IInv, ClientOK
<1> QED
  BY <1>1, Invariance, PTL

\* No pushed event is applied over a gap.
THEOREM NothingIsAhead == Spec => []NotAhead
<1>1. IInv => NotAhead
  BY DEF IInv, ClientOK
<1> QED
  BY <1>1, Invariance, PTL

\* A gap is never left without the timer that asks for the difference.
THEOREM GapsAreWatched == Spec => []GapWatched
<1>1. IInv => GapWatched
  BY DEF IInv, ClientOK
<1> QED
  BY <1>1, Invariance, PTL

\* While "requesting" is set exactly one thing that will reset it is under way.
THEOREM RequestsAreAlive == Spec => []RequestAlive
<1>1. IInv => RequestAlive
  BY DEF IInv, ClientOK, RequestOK
<1> QED
  BY <1>1, Invariance, PTL

\* Nothing that comes late takes the box back.
THEOREM TheBoxNeverGoesBack == Spec => NeverBack
<1>1. TypeOK /\ TypeOK' /\ IInv /\ [Next]_vars => [waiter'.good >= waiter.good]_vars
  BY StepKept DEF Kept
<1> QED
  BY <1>1, Invariance, PTL DEF Spec, NeverBack

\* The common box keeps the promise of the abstract one.
THEOREM UpdatesImplementsEventBox == Spec => BoxSpec
<1>1. Init => Box!Init
  BY FirstPtsAssumption, MaxPtsAssumption
     DEF Init, Box!Init, Events, Fresh, SetRequesting, Pts
<1>2. TypeOK /\ TypeOK' /\ IInv /\ [Next]_vars => [Box!Next]_<<Events, applied, waiter.good>>
  BY StepKept DEF Kept, BoxStep
<1> QED
  BY <1>1, <1>2, Invariance, PTL DEF Spec, BoxSpec, Box!Spec, Box!vars

(***************************************************************************)
(* The containers that the server numbers by seq: what is fed, and what is *)
(* kept until the missing ones come.  This needs nothing of the server:    *)
(* any seq may come, at any time, in any order.                            *)
(***************************************************************************)
\* The run of kept containers ends before the first one that is missing.
LEMMA RunIsInterval ==
  ASSUME NEW kept \in SUBSET (0 .. MaxSeq), NEW seq \in Nat
  PROVE  /\ RunEnd(kept, seq) \in Nat /\ seq <= RunEnd(kept, seq)
         /\ seq + 1 .. RunEnd(kept, seq) \subseteq kept
         /\ RunEnd(kept, seq) + 1 \notin kept
<1> DEFINE missing == { n \in Nat : n > seq /\ n \notin kept }
<1>1. seq + MaxSeq + 1 \in missing
  BY BoundsAssumption
<1>2. PICK gap \in missing : \A n \in missing : gap <= n
  <2> HIDE DEF missing
  <2>1. missing \in SUBSET Nat
    BY DEF missing
  <2> QED
    BY <1>1, <2>1, LeastExists
<1>3. Run(kept, seq) = seq + 1 .. gap - 1
  <2>1. ASSUME NEW s \in Run(kept, seq)
        PROVE  s \in seq + 1 .. gap - 1
    <3>1. s \in Nat /\ s > seq /\ seq + 1 .. s \subseteq kept
      BY BoundsAssumption DEF Run
    <3>2. gap \notin seq + 1 .. s
      BY <3>1
    <3>3. \A a, b \in Nat : a > b /\ a # b + 1 => a > b + 1
      OBVIOUS
    <3> QED
      BY <3>1, <3>2, <3>3
  <2>2. ASSUME NEW s \in seq + 1 .. gap - 1
        PROVE  s \in Run(kept, seq)
    <3>1. ASSUME NEW t \in seq + 1 .. s
          PROVE  t \in kept
      <4>1. t \in Nat /\ t > seq /\ ~(gap <= t)
        OBVIOUS
      <4> QED
        BY <1>2, <4>1
    <3>2. seq + 1 .. s \subseteq kept
      BY <3>1
    <3>3. s \in kept /\ s > seq
      BY <3>1
    <3> QED
      BY <3>2, <3>3 DEF Run
  <2> QED
    BY <2>1, <2>2
<1>4. RunEnd(kept, seq) = gap - 1
  <2>1. Cardinality(seq + 1 .. gap - 1) = gap - 1 - seq
    <3>1. seq + 1 \in Int /\ gap - 1 \in Int
      OBVIOUS
    <3> QED
      BY <3>1, FS_Interval
  <2> QED
    BY <1>3, <2>1 DEF RunEnd
<1>5. seq + 1 .. gap - 1 \subseteq kept
  BY <1>3 DEF Run
<1> QED
  BY <1>4, <1>5

\* setState(): the seq it leaves, when it is a new one.
LEMMA SeqAfterRuns ==
  ASSUME TypeOK, NEW seq \in 0 .. MaxSeq, ~SameSeq(seq)
  PROVE  /\ SeqAfter(seq) \in Nat /\ seq <= SeqAfter(seq)
         /\ seq + 1 .. SeqAfter(seq) \subseteq bySeqUpdates
         /\ SeqAfter(seq) + 1 \notin bySeqUpdates
<1>1. seq \in Nat /\ bySeqUpdates \in SUBSET (0 .. MaxSeq)
  BY BoundsAssumption DEF TypeOK
<1>2. SeqAfter(seq) = RunEnd(bySeqUpdates, seq)
  BY DEF SeqAfter
<1> QED
  BY <1>1, <1>2, RunIsInterval

\* A container that comes in turn, and those it lets through, are all fed.
LEMMA RunIsFed ==
  ASSUME TypeOK, NEW seq \in 0 .. MaxSeq, ~SameSeq(seq), updatesSeq' = SeqAfter(seq),
         1 .. seq \subseteq seqDone', Replayed(seq) \subseteq seqDone'
  PROVE  SeqInOrder'
<1>1. /\ updatesSeq' \in Nat /\ seq <= updatesSeq' /\ seq \in Nat
      /\ seq + 1 .. updatesSeq' \subseteq bySeqUpdates
  BY SeqAfterRuns, BoundsAssumption
<1>2. ASSUME NEW s \in 1 .. updatesSeq'
      PROVE  s \in seqDone'
  <2>1. CASE s <= seq
    BY <1>1, <2>1
  <2>2. CASE s > seq
    <3>1. s \in Replayed(seq)
      BY <1>1, <2>2 DEF Replayed
    <3> QED
      BY <3>1
  <2> QED
    BY <1>1, <2>1, <2>2
<1> QED
  BY <1>2 DEF SeqInOrder

\* setState() leaves kept what is beyond a hole, with the timer.
LEMMA SetSeqWatched ==
  ASSUME TypeOK, SeqWatched, NEW seq \in 0 .. MaxSeq, SetSeq(seq)
  PROVE  SeqWatched'
<1>1. CASE SameSeq(seq)
  BY <1>1 DEF SetSeq, SeqAfter, SeqWatched
<1>2. CASE ~SameSeq(seq)
  <2>1. /\ updatesSeq' \in Nat /\ updatesSeq' + 1 \notin bySeqUpdates
        /\ bySeqUpdates' = { s \in bySeqUpdates : s > updatesSeq' }
        /\ bySeqTimer' <=> bySeqUpdates' # {}
    BY <1>2, SeqAfterRuns DEF SetSeq
  <2>2. bySeqUpdates \subseteq Nat
    BY BoundsAssumption DEF TypeOK
  <2>3. ASSUME NEW s \in bySeqUpdates'
        PROVE  s > updatesSeq' + 1
    <3>1. s \in bySeqUpdates /\ s > updatesSeq'
      BY <2>1
    <3>2. s \in Nat /\ updatesSeq' \in Nat /\ s # updatesSeq' + 1
      BY <2>1, <2>2, <3>1
    <3>3. \A a, b \in Nat : a > b /\ a # b + 1 => a > b + 1
      OBVIOUS
    <3> QED
      BY <3>1, <3>2, <3>3
  <2> QED
    BY <2>1, <2>3 DEF SeqWatched
<1> QED
  BY <1>1, <1>2

\* A state that was taken stands for the containers up to its seq.
LEMMA CoveredInOrder ==
  ASSUME TypeOK, SeqInOrder, NEW seq \in 0 .. MaxSeq, updatesSeq' = SeqAfter(seq),
         SeqCovered(seq)
  PROVE  SeqInOrder'
<1>1. seqDone \subseteq seqDone' /\ 1 .. seq \subseteq seqDone' /\ Replayed(seq) \subseteq seqDone'
  BY DEF SeqCovered
<1>2. CASE SameSeq(seq)
  BY <1>1, <1>2 DEF SeqAfter, SeqInOrder
<1> QED
  BY <1>1, <1>2, RunIsFed

\* getDifference() drops what is kept, or leaves it alone.
LEMMA AskingWatched ==
  ASSUME TypeOK, SeqWatched, NEW w, GetDifference(w), updatesSeq' \in {0, updatesSeq}
  PROVE  SeqWatched'
<1>1. CASE bySeqUpdates' = {}
  BY <1>1 DEF SeqWatched
<1>2. CASE bySeqUpdates' # {}
  <2>1. UNCHANGED <<bySeqUpdates, bySeqTimer>>
    BY <1>2 DEF GetDifference
  <2>2. \A s \in bySeqUpdates : s \in Nat /\ updatesSeq \in Nat
    BY BoundsAssumption DEF TypeOK
  <2> QED
    BY <2>1, <2>2 DEF SeqWatched
<1> QED
  BY <1>1, <1>2

\* Every step keeps the two properties of the containers.
LEMMA SeqStep ==
  ASSUME TypeOK, SeqInOrder, SeqWatched, [Next]_vars
  PROVE  SeqInOrder' /\ SeqWatched'
<1>1. ASSUME UNCHANGED <<seqVars, seqDone>>
      PROVE  SeqInOrder' /\ SeqWatched'
  BY <1>1 DEF seqVars, SeqInOrder, SeqWatched
<1>2. ASSUME NEW w, GetDifference(w), UNCHANGED <<updatesSeq, seqDone>>
      PROVE  SeqInOrder' /\ SeqWatched'
  BY <1>2, AskingWatched DEF SeqInOrder
<1>3. CASE UNCHANGED vars
  BY <1>1, <1>3 DEF vars
<1>4. CASE Server
  BY <1>1, <1>4 DEF Server, Produce, ProduceSeq, Deliver, LosePush, PushTooLong,
     LoseSession, AnswerState, AnswerDifference, AnswerFail, Answer, clientVars
<1>5. CASE SkipPush \/ ReceiveFail \/ ReceiveAffected
  BY <1>1, <1>5 DEF SkipPush, ReceiveFail, ReceiveAffected, clientVars
<1>6. CASE ReceiveUpdate \/ ReceiveSent
  BY <1>1, <1>2, <1>6 DEF ReceiveUpdate, ReceiveSent, Feed, FeedUnknown
<1>7. CASE ReceiveTooLong \/ Timers
  BY <1>2, <1>7 DEF ReceiveTooLong, Timers, ByPtsTimer, BySeqTimer, FailTimer
<1>8. CASE ReceiveNewSession
  <2>1. updatesSeq' = 0 /\ GetDifference(waiter)
    BY <1>8 DEF ReceiveNewSession
  <2>2. SeqInOrder'
    BY <2>1 DEF SeqInOrder
  <2> QED
    BY <2>1, <2>2, AskingWatched
<1>9. CASE ReceiveSeq
  <2> DEFINE seq == Head(net).seq
  <2>1. seq \in 0 .. MaxSeq /\ seq \in Nat /\ updatesSeq \in Nat
    BY <1>9, ReceiveType, BoundsAssumption DEF ReceiveSeq, TypeOK
  <2>2. CASE seq <= updatesSeq
    BY <1>1, <1>9, <2>1, <2>2 DEF ReceiveSeq
  <2>3. CASE seq > updatesSeq + 1
    <3>1. /\ bySeqUpdates' = bySeqUpdates \cup {seq} /\ bySeqTimer'
          /\ UNCHANGED <<updatesSeq, seqDone>>
      BY <1>9, <2>1, <2>3 DEF ReceiveSeq
    <3> QED
      BY <2>3, <3>1 DEF SeqInOrder, SeqWatched
  <2>4. CASE seq = updatesSeq + 1
    <3>1. SetSeq(seq) /\ seqDone' = seqDone \cup {seq} \cup Replayed(seq)
      BY <1>9, <2>1, <2>4 DEF ReceiveSeq
    <3>2. ~SameSeq(seq)
      BY <2>1, <2>4 DEF SameSeq
    <3>3. 1 .. seq \subseteq seqDone'
      BY <2>1, <2>4, <3>1 DEF SeqInOrder
    <3> HIDE DEF seq
    <3>4. SeqInOrder'
      BY <2>1, <3>1, <3>2, <3>3, RunIsFed DEF SetSeq
    <3> QED
      BY <2>1, <3>1, <3>4, SetSeqWatched
  <2> QED
    BY <2>1, <2>2, <2>3, <2>4
<1>10. CASE ReceiveState \/ ReceiveEmpty
  <2> DEFINE seq == Head(net).seq
  <2>1. seq \in 0 .. MaxSeq
    BY <1>10, ReceiveType DEF ReceiveState, ReceiveEmpty
  <2>2. SetSeq(seq) /\ SeqCovered(seq)
    BY <1>10 DEF ReceiveState, ReceiveEmpty
  <2> HIDE DEF seq
  <2>3. SeqInOrder'
    BY <2>1, <2>2, CoveredInOrder DEF SetSeq
  <2> QED
    BY <2>1, <2>2, <2>3, SetSeqWatched
<1>11. CASE ReceiveSlice
  <2> DEFINE seq == Head(net).seq
  <2>1. seq \in 0 .. MaxSeq
    BY <1>11, ReceiveType DEF ReceiveSlice
  <2>2. updatesSeq' = SeqAfter(seq) /\ SeqCovered(seq)
    BY <1>11 DEF ReceiveSlice
  <2>3. bySeqUpdates' = {}
    BY <1>11 DEF ReceiveSlice, GetDifference, SetRequesting, InitPts, TypeOK, Waiters
  <2> HIDE DEF seq
  <2>4. SeqInOrder'
    BY <2>1, <2>2, CoveredInOrder
  <2> QED
    BY <2>3, <2>4 DEF SeqWatched
<1> QED
  BY <1>3, <1>4, <1>5, <1>6, <1>7, <1>8, <1>9, <1>10, <1>11 DEF Next, Handle

\* They hold at every moment.
LEMMA SeqInvariance == Spec => [](SeqInOrder /\ SeqWatched)
<1>1. Init => SeqInOrder /\ SeqWatched
  BY DEF Init, SeqInOrder, SeqWatched
<1>2. TypeOK /\ SeqInOrder /\ SeqWatched /\ [Next]_vars => (SeqInOrder /\ SeqWatched)'
  BY SeqStep
<1> QED
  BY <1>1, <1>2, TypeCorrect, PTL DEF Spec

\* Containers are fed in the order of their seq and without a hole.
THEOREM ContainersInOrder == Spec => []SeqInOrder
BY SeqInvariance, PTL

\* Containers are kept only for a missing one, and never without the timer
\* that asks for the difference instead.
THEOREM KeptContainersAreWatched == Spec => []SeqWatched
BY SeqInvariance, PTL
=============================================================================
