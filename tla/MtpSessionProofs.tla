--------------------------- MODULE MtpSessionProofs ---------------------------
(***************************************************************************)
(* Theorems about a session, for every set of requests, every bound and    *)
(* every interleaving of its two threads.                                  *)
(***************************************************************************)
EXTENDS MtpSessionInvariant, WellFoundedInduction, FiniteSetTheorems, TLAPS

(***************************************************************************)
(* A set of naturals has a least element.  The sets of the elements up to  *)
(* one of them are finite and ordered by inclusion, which is well-founded; *)
(* a least one of these sets belongs to a least element.                   *)
(***************************************************************************)
LEMMA LeastExists ==
  ASSUME NEW S \in SUBSET Nat, S # {}
  PROVE  \E n \in S : \A m \in S : n <= m
<1> DEFINE D(x) == { y \in S : y <= x }
<1>1. \A x \in S : x \in Nat
  OBVIOUS
<1>2. /\ \A x \in S : D(x) \subseteq S
      /\ \A x \in S, y \in S : y \in D(x) <=> y <= x
  OBVIOUS
<1> HIDE DEF D
<1>3. ASSUME NEW x \in S
      PROVE  D(x) \in FiniteSubsetsOf(S)
  <2>1. D(x) \subseteq S /\ \A y \in D(x) : y \in Nat /\ y <= x
    BY <1>1, <1>2
  <2>2. IsFiniteSet(0 .. x)
    BY <1>1, FS_Interval
  <2>3. D(x) \subseteq 0 .. x
    BY <1>1, <2>1
  <2> QED
    BY <1>1, <2>1, <2>2, <2>3, FS_Subset DEF FiniteSubsetsOf
<1> DEFINE T == { D(x) : x \in S }
<1>4. T \subseteq FiniteSubsetsOf(S) /\ T # {}
  BY <1>3
<1>5. PICK least \in T : \A e \in T : ~(<<e, least>> \in StrictSubsetOrdering(S))
  <2> HIDE DEF T
  <2> QED
    BY <1>4, WFMin, FS_StrictSubsetOrderingWellFounded
<1>6. PICK n \in S : least = D(n)
  OBVIOUS
<1>7. ASSUME NEW m \in S, m < n
      PROVE  FALSE
  <2>1. D(m) \in T
    OBVIOUS
  <2>2. D(m) \in SUBSET S /\ D(n) \in SUBSET S
    BY <1>2
  <2>3. D(m) \subseteq D(n) /\ n \in D(n) /\ n \notin D(m)
    <3>1. m \in Nat /\ n \in Nat /\ m < n
      BY <1>1, <1>7
    <3>2. n \in D(n) /\ n \notin D(m)
      BY <3>1, <1>2
    <3>3. \A y \in S : y \in D(m) => y \in D(n)
      BY <3>1, <1>1, <1>2
    <3> QED
      BY <2>2, <3>2, <3>3
  <2>4. <<D(m), least>> \in StrictSubsetOrdering(S)
    BY <1>6, <2>2, <2>3 DEF StrictSubsetOrdering
  <2> QED
    BY <1>5, <2>1, <2>4
<1>8. \A m \in S : n <= m
  BY <1>1, <1>7
<1> QED
  BY <1>8

\* Min: what the code takes first of a map ordered by id.
LEMMA MinIsMember ==
  ASSUME NEW S \in SUBSET Nat, S # {}
  PROVE  Min(S) \in S /\ \A n \in S : Min(S) <= n
BY LeastExists DEF Min

\* The place of a request among those that get a new id (tryToSend()): from 1
\* up to their number, another for each of them.
LEMMA RankOK ==
  ASSUME NEW S \in SUBSET Nat, IsFiniteSet(S)
  PROVE  /\ Cardinality(S) \in Nat
         /\ \A r \in S : Cardinality({ q \in S : q <= r }) \in 1 .. Cardinality(S)
         /\ \A q, r \in S :
              Cardinality({ x \in S : x <= q }) = Cardinality({ x \in S : x <= r })
                => q = r
<1> DEFINE D(r) == { q \in S : q <= r }
<1>1. \A r \in S : r \in Nat
  OBVIOUS
<1>2. /\ \A r \in S : D(r) \subseteq S /\ r \in D(r)
      /\ \A q, r \in S : q \in D(r) <=> q <= r
  BY <1>1
<1> HIDE DEF D
<1>3. Cardinality(S) \in Nat
  BY FS_CardinalityType
<1>4. ASSUME NEW r \in S
      PROVE  IsFiniteSet(D(r)) /\ Cardinality(D(r)) \in 1 .. Cardinality(S)
  <2>1. /\ IsFiniteSet(D(r)) /\ Cardinality(D(r)) \in Nat
        /\ Cardinality(D(r)) <= Cardinality(S)
    BY <1>2, FS_Subset, FS_CardinalityType
  <2>2. Cardinality(D(r)) # 0
    BY <1>2, <2>1, FS_EmptySet
  <2> QED
    BY <1>3, <2>1, <2>2
<1>5. ASSUME NEW q \in S, NEW r \in S, q < r
      PROVE  Cardinality(D(q)) # Cardinality(D(r))
  <2>1. D(q) \subseteq D(r) /\ r \in D(r) /\ r \notin D(q)
    <3>1. q \in Nat /\ r \in Nat
      BY <1>1
    <3>2. r \in D(r) /\ r \notin D(q)
      BY <1>2, <1>5, <3>1
    <3>3. \A x \in S : x \in D(q) => x \in D(r)
      BY <1>1, <1>2, <1>5, <3>1
    <3> QED
      BY <1>2, <3>2, <3>3
  <2> QED
    BY <1>4, <2>1, FS_Subset
<1>6. ASSUME NEW q \in S, NEW r \in S, Cardinality(D(q)) = Cardinality(D(r))
      PROVE  q = r
  BY <1>1, <1>5, <1>6
<1> QED
  BY <1>3, <1>4, <1>6 DEF D

-----------------------------------------------------------------------------
(***************************************************************************)
(* Operators on the maps.                                                  *)
(***************************************************************************)
LEMMA MapTypes ==
  ASSUME NEW map \in SUBSET (Nat \X Requests)
  PROVE  /\ Ids(map) \subseteq Nat /\ Owners(map) \subseteq Requests
         /\ \A p \in map : p = <<p[1], p[2]>> /\ p[1] \in Nat /\ p[2] \in Requests
  BY DEF Ids, Owners

\* replaceMsgId() keeps the requests of a map and changes an id only to the
\* new one of its request.
LEMMA RenamedOK ==
  ASSUME TypeOK, NEW map \in SUBSET (Nat \X Requests), NEW new \in [Requests -> Nat]
  PROVE  /\ Renamed(map, new) \subseteq Nat \X Requests
         /\ Owners(Renamed(map, new)) = Owners(map)
         /\ \A p \in Renamed(map, new) :
              \/ p \in map /\ p[1] # msgId[p[2]]
              \/ p[1] = new[p[2]] /\ <<msgId[p[2]], p[2]>> \in map
<1>1. \A p \in map : p = <<p[1], p[2]>> /\ p[1] \in Nat /\ p[2] \in Requests
  BY MapTypes
<1>2. Renamed(map, new) \subseteq Nat \X Requests
  BY <1>1 DEF Renamed
<1>3. ASSUME NEW p \in Renamed(map, new)
      PROVE  /\ \/ p \in map /\ p[1] # msgId[p[2]]
                \/ p[1] = new[p[2]] /\ <<msgId[p[2]], p[2]>> \in map
             /\ p[2] \in Owners(map)
  <2>1. PICK o \in map :
          p = << IF o[1] = msgId[o[2]] THEN new[o[2]] ELSE o[1], o[2] >>
    BY <1>3 DEF Renamed
  <2>2. o = <<o[1], o[2]>> /\ p[2] = o[2]
    BY <1>1, <2>1
  <2> QED
    BY <2>1, <2>2 DEF Owners
<1>4. ASSUME NEW o \in map
      PROVE  o[2] \in Owners(Renamed(map, new))
  <2>1. << IF o[1] = msgId[o[2]] THEN new[o[2]] ELSE o[1], o[2] >> \in Renamed(map, new)
    BY DEF Renamed
  <2> QED
    BY <2>1 DEF Owners
<1>5. Owners(Renamed(map, new)) = Owners(map)
  BY <1>3, <1>4 DEF Owners
<1> QED
  BY <1>2, <1>3, <1>5

\* requestsAcked() takes out the sent requests of these ids, and those queued
\* to be sent again, for which the wait ends.
LEMMA AckedFacts ==
  ASSUME TypeOK, NEW ids, NEW byResponse \in BOOLEAN, RequestsAcked(ids, byResponse)
  PROVE  /\ haveSent' = { p \in haveSent :
                          ~(p[1] \in ids /\ (byResponse \/ p[2] \notin parser)) }
         /\ resending' = { p \in resending :
                           ~(/\ p[1] \in ids /\ (byResponse \/ p[2] \notin parser)
                             /\ p[1] \notin Ids(haveSent)) }
         /\ toSend' = { r \in toSend :
                        r \notin Owners(resending \ resending') }
         /\ acked' \subseteq Nat \X Requests
<1>1. toSend' = { r \in toSend : r \notin Owners(resending \ resending') }
  BY DEF RequestsAcked, Owners
<1>2. acked' \subseteq Nat \X Requests
  BY DEF RequestsAcked, Trim, TypeOK
<1>3. haveSent' = { p \in haveSent :
                    ~(p[1] \in ids /\ (byResponse \/ p[2] \notin parser)) }
  BY DEF RequestsAcked
<1>4. resending' = { p \in resending :
                     ~(/\ p[1] \in ids /\ (byResponse \/ p[2] \notin parser)
                       /\ p[1] \notin Ids(haveSent)) }
  BY DEF RequestsAcked
<1> QED
  BY <1>1, <1>2, <1>3, <1>4

\* What a container does to the ids: those it renews are new and each other's
\* different, the others were written before.
LEMMA ContainerFacts ==
  ASSUME TypeOK, NEW batch \in SUBSET toSend, SendContainer(batch)
  PROVE  /\ lastId' \in Nat /\ lastId < lastId'
         /\ msgId' \in [Requests -> Nat]
         /\ \A r \in Requests \ batch : msgId'[r] = msgId[r]
         /\ \A r \in batch :
              \/ msgId'[r] \in lastId + 1 .. lastId'
              \/ msgId'[r] = msgId[r] /\ msgId[r] # 0 /\ started
         /\ \A q, r \in batch :
              \/ q = r \/ msgId'[q] # msgId'[r]
              \/ msgId'[q] = msgId[q] /\ msgId[q] # 0
              \/ msgId'[r] = msgId[r] /\ msgId[r] # 0
         /\ haveSent' = Renamed(haveSent, msgId') \cup { <<msgId'[r], r>> : r \in batch }
         /\ wire' = wire \cup { <<msgId'[r], r>> : r \in batch }
         /\ resending' = { p \in resending : \A r \in batch : msgId[r] # p[1] }
         /\ acked' = Renamed(acked, msgId')
         /\ containers' \subseteq Nat \X SUBSET Nat
<1> DEFINE renewed == { r \in batch : msgId[r] = 0 \/ ~started }
           rank(r) == Cardinality({ q \in renewed : q <= r })
           new == [ r \in Requests |-> IF r \in renewed THEN lastId + rank(r) ELSE msgId[r] ]
           sent == { <<new[r], r>> : r \in batch }
           old == { msgId[r] : r \in renewed }
           newOf(id) == IF id \in old THEN new[CHOOSE r \in renewed : msgId[r] = id] ELSE id
           more == { <<c[1], { newOf(id) : id \in c[2] }>> : c \in containers }
<1>1. /\ renewed \subseteq Requests /\ renewed \in SUBSET Nat /\ IsFiniteSet(renewed)
      /\ batch \subseteq Requests
  <2>1. renewed \subseteq Requests /\ batch \subseteq Requests
    BY DEF TypeOK
  <2>2. Requests \subseteq Nat /\ IsFiniteSet(Requests)
    BY MtpSessionAssumption
  <2> QED
    BY <2>1, <2>2, FS_Subset
<1>2. /\ lastId' = lastId + Cardinality(renewed) + 1
      /\ msgId' = new
      /\ haveSent' = Renamed(haveSent, new) \cup sent
      /\ wire' = wire \cup sent
      /\ acked' = Renamed(acked, new)
      /\ resending' = { p \in resending : \A r \in batch : msgId[r] # p[1] }
      /\ containers' = more \cup {<<lastId + Cardinality(renewed) + 1, Ids(sent)>>}
  BY DEF SendContainer
<1>3. /\ Cardinality(renewed) \in Nat
      /\ \A r \in renewed : rank(r) \in 1 .. Cardinality(renewed)
      /\ \A q, r \in renewed : rank(q) = rank(r) => q = r
  <2> HIDE DEF renewed
  <2> QED
    BY <1>1, RankOK
<1> HIDE DEF rank
<1>4. lastId' \in Nat /\ lastId < lastId'
  <2> HIDE DEF renewed
  <2> QED
    BY <1>2, <1>3 DEF TypeOK
<1>5. /\ new \in [Requests -> Nat]
      /\ \A r \in Requests \ renewed : new[r] = msgId[r]
      /\ \A r \in renewed : new[r] = lastId + rank(r) /\ new[r] \in lastId + 1 .. lastId'
  <2>1. \A r \in Requests \ renewed : new[r] = msgId[r]
    OBVIOUS
  <2>2. \A r \in renewed : new[r] = lastId + rank(r)
    BY <1>1
  <2>3. \A r \in renewed : new[r] \in lastId + 1 .. lastId'
    <3> HIDE DEF renewed, new
    <3> QED
      BY <1>2, <1>3, <2>2 DEF TypeOK
  <2>4. new \in [Requests -> Nat]
    <3> SUFFICES ASSUME NEW r \in Requests
                 PROVE  new[r] \in Nat
      OBVIOUS
    <3> HIDE DEF renewed, new
    <3> QED
      BY <2>1, <2>3 DEF TypeOK
  <2> QED
    BY <2>1, <2>2, <2>3, <2>4
<1>6. \A r \in batch \ renewed : msgId[r] # 0 /\ started
  OBVIOUS
<1>7. containers' \subseteq Nat \X SUBSET Nat
  <2>1. \A id \in Nat : newOf(id) \in Nat
    <3> SUFFICES ASSUME NEW id \in Nat, id \in old
                 PROVE  new[CHOOSE r \in renewed : msgId[r] = id] \in Nat
      OBVIOUS
    <3>1. PICK r \in renewed : msgId[r] = id
      OBVIOUS
    <3>2. (CHOOSE x \in renewed : msgId[x] = id) \in Requests
      BY <1>1, <3>1
    <3> HIDE DEF new
    <3> QED
      BY <1>5, <3>2
  <2>2. more \subseteq Nat \X SUBSET Nat
    <3> HIDE DEF newOf
    <3> QED
      BY <2>1 DEF TypeOK
  <2>3. Ids(sent) \subseteq Nat
    <3> HIDE DEF new
    <3> QED
      BY <1>1, <1>5 DEF Ids
  <2> HIDE DEF more, sent, renewed
  <2> QED
    BY <1>2, <1>3, <2>2, <2>3 DEF TypeOK
<1> HIDE DEF renewed, new, more
<1>8. \A q, r \in renewed : new[q] = new[r] => q = r
  BY <1>3, <1>5 DEF TypeOK
<1>9. renewed \subseteq batch
  BY DEF renewed
<1>10. \A r \in Requests \ batch : new[r] = msgId[r]
  BY <1>5, <1>9
<1>11. \A r \in batch :
         \/ new[r] \in lastId + 1 .. lastId'
         \/ new[r] = msgId[r] /\ msgId[r] # 0 /\ started
  BY <1>1, <1>5, <1>6
<1>12. \A q, r \in batch :
         \/ q = r \/ new[q] # new[r]
         \/ new[q] = msgId[q] /\ msgId[q] # 0
         \/ new[r] = msgId[r] /\ msgId[r] # 0
  BY <1>1, <1>5, <1>6, <1>8
<1>13. msgId' = new
  BY <1>2
<1>14. \A r \in Requests \ batch : msgId'[r] = msgId[r]
  BY <1>10, <1>13
<1>15. \A r \in batch :
         \/ msgId'[r] \in lastId + 1 .. lastId'
         \/ msgId'[r] = msgId[r] /\ msgId[r] # 0 /\ started
  BY <1>11, <1>13
<1>16. \A q, r \in batch :
         \/ q = r \/ msgId'[q] # msgId'[r]
         \/ msgId'[q] = msgId[q] /\ msgId[q] # 0
         \/ msgId'[r] = msgId[r] /\ msgId[r] # 0
  BY <1>12, <1>13
<1>17. msgId' \in [Requests -> Nat]
  BY <1>5, <1>13
<1>18. sent = { <<msgId'[r], r>> : r \in batch }
  BY <1>13
<1> HIDE DEF sent
<1>19. /\ haveSent' = Renamed(haveSent, msgId') \cup { <<msgId'[r], r>> : r \in batch }
       /\ wire' = wire \cup { <<msgId'[r], r>> : r \in batch }
       /\ acked' = Renamed(acked, msgId')
  BY <1>2, <1>13, <1>18
<1>20. resending' = { p \in resending : \A r \in batch : msgId[r] # p[1] }
  BY <1>2
<1> QED
  BY <1>4, <1>7, <1>14, <1>15, <1>16, <1>17, <1>19, <1>20

-----------------------------------------------------------------------------
(***************************************************************************)
(* Type correctness.                                                       *)
(***************************************************************************)

\* The first state is typed.
LEMMA TypeInit == Init => TypeOK
<1> SUFFICES ASSUME Init
             PROVE  TypeOK
  OBVIOUS
<1>1. main \in MainTypes
  BY DEF Init, Free, MainTypes
<1>2. told \in [Requests -> Told] /\ msgId \in [Requests -> Nat]
  BY DEF Init, Told
<1> QED
  BY <1>1, <1>2 DEF Init, TypeOK

\* What the main thread is in the middle of is about a request.
LEMMA MainRequest ==
  ASSUME TypeOK, MainOK, main.at # "free"
  PROVE  main.r \in Requests
BY DEF TypeOK, MainTypes, MainOK, Taking, Cancelling, Waiting

\* The main thread keeps the types.
LEMMA TypeMain ==
  ASSUME TypeOK, MainOK,
         \/ MainGoesOn
         \/ \E r \in Requests : SendRequest(r) \/ Cancel(r) \/ CheckDelayed(r)
  PROVE  TypeOK'
<1> USE DEF SendPrepared, mainVars, dataVars, linkVars, mapVars, workVars, farVars, pastVars
<1>1. ASSUME NEW r \in Requests, SendRequest(r)
      PROVE  TypeOK'
  BY <1>1 DEF SendRequest, TypeOK, Told
<1>2. ASSUME NEW r \in Requests, Cancel(r)
      PROVE  TypeOK'
  <2>1. main' \in MainTypes
    BY <1>2 DEF Cancel, MainTypes, TypeOK, Cancelling
  <2> QED
    BY <1>2, <2>1 DEF Cancel, TypeOK, Told, MainTypes
<1>3. ASSUME NEW r \in Requests, CheckDelayed(r)
      PROVE  TypeOK'
  BY <1>3 DEF CheckDelayed, TypeOK
<1>4. ASSUME NEW a \in received, TakeAnswer(a)
      PROVE  TypeOK'
  <2>1. a.r \in Requests /\ a.kind \in Taking
    BY DEF TypeOK
  <2>2. main' \in MainTypes
    BY <1>4, <2>1 DEF TakeAnswer, MainTypes, TypeOK, Free
  <2> QED
    BY <1>4, <2>2 DEF TakeAnswer, TypeOK, MainTypes
<1>5. CASE TellResult
  <2>1. main' \in MainTypes
    BY <1>5 DEF TellResult, Free, MainTypes
  <2> QED
    BY <1>5, <2>1 DEF TellResult, TypeOK, Told, MainTypes
<1>6. CASE DelayRequest
  <2>1. main' \in MainTypes /\ main.r \in Requests
    BY <1>6, MainRequest DEF DelayRequest, Free, MainTypes
  <2> QED
    BY <1>6, <2>1 DEF DelayRequest, TypeOK, MainTypes
<1>7. CASE SendAgain
  <2>1. main' \in MainTypes /\ main.r \in Requests
    BY <1>7, MainRequest DEF SendAgain, MainTypes, TypeOK
  <2> QED
    BY <1>7, <2>1 DEF SendAgain, TypeOK, MainTypes
<1>8. CASE RestoreCallback
  <2>1. main' \in MainTypes /\ main.r \in Requests
    BY <1>8, MainRequest DEF RestoreCallback, Free, MainTypes
  <2> QED
    BY <1>8, <2>1 DEF RestoreCallback, TypeOK, MainTypes
<1>9. CASE CancelToSend
  <2>1. main' \in MainTypes
    BY <1>9 DEF CancelToSend, MainTypes, TypeOK, Cancelling
  <2> QED
    BY <1>9, <2>1 DEF CancelToSend, TypeOK, MainTypes
<1>10. CASE CancelHaveSent
  <2>1. main' \in MainTypes
    BY <1>10 DEF CancelHaveSent, MainTypes, TypeOK, Cancelling
  <2> QED
    BY <1>10, <2>1 DEF CancelHaveSent, TypeOK, MainTypes
<1>11. CASE CancelParser
  <2>1. main' \in MainTypes
    BY <1>11 DEF CancelParser, Free, MainTypes
  <2> QED
    BY <1>11, <2>1 DEF CancelParser, TypeOK, MainTypes
<1> QED
  BY <1>1, <1>2, <1>3, <1>4, <1>5, <1>6, <1>7, <1>8, <1>9, <1>10, <1>11
  DEF MainGoesOn

\* The session's thread keeps the types when it sends.
LEMMA TypeSend ==
  ASSUME TypeOK, TryToSend \/ ThreadGoesOn
  PROVE  TypeOK'
<1> USE DEF TypeOK, mainVars, dataVars, linkVars, mapVars, workVars, farVars, pastVars
<1>1. CASE TryToSendNothing
  BY <1>1 DEF TryToSendNothing, CanSend
<1>2. CASE Resume
  BY <1>2 DEF Resume
<1>3. CASE TakeAlone
  <2>1. Min(toSend) \in toSend
    BY <1>3, MinIsMember, MtpSessionAssumption DEF TakeAlone
  <2> QED
    BY <1>3, <2>1 DEF TakeAlone
<1>4. ASSUME NEW batch \in SUBSET toSend, SendContainer(batch)
      PROVE  TypeOK'
  <2>1. /\ batch \subseteq Requests
        /\ lastId' \in Nat /\ msgId' \in [Requests -> Nat]
        /\ haveSent' = Renamed(haveSent, msgId') \cup { <<msgId'[r], r>> : r \in batch }
        /\ wire' = wire \cup { <<msgId'[r], r>> : r \in batch }
        /\ resending' \subseteq resending
        /\ acked' = Renamed(acked, msgId')
        /\ containers' \subseteq Nat \X SUBSET Nat
    BY <1>4, ContainerFacts
  <2>2. /\ Renamed(haveSent, msgId') \subseteq Nat \X Requests
        /\ Renamed(acked, msgId') \subseteq Nat \X Requests
    BY <2>1, RenamedOK
  <2>3. { <<msgId'[r], r>> : r \in batch } \subseteq Nat \X Requests
    BY <2>1
  <2>4. /\ haveSent' \subseteq Nat \X Requests /\ wire' \subseteq Nat \X Requests
        /\ resending' \subseteq Nat \X Requests /\ acked' \subseteq Nat \X Requests
    BY <2>1, <2>2, <2>3
  <2>5. /\ toSend' \subseteq Requests /\ wake' \in BOOLEAN /\ started' = TRUE
        /\ UNCHANGED <<mainVars, forced, received, state, salt, binding, workVars,
                       fresh, troubles, pastVars>>
    BY <1>4 DEF SendContainer
  <2> QED
    BY <2>1, <2>4, <2>5
<1>5. CASE SendAlone
  <2>1. sending \in Requests /\ lastId + 1 \in Nat
    BY <1>5 DEF SendAlone
  <2> QED
    BY <1>5, <2>1 DEF SendAlone
<1>6. CASE ResendNext
  BY <1>6 DEF ResendNext
<1>7. CASE Place
  <2>1. Owners(hold) \subseteq Requests
    BY MapTypes
  <2> QED
    BY <1>7, <2>1 DEF Place
<1> QED
  BY <1>1, <1>2, <1>3, <1>4, <1>5, <1>6, <1>7 DEF TryToSend, ThreadGoesOn

\* The connection, the salt and the key keep the types.
LEMMA TypeLink ==
  ASSUME TypeOK, Link
  PROVE  TypeOK'
<1> USE DEF TypeOK, mainVars, dataVars, linkVars, mapVars, workVars, farVars, pastVars
<1>1. CASE Connect
  BY <1>1 DEF Connect, ResendAll
<1>2. CASE SaltComes
  BY <1>2 DEF SaltComes, ResendAll
<1>3. CASE KeyBound
  BY <1>3 DEF KeyBound
<1>4. CASE Break
  BY <1>4 DEF Break, Trouble
<1>5. CASE ResetSession
  <2>1. troubles' \in Nat /\ wire' \subseteq Nat \X Requests
    BY <1>5 DEF ResetSession, Trouble, ChangeSession
  <2> QED
    BY <1>5, <2>1 DEF ResetSession, ChangeSession
<1>6. CASE DestroyKey
  <2>1. troubles' \in Nat /\ wire' \subseteq Nat \X Requests
    BY <1>6 DEF DestroyKey, Trouble, ChangeSession
  <2> QED
    BY <1>6, <2>1 DEF DestroyKey, ChangeSession
<1>7. CASE Stop
  <2>1. /\ troubles' \in Nat /\ wire' \subseteq Nat \X Requests
        /\ resending' \subseteq Nat \X Requests /\ acked' \subseteq Nat \X Requests
        /\ containers' \subseteq Nat \X SUBSET Nat
    BY <1>7 DEF Stop, Trouble, ChangeSession
  <2> QED
    BY <1>7, <2>1 DEF Stop, ChangeSession
<1> QED
  BY <1>1, <1>2, <1>3, <1>4, <1>5, <1>6, <1>7 DEF Link

\* What the server tells keeps the types.
LEMMA TypeServer ==
  ASSUME TypeOK, Server \/ \E c \in containers : ClearOld(c)
  PROVE  TypeOK'
<1> USE DEF mainVars, dataVars, linkVars, mapVars, workVars, farVars, pastVars
<1>1. ASSUME NEW ids, NEW byResponse \in BOOLEAN, RequestsAcked(ids, byResponse)
      PROVE  /\ haveSent' \subseteq Nat \X Requests /\ resending' \subseteq Nat \X Requests
             /\ toSend' \subseteq Requests /\ acked' \subseteq Nat \X Requests
             /\ haveSent' \subseteq haveSent /\ toSend' \subseteq toSend
  <2>1. haveSent' \subseteq haveSent /\ resending' \subseteq resending
    BY <1>1, AckedFacts
  <2>2. toSend' \subseteq toSend /\ acked' \subseteq Nat \X Requests
    BY <1>1, AckedFacts
  <2> QED
    BY <2>1, <2>2 DEF TypeOK
<1>2. ASSUME NEW p \in wire, NEW kind \in Taking, Answer(p, kind)
      PROVE  TypeOK'
  <2>1. p[2] \in Requests /\ wire' \subseteq wire
    BY <1>2 DEF TypeOK, Answer
  <2>2. received' \subseteq [r : Requests, kind : Taking] /\ slipped' \subseteq Requests
    BY <1>2, <2>1 DEF TypeOK, Answer
  <2>3. /\ haveSent' \subseteq Nat \X Requests /\ resending' \subseteq Nat \X Requests
        /\ toSend' \subseteq Requests /\ acked' \subseteq Nat \X Requests
    BY <1>1, <1>2 DEF Answer
  <2>4. troubles' \in Nat
    BY <1>2 DEF Answer, Trouble, TypeOK
  <2> QED
    BY <1>2, <2>1, <2>2, <2>3, <2>4 DEF Answer, TypeOK
<1>3. ASSUME NEW id, Ack(id)
      PROVE  TypeOK'
  <2>1. PICK ids : RequestsAcked(ids, FALSE)
    BY <1>3 DEF Ack
  <2>2. /\ haveSent' \subseteq Nat \X Requests /\ resending' \subseteq Nat \X Requests
        /\ toSend' \subseteq Requests /\ acked' \subseteq Nat \X Requests
    BY <1>1, <2>1
  <2>3. Owners(haveSent \ haveSent') \subseteq Requests /\ toSend \subseteq Requests
    BY MapTypes DEF TypeOK
  <2>4. containers' \subseteq containers /\ slipped' \subseteq Requests
    BY <1>3, <2>3 DEF Ack, TypeOK
  <2> QED
    BY <1>3, <2>2, <2>4 DEF Ack, TypeOK
<1>4. ASSUME NEW id, Refuse(id)
      PROVE  TypeOK'
  <2>1. /\ troubles' \in Nat /\ wire' \subseteq wire /\ containers' \subseteq containers
        /\ todo' \subseteq Ids(wire)
    BY <1>4 DEF Refuse, Trouble, TypeOK
  <2>2. todo' \subseteq Nat
    BY <2>1, MapTypes DEF TypeOK
  <2> QED
    BY <1>4, <2>1, <2>2 DEF Refuse, TypeOK
<1>5. ASSUME NEW p \in wire, Reject(p)
      PROVE  TypeOK'
  <2>1. p[2] \in Requests /\ troubles' \in Nat /\ wire' \subseteq wire
    BY <1>5 DEF TypeOK, Reject, Trouble
  <2>2. received' \subseteq [r : Requests, kind : Taking]
    BY <1>5, <2>1 DEF TypeOK, Reject, Taking
  <2> QED
    BY <1>5, <2>1, <2>2 DEF Reject, TypeOK
<1>6. CASE Forget
  <2>1. wire' \subseteq wire /\ troubles' \in Nat
    BY <1>6 DEF Forget, Trouble, TypeOK
  <2> QED
    BY <1>6, <2>1 DEF Forget, TypeOK
<1>7. CASE NewSession
  <2>1. todo' \subseteq Ids(haveSent)
    BY <1>7 DEF NewSession
  <2>2. todo' \subseteq Nat
    BY <2>1, MapTypes DEF TypeOK
  <2> QED
    BY <1>7, <2>2 DEF NewSession, TypeOK
<1>8. ASSUME NEW c \in containers, ClearOld(c)
      PROVE  TypeOK'
  <2>1. c[2] \in SUBSET Nat /\ containers' \subseteq containers /\ troubles' \in Nat
    BY <1>8 DEF TypeOK, ClearOld, Trouble
  <2> QED
    BY <1>8, <2>1 DEF ClearOld, TypeOK
<1> QED
  BY <1>2, <1>3, <1>4, <1>5, <1>6, <1>7, <1>8 DEF Server, Answers, Taking

\* Every step keeps the types.
LEMMA TypeStep == TypeOK /\ MainOK /\ [Next]_vars => TypeOK'
<1> SUFFICES ASSUME TypeOK, MainOK, [Next]_vars
             PROVE  TypeOK'
  OBVIOUS
<1>1. CASE UNCHANGED vars
  BY <1>1 DEF TypeOK, vars, mainVars, dataVars, linkVars, mapVars, workVars, farVars, pastVars
<1> QED
  BY <1>1, TypeMain, TypeSend, TypeLink, TypeServer DEF Next

-----------------------------------------------------------------------------
(***************************************************************************)
(* The callbacks.                                                          *)
(***************************************************************************)

\* What the session's thread and the network do.
FarNext == TryToSend \/ ThreadGoesOn \/ Link \/ Server \/ \E c \in containers : ClearOld(c)

\* Nothing of the main thread changes in a step of the others.
LEMMA FarKeepsMain ==
  ASSUME FarNext
  PROVE  UNCHANGED mainVars
<1>1. TryToSend => UNCHANGED mainVars
  BY DEF TryToSend, TryToSendNothing, Resume, TakeAlone, SendContainer
<1>2. ThreadGoesOn => UNCHANGED mainVars
  BY DEF ThreadGoesOn, SendAlone, ResendNext, Place
<1>3. Link => UNCHANGED mainVars
  BY DEF Link, Connect, SaltComes, KeyBound, Break, ResetSession, DestroyKey, Stop
<1>4. Server => UNCHANGED mainVars
  BY DEF Server, Answers, Answer, Ack, Refuse, Reject, Forget, NewSession
<1>5. (\E c \in containers : ClearOld(c)) => UNCHANGED mainVars
  BY DEF ClearOld
<1> QED
  BY <1>1, <1>2, <1>3, <1>4, <1>5 DEF FarNext

\* At first every callback is in its map.
LEMMA MainInit == Init => MainOK
BY DEF Init, MainOK, Free, Waiting, Asked, Taking, Cancelling

\* Callbacks are out of their map only while an answer is dealt with.
LEMMA MainStep == TypeOK /\ MainOK /\ [Next]_vars => MainOK'
<1> SUFFICES ASSUME TypeOK, MainOK, [Next]_vars
             PROVE  MainOK'
  OBVIOUS
<1> USE DEF Asked, Waiting, MainOK, Free, Taking, Cancelling
<1>1. ASSUME NEW r \in Requests, SendRequest(r)
      PROVE  MainOK'
  BY <1>1 DEF SendRequest, TypeOK, Told
<1>2. ASSUME NEW r \in Requests, Cancel(r)
      PROVE  MainOK'
  BY <1>2 DEF Cancel, TypeOK, Told
<1>3. ASSUME NEW r \in Requests, CheckDelayed(r)
      PROVE  MainOK'
  BY <1>3 DEF CheckDelayed
<1>4. ASSUME NEW a \in received, TakeAnswer(a)
      PROVE  MainOK'
  BY <1>4 DEF TakeAnswer, TypeOK
<1>5. CASE TellResult
  BY <1>5 DEF TellResult, TypeOK, Told
<1>6. CASE DelayRequest
  BY <1>6 DEF DelayRequest
<1>7. CASE SendAgain
  BY <1>7 DEF SendAgain, TypeOK, MainTypes
<1>8. CASE RestoreCallback
  BY <1>8 DEF RestoreCallback
<1>9. CASE CancelToSend
  BY <1>9 DEF CancelToSend, TypeOK, MainTypes
<1>10. CASE CancelHaveSent
  BY <1>10 DEF CancelHaveSent, TypeOK, MainTypes
<1>11. CASE CancelParser
  BY <1>11 DEF CancelParser
<1>12. CASE FarNext \/ UNCHANGED vars
  BY <1>12, FarKeepsMain DEF mainVars, vars
<1> QED
  BY <1>1, <1>2, <1>3, <1>4, <1>5, <1>6, <1>7, <1>8, <1>9, <1>10, <1>11, <1>12
  DEF Next, MainGoesOn, FarNext

(***************************************************************************)
(* Each number, set and map keeps its type: the state of both threads and  *)
(* the ids the session makes, for any number of requests.                  *)
(***************************************************************************)
THEOREM TypeCorrect == Spec => []TypeOK
<1>1. Init => TypeOK /\ MainOK
  BY TypeInit, MainInit
<1>2. TypeOK /\ MainOK /\ [Next]_vars => TypeOK' /\ MainOK'
  BY TypeStep, MainStep
<1> QED
  BY <1>1, <1>2, PTL DEF Spec

-----------------------------------------------------------------------------
(***************************************************************************)
(* Wake-ups.                                                               *)
(***************************************************************************)
LEMMA WakeInit == Init => WakeOK
BY DEF Init, WakeOK, CanSend

\* The main thread queues a request and a tryToSend() together.
LEMMA WakeMain ==
  ASSUME TypeOK, MainOK, WakeOK,
         \/ MainGoesOn
         \/ \E r \in Requests : SendRequest(r) \/ Cancel(r) \/ CheckDelayed(r)
  PROVE  WakeOK'
<1>1. UNCHANGED <<linkVars, workVars, wire>>
  BY DEF MainGoesOn, SendRequest, Cancel, CheckDelayed, TakeAnswer, TellResult,
         DelayRequest, SendAgain, RestoreCallback, CancelToSend, CancelHaveSent,
         CancelParser, farVars, workVars, linkVars
<1>2. wake' = TRUE \/ (wake' = wake /\ toSend' \subseteq toSend /\ Waiting' \subseteq Waiting)
  <2> USE DEF Waiting, Asked
  <2>1. ASSUME NEW r \in Requests, SendRequest(r) \/ CheckDelayed(r)
        PROVE  wake' = TRUE
    BY <2>1 DEF SendRequest, CheckDelayed, SendPrepared
  <2>2. ASSUME NEW r \in Requests, Cancel(r)
        PROVE  wake' = wake /\ toSend' \subseteq toSend /\ Waiting' \subseteq Waiting
    BY <2>2 DEF Cancel, TypeOK, Told, dataVars
  <2>3. SendAgain => wake' = TRUE
    BY DEF SendAgain, SendPrepared
  <2>4. TellResult => wake' = wake /\ toSend' \subseteq toSend /\ Waiting' \subseteq Waiting
    BY DEF TellResult, TypeOK, Told, dataVars
  <2>5. ASSUME \/ DelayRequest \/ RestoreCallback \/ CancelToSend \/ CancelHaveSent
               \/ CancelParser \/ \E a \in received : TakeAnswer(a)
        PROVE  wake' = wake /\ toSend' \subseteq toSend /\ Waiting' \subseteq Waiting
    BY <2>5 DEF DelayRequest, RestoreCallback, CancelToSend, CancelHaveSent,
                CancelParser, TakeAnswer, dataVars
  <2> QED
    BY <2>1, <2>2, <2>3, <2>4, <2>5 DEF MainGoesOn
<1> QED
  BY <1>1, <1>2 DEF WakeOK, CanSend, linkVars, workVars

\* An attempt to send leaves nothing behind that nobody sends.
LEMMA WakeSend ==
  ASSUME TypeOK, WakeOK, TryToSend \/ ThreadGoesOn
  PROVE  WakeOK'
<1>0. (Waiting' = Waiting /\ CanSend' = CanSend) \/ Resume
  <2>1. UNCHANGED told
    BY FarKeepsMain DEF FarNext, mainVars
  <2>2. Resume \/ UNCHANGED <<state, binding>>
    BY DEF TryToSend, TryToSendNothing, TakeAlone, SendContainer, ThreadGoesOn,
           SendAlone, ResendNext, Place, linkVars
  <2> QED
    BY <2>1, <2>2 DEF Waiting, Asked, CanSend
<1>1. CASE TryToSendNothing
  BY <1>0, <1>1 DEF TryToSendNothing, WakeOK, Idle, CanSend, workVars, farVars
<1>2. CASE Resume
  BY <1>2 DEF Resume, WakeOK, CanSend, workVars, farVars
<1>3. CASE TakeAlone
  BY <1>0, <1>3 DEF TakeAlone, WakeOK, Idle, CanSend, farVars
<1>4. ASSUME NEW batch \in SUBSET toSend, SendContainer(batch)
      PROVE  WakeOK'
  <2>1. /\ Idle /\ CanSend /\ toSend' = toSend \ batch /\ wake' = (toSend # batch)
        /\ started' = TRUE /\ UNCHANGED <<state, binding, workVars>>
    BY <1>4 DEF SendContainer
  <2> QED
    BY <2>1 DEF WakeOK, Idle, CanSend, workVars
<1>5. CASE SendAlone
  <2>1. /\ started /\ sending' = 0
        /\ UNCHANGED <<state, binding, started, toSend, wake, todo, hold>>
    BY <1>5 DEF SendAlone, WakeOK, linkVars
  <2>2. started' /\ (wake' <=> wake)
    BY <2>1
  <2>3. (state = "none" \/ CanSend)' = (state = "none" \/ CanSend) /\ Waiting' = Waiting
    BY <1>0, <2>1 DEF CanSend, Resume
  <2> QED
    BY <2>1, <2>2, <2>3 DEF WakeOK
<1>6. CASE ResendNext
  BY <1>0, <1>6 DEF ResendNext, WakeOK, CanSend, linkVars, farVars
<1>7. CASE Place
  BY <1>0, <1>7 DEF Place, WakeOK, CanSend, linkVars, farVars
<1> QED
  BY <1>1, <1>2, <1>3, <1>4, <1>5, <1>6, <1>7 DEF TryToSend, ThreadGoesOn

\* When the link comes or goes an attempt follows, or none is possible.
LEMMA WakeLink ==
  ASSUME TypeOK, MainOK, WakeOK, Link
  PROVE  WakeOK'
<1> USE DEF WakeOK, CanSend, Idle
<1>1. CASE Connect
  BY <1>1 DEF Connect, ResendAll, farVars, workVars
<1>2. CASE SaltComes
  BY <1>2 DEF SaltComes, ResendAll, farVars
<1>3. CASE KeyBound
  BY <1>3 DEF KeyBound, farVars, workVars
<1>4. CASE Break
  BY <1>4 DEF Break, workVars, dataVars
<1>5. CASE ResetSession
  BY <1>5 DEF ResetSession, ChangeSession, workVars, dataVars
<1>6. CASE DestroyKey
  BY <1>6 DEF DestroyKey, ChangeSession, workVars, dataVars
<1>7. CASE Stop
  BY <1>7 DEF Stop, ChangeSession, workVars, dataVars, mainVars, MainOK, Free, Waiting, Asked
<1> QED
  BY <1>1, <1>2, <1>3, <1>4, <1>5, <1>6, <1>7 DEF Link

\* What the server tells makes an attempt where it frees a request.
LEMMA WakeServer ==
  ASSUME TypeOK, WakeOK, Server \/ \E c \in containers : ClearOld(c)
  PROVE  WakeOK'
<1>1. UNCHANGED <<linkVars, wake, told>> /\ Idle
  BY DEF Server, Answers, Answer, Ack, Refuse, Reject, Forget, NewSession, ClearOld,
         dataVars, mainVars, Heard
<1>2. toSend' \subseteq toSend
  <2>1. \A ids, b : RequestsAcked(ids, b) => toSend' \subseteq toSend
    BY DEF RequestsAcked
  <2> QED
    BY <2>1 DEF Server, Answers, Answer, Ack, Refuse, Reject, Forget, NewSession,
                ClearOld, dataVars
<1>3. wire' \subseteq wire
  BY DEF Server, Answers, Answer, Ack, Refuse, Reject, Forget, NewSession, ClearOld, farVars
<1>4. sending' = sending
  BY DEF Server, Answers, Answer, Ack, Refuse, Reject, Forget, NewSession, ClearOld, workVars
<1> QED
  BY <1>1, <1>2, <1>3, <1>4 DEF WakeOK, CanSend, Idle, Waiting, Asked, linkVars

\* No step loses a wake-up.
LEMMA WakeStep == TypeOK /\ MainOK /\ WakeOK /\ [Next]_vars => WakeOK'
<1> SUFFICES ASSUME TypeOK, MainOK, WakeOK, [Next]_vars
             PROVE  WakeOK'
  OBVIOUS
<1>1. CASE UNCHANGED vars
  BY <1>1 DEF vars, mainVars, dataVars, linkVars, workVars, farVars, WakeOK, CanSend, Waiting, Asked
<1> QED
  BY <1>1, WakeMain, WakeSend, WakeLink, WakeServer DEF Next

(***************************************************************************)
(* No wake-up is lost: a request that waits and could be sent has a        *)
(* tryToSend() coming, whatever was queued, cancelled, resent, connected,  *)
(* bound or stopped in between.                                            *)
(***************************************************************************)
THEOREM QueuedRequestsAreWatched == Spec => []SendWatched
<1>1. Init => TypeOK /\ MainOK /\ WakeOK
  BY TypeInit, MainInit, WakeInit
<1>2. TypeOK /\ MainOK /\ WakeOK /\ [Next]_vars => TypeOK' /\ MainOK' /\ WakeOK'
  BY TypeStep, MainStep, WakeStep
<1>3. TypeOK /\ WakeOK => SendWatched
  BY DEF WakeOK, SendWatched, Idle, Waiting, TypeOK
<1> QED
  BY <1>1, <1>2, <1>3, PTL DEF Spec

-----------------------------------------------------------------------------
(***************************************************************************)
(* Ids.                                                                    *)
(***************************************************************************)
LEMMA IdsInit == Init => IdsOK
<1> SUFFICES ASSUME Init
             PROVE  Pairs = {}
  BY DEF IdsOK
<1>1. \A p \in { <<msgId[r], r>> : r \in Requests } \cup {<<main.id, main.r>>} : p[1] = 0
  BY DEF Init, Free
<1>2. Written = {}
  BY <1>1 DEF Written
<1> QED
  BY <1>2 DEF Pairs, Init

\* The ids that requests have and cancel() has read.
LEMMA WrittenFacts ==
  /\ \A r \in Requests : msgId[r] # 0 => <<msgId[r], r>> \in Written
  /\ main.id # 0 => <<main.id, main.r>> \in Written
  /\ \A p \in Written : \/ p = <<main.id, main.r>> /\ main.id # 0
                        \/ \E r \in Requests : p = <<msgId[r], r>> /\ msgId[r] # 0
BY DEF Written

\* Ids stay right when the only pairs that come in are new ones.
LEMMA IdsGrow ==
  ASSUME TypeOK, TypeOK', IdsOK, lastId <= lastId', NEW N, Pairs' \subseteq Pairs \cup N,
         \A p \in N : p[1] \in lastId + 1 .. lastId',
         \A p, q \in N : p[1] = q[1] => p[2] = q[2]
  PROVE  IdsOK'
<1>1. lastId \in Nat /\ lastId' \in Nat
  BY DEF TypeOK
<1>2. \A p \in Pairs : p[1] \in 1 .. lastId
  BY DEF IdsOK
<1>3. \A p \in Pairs' : p[1] \in 1 .. lastId'
  BY <1>1, <1>2
<1>4. ASSUME NEW p \in Pairs', NEW q \in Pairs', p[1] = q[1]
      PROVE  p[2] = q[2]
  <2>1. CASE p \in Pairs /\ q \in Pairs
    BY <1>4, <2>1 DEF IdsOK
  <2>2. CASE p \in N /\ q \in N
    BY <1>4, <2>2
  <2>3. CASE p \in Pairs /\ q \in N
    BY <1>1, <1>2, <1>4, <2>3
  <2>4. CASE p \in N /\ q \in Pairs
    BY <1>1, <1>2, <1>4, <2>4
  <2> QED
    BY <2>1, <2>2, <2>3, <2>4
<1> QED
  BY <1>3, <1>4 DEF IdsOK

\* Ids stay those of one request when no pair is added.
LEMMA IdsKeep ==
  ASSUME TypeOK, TypeOK', IdsOK, lastId <= lastId', Pairs' \subseteq Pairs
  PROVE  IdsOK'
<1> DEFINE N == {}
<1>1. /\ Pairs' \subseteq Pairs \cup N
      /\ \A p \in N : p[1] \in lastId + 1 .. lastId'
      /\ \A p, q \in N : p[1] = q[1] => p[2] = q[2]
  OBVIOUS
<1> HIDE DEF N
<1> QED
  BY <1>1, IdsGrow

\* A new request has no id, one that is cancelled keeps its own, and one that
\* is sent again loses it.
LEMMA IdsMain ==
  ASSUME TypeOK, TypeOK', MainOK, IdsOK,
         \/ MainGoesOn
         \/ \E r \in Requests : SendRequest(r) \/ Cancel(r) \/ CheckDelayed(r)
  PROVE  IdsOK'
<1>1. haveSent' \subseteq haveSent /\ UNCHANGED <<hold, resending, wire, lastId>>
  BY DEF MainGoesOn, SendRequest, Cancel, CheckDelayed, TakeAnswer, TellResult,
         DelayRequest, SendAgain, RestoreCallback, CancelToSend, CancelHaveSent,
         CancelParser, SendPrepared, farVars, workVars, mapVars, dataVars
<1>2. \A r \in Requests : msgId'[r] = msgId[r] \/ msgId'[r] = 0
  <2>1. msgId' = msgId \/ \E r \in Requests \cup {0} : msgId' = [msgId EXCEPT ![r] = 0]
    BY DEF MainGoesOn, SendRequest, Cancel, CheckDelayed, TakeAnswer, TellResult,
           DelayRequest, SendAgain, RestoreCallback, CancelToSend, CancelHaveSent,
           CancelParser, SendPrepared, dataVars, TypeOK, MainTypes
  <2> QED
    BY <2>1 DEF TypeOK
<1>3. \/ main'.id = 0
      \/ main'.id = main.id /\ main'.r = main.r
      \/ main'.r \in Requests /\ main'.id = msgId[main'.r]
  <2>1. ASSUME NEW r \in Requests, Cancel(r)
        PROVE  main'.r \in Requests /\ main'.id = msgId[main'.r]
    BY <2>1 DEF Cancel
  <2>2. ASSUME NEW r \in Requests, SendRequest(r) \/ CheckDelayed(r)
        PROVE  main' = main
    BY <2>2 DEF SendRequest, CheckDelayed
  <2>3. ASSUME NEW a \in received, TakeAnswer(a)
        PROVE  main'.id = 0
    <3>1. CASE a.r \in parser
      <4>1. main' = [Free EXCEPT !.at = a.kind, !.r = a.r]
        BY <2>3, <3>1 DEF TakeAnswer
      <4> QED
        BY <4>1 DEF Free
    <3>2. CASE a.r \notin parser
      BY <2>3, <3>2 DEF TakeAnswer, Free
    <3> QED
      BY <3>1, <3>2
  <2>4. TellResult \/ DelayRequest \/ RestoreCallback \/ CancelParser => main'.id = 0
    BY DEF TellResult, DelayRequest, RestoreCallback, CancelParser, Free
  <2>5. SendAgain \/ CancelToSend \/ CancelHaveSent => main'.id = main.id /\ main'.r = main.r
    BY DEF SendAgain, CancelToSend, CancelHaveSent, TypeOK, MainTypes
  <2> QED
    BY <2>1, <2>2, <2>3, <2>4, <2>5 DEF MainGoesOn
<1>4. Written' \subseteq Written
  <2> SUFFICES ASSUME NEW p \in Written'
               PROVE  p \in Written
    OBVIOUS
  <2>1. CASE p = <<main'.id, main'.r>> /\ main'.id # 0
    BY <1>3, <2>1, WrittenFacts
  <2>2. CASE \E r \in Requests : p = <<msgId'[r], r>> /\ msgId'[r] # 0
    BY <1>2, <2>2, WrittenFacts
  <2> QED
    BY <2>1, <2>2 DEF Written
<1>5. Pairs' \subseteq Pairs
  BY <1>1, <1>4 DEF Pairs
<1>6. lastId <= lastId'
  BY <1>1 DEF TypeOK
<1> QED
  BY <1>5, <1>6, IdsKeep

\* A single request gets the next id, a container's requests the next ones.
LEMMA IdsSend ==
  ASSUME TypeOK, TypeOK', IdsOK, TryToSend \/ ThreadGoesOn
  PROVE  IdsOK'
<1>1. UNCHANGED main
  BY FarKeepsMain DEF FarNext, mainVars
<1>2. CASE TryToSendNothing \/ Resume \/ TakeAlone \/ ResendNext \/ Place
  <2>1. UNCHANGED <<msgId, lastId, wire>>
    BY <1>2 DEF TryToSendNothing, Resume, TakeAlone, ResendNext, Place, mapVars, farVars
  <2>2. haveSent' \cup hold' \cup resending' \subseteq haveSent \cup hold \cup resending
    BY <1>2 DEF TryToSendNothing, Resume, TakeAlone, ResendNext, Place, mapVars, workVars
  <2>3. lastId <= lastId' /\ Pairs' \subseteq Pairs
    BY <1>1, <2>1, <2>2 DEF Pairs, Written, TypeOK
  <2> QED
    BY <2>3, IdsKeep
<1>3. CASE SendAlone
  <2> DEFINE N == {<<lastId + 1, sending>>}
  <2>1. /\ sending \in Requests /\ lastId \in Nat /\ lastId' = lastId + 1
        /\ msgId' = [msgId EXCEPT ![sending] = lastId + 1]
        /\ haveSent' = haveSent \cup N /\ wire' = wire \cup N
        /\ UNCHANGED <<hold, resending>>
    BY <1>3 DEF SendAlone, TypeOK
  <2>2. \A r \in Requests : <<msgId'[r], r>> = <<msgId[r], r>> \/ <<msgId'[r], r>> \in N
    BY <2>1 DEF TypeOK
  <2>3. Written' \subseteq Written \cup N
    BY <1>1, <2>2 DEF Written
  <2>4. Pairs' \subseteq Pairs \cup N /\ lastId <= lastId'
    BY <2>1, <2>3 DEF Pairs
  <2>5. /\ \A p \in N : p[1] \in lastId + 1 .. lastId'
        /\ \A p, q \in N : p[1] = q[1] => p[2] = q[2]
    BY <2>1
  <2> HIDE DEF N
  <2> QED
    BY <2>4, <2>5, IdsGrow
<1>4. ASSUME NEW batch \in SUBSET toSend, SendContainer(batch)
      PROVE  IdsOK'
  <2> DEFINE new == { r \in batch : msgId'[r] \in lastId + 1 .. lastId' }
             N == { <<msgId'[r], r>> : r \in new }
  <2>1. /\ lastId \in Nat /\ lastId' \in Nat /\ lastId < lastId'
        /\ batch \subseteq Requests
        /\ \A r \in Requests \ batch : msgId'[r] = msgId[r]
        /\ \A r \in batch : r \in new \/ (msgId'[r] = msgId[r] /\ msgId[r] # 0)
        /\ wire' = wire \cup { <<msgId'[r], r>> : r \in batch }
        /\ haveSent' = Renamed(haveSent, msgId') \cup { <<msgId'[r], r>> : r \in batch }
        /\ resending' \subseteq resending
        /\ msgId' \in [Requests -> Nat]
    <3>1. lastId \in Nat /\ batch \subseteq Requests
      BY DEF TypeOK
    <3>2. \A r \in batch : r \in new \/ (msgId'[r] = msgId[r] /\ msgId[r] # 0)
      BY <1>4, ContainerFacts
    <3> QED
      BY <1>4, <3>1, <3>2, ContainerFacts
  <2>2. hold' = hold
    BY <1>4 DEF SendContainer, workVars
  <2>3. \A r \in Requests : msgId[r] # 0 => msgId[r] \in 1 .. lastId
    <3> SUFFICES ASSUME NEW r \in Requests, msgId[r] # 0
                 PROVE  msgId[r] \in 1 .. lastId
      OBVIOUS
    <3>1. <<msgId[r], r>> \in Pairs
      BY WrittenFacts DEF Pairs
    <3> QED
      BY <3>1 DEF IdsOK
  <2>4. \A q, r \in new : msgId'[q] = msgId'[r] => q = r
    <3> SUFFICES ASSUME NEW q \in new, NEW r \in new, msgId'[q] = msgId'[r], q # r
                 PROVE  FALSE
      OBVIOUS
    <3>1. \/ msgId'[q] = msgId[q] /\ msgId[q] # 0
          \/ msgId'[r] = msgId[r] /\ msgId[r] # 0
      BY <1>4, ContainerFacts
    <3> QED
      BY <2>1, <2>3, <3>1
  <2>5. \A r \in Requests : msgId'[r] # 0 => <<msgId'[r], r>> \in Written \cup N
    BY <2>1, WrittenFacts
  <2>6. Written' \subseteq Written \cup N
    <3> SUFFICES ASSUME NEW p \in Written'
                 PROVE  p \in Written \cup N
      OBVIOUS
    <3>1. p[1] # 0
      BY DEF Written
    <3>2. CASE p = <<main.id, main.r>>
      BY <3>1, <3>2, WrittenFacts
    <3>3. CASE \E r \in Requests : p = <<msgId'[r], r>>
      <4> HIDE DEF N
      <4> QED
        BY <2>5, <3>1, <3>3
    <3> QED
      BY <1>1, <3>2, <3>3 DEF Written
  <2>7. \A r \in batch : <<msgId'[r], r>> \in Written \cup N
    <3>1. \A r \in new : <<msgId'[r], r>> \in N
      OBVIOUS
    <3> HIDE DEF N, new
    <3> QED
      BY <2>1, <3>1, WrittenFacts
  <2>8. ASSUME NEW p \in Renamed(haveSent, msgId')
        PROVE  p \in Pairs \cup N
    <3>0. haveSent \in SUBSET (Nat \X Requests) /\ msgId' \in [Requests -> Nat]
      BY <2>1 DEF TypeOK
    <3>1. /\ p = <<p[1], p[2]>> /\ p[1] \in Nat /\ p[2] \in Requests
          /\ \/ p \in haveSent
             \/ p[1] = msgId'[p[2]] /\ <<msgId[p[2]], p[2]>> \in haveSent
      <4>1. p \in Nat \X Requests
        BY <3>0, RenamedOK
      <4>2. \/ p \in haveSent
            \/ p[1] = msgId'[p[2]] /\ <<msgId[p[2]], p[2]>> \in haveSent
        BY <3>0, RenamedOK
      <4> QED
        BY <4>1, <4>2
    <3>2. CASE p \in haveSent
      BY <3>2 DEF Pairs
    <3>3. CASE p[1] = msgId'[p[2]] /\ <<msgId[p[2]], p[2]>> \in haveSent
      <4>1. CASE p[2] \in batch
        <5> HIDE DEF N
        <5> QED
          BY <2>7, <3>1, <3>3, <4>1 DEF Pairs
      <4>2. CASE p[2] \notin batch
        <5>1. p = <<msgId[p[2]], p[2]>>
          BY <2>1, <3>1, <3>3, <4>2
        <5> QED
          BY <3>3, <5>1 DEF Pairs
      <4> QED
        BY <4>1, <4>2
    <3> QED
      BY <3>1, <3>2, <3>3
  <2>9. Pairs' \subseteq Pairs \cup N
    <3> HIDE DEF N, new
    <3>1. { <<msgId'[r], r>> : r \in batch } \subseteq Written \cup N
      BY <2>7
    <3> QED
      BY <2>1, <2>2, <2>6, <2>8, <3>1 DEF Pairs
  <2>10. /\ \A p \in N : p[1] \in lastId + 1 .. lastId'
         /\ \A p, q \in N : p[1] = q[1] => p[2] = q[2]
    <3> HIDE DEF new
    <3>1. new \subseteq batch /\ \A r \in new : msgId'[r] \in lastId + 1 .. lastId'
      BY DEF new
    <3> QED
      BY <2>4, <3>1
  <2> HIDE DEF N, new
  <2> QED
    BY <2>1, <2>9, <2>10, IdsGrow
<1> QED
  BY <1>2, <1>3, <1>4 DEF TryToSend, ThreadGoesOn

\* The link makes no ids.
LEMMA IdsLink ==
  ASSUME TypeOK, TypeOK', IdsOK, Link
  PROVE  IdsOK'
<1>1. UNCHANGED main
  BY FarKeepsMain DEF FarNext, mainVars
<1>2. UNCHANGED <<msgId, lastId>> /\ wire' \subseteq wire /\ resending' \subseteq resending
  BY DEF Link, Connect, SaltComes, KeyBound, Break, ResetSession, DestroyKey, Stop,
         ResendAll, ChangeSession, dataVars, mapVars, farVars
<1>3. haveSent' \cup hold' \subseteq haveSent \cup hold
  BY DEF Link, Connect, SaltComes, KeyBound, Break, ResetSession, DestroyKey, Stop,
         ResendAll, dataVars, workVars
<1>4. Pairs' \subseteq Pairs /\ lastId <= lastId'
  BY <1>1, <1>2, <1>3 DEF Pairs, Written, TypeOK
<1> QED
  BY <1>4, IdsKeep

\* What the server tells makes no ids.
LEMMA IdsServer ==
  ASSUME TypeOK, TypeOK', IdsOK, Server \/ \E c \in containers : ClearOld(c)
  PROVE  IdsOK'
<1>1. UNCHANGED main
  BY FarKeepsMain DEF FarNext, mainVars
<1>2. UNCHANGED <<msgId, lastId, hold>> /\ wire' \subseteq wire
  BY DEF Server, Answers, Answer, Ack, Refuse, Reject, Forget, NewSession, ClearOld,
         dataVars, mapVars, workVars, farVars
<1>3. haveSent' \subseteq haveSent /\ resending' \subseteq resending
  <2>1. \A ids, b : RequestsAcked(ids, b) => haveSent' \subseteq haveSent /\ resending' \subseteq resending
    BY DEF RequestsAcked
  <2> QED
    BY <2>1 DEF Server, Answers, Answer, Ack, Refuse, Reject, Forget, NewSession,
                ClearOld, dataVars, mapVars
<1>4. Pairs' \subseteq Pairs /\ lastId <= lastId'
  BY <1>1, <1>2, <1>3 DEF Pairs, Written, TypeOK
<1> QED
  BY <1>4, IdsKeep

\* No step gives an id to two requests.
LEMMA IdsStep == TypeOK /\ TypeOK' /\ MainOK /\ IdsOK /\ [Next]_vars => IdsOK'
<1> SUFFICES ASSUME TypeOK, TypeOK', MainOK, IdsOK, [Next]_vars
             PROVE  IdsOK'
  OBVIOUS
<1>1. CASE UNCHANGED vars
  BY <1>1 DEF vars, mainVars, dataVars, mapVars, workVars, farVars, IdsOK, Pairs, Written
<1> QED
  BY <1>1, IdsMain, IdsSend, IdsLink, IdsServer DEF Next

-----------------------------------------------------------------------------
(***************************************************************************)
(* Requests are kept.                                                      *)
(***************************************************************************)

\* Where the session keeps a request.
InSession(r) == r \in toSend \cup Owners(haveSent \cup hold) \cup {sending}

\* The requests of some pairs.
LEMMA OwnersOf ==
  ASSUME NEW A, NEW B
  PROVE  /\ Owners(A \cup B) = Owners(A) \cup Owners(B)
         /\ A \subseteq B => Owners(A) \subseteq Owners(B)
         /\ Owners({}) = {}
         /\ \A p \in A : p[2] \in Owners(A)
         /\ \A r : r \in Owners(A) <=> \E p \in A : p[2] = r
BY DEF Owners

\* At first nobody waits for a request.
LEMMA KeptInit == Init => KeptOK
BY DEF Init, KeptOK, Waiting, Asked

\* The main thread drops no request that somebody waits for.
LEMMA KeptMain ==
  ASSUME TypeOK, MainOK, IdsOK, KeptOK,
         \/ MainGoesOn
         \/ \E r \in Requests : SendRequest(r) \/ Cancel(r) \/ CheckDelayed(r)
  PROVE  KeptOK'
<1> DEFINE Other(q) == InSession(q) \/ q \in delayed \/ InReceived(q) \/ InMain(q)
<1>0. KeptOK = \A q \in Waiting \ slipped : Other(q)
  BY DEF KeptOK, InSession, InReceived, InMain
<1>1. KeptOK' = \A q \in Waiting' \ slipped' : Other(q)'
  BY DEF KeptOK, InSession, InReceived, InMain
<1>2. UNCHANGED <<slipped, hold, sending>>
  BY DEF MainGoesOn, SendRequest, Cancel, CheckDelayed, TakeAnswer, TellResult,
         DelayRequest, SendAgain, RestoreCallback, CancelToSend, CancelHaveSent,
         CancelParser, workVars, pastVars
<1> SUFFICES ASSUME NEW q \in Waiting', q \notin slipped
             PROVE  Other(q)'
  BY <1>1, <1>2
<1> USE DEF Waiting, Asked, InReceived, InMain, Taking
<1>3. ASSUME NEW r \in Requests, SendRequest(r)
      PROVE  Other(q)'
  BY <1>0, <1>2, <1>3 DEF SendRequest, SendPrepared, TypeOK, InSession
<1>4. ASSUME NEW r \in Requests, Cancel(r)
      PROVE  Other(q)'
  BY <1>0, <1>2, <1>4 DEF Cancel, dataVars, TypeOK, Told, InSession, Free
<1>5. ASSUME NEW r \in Requests, CheckDelayed(r)
      PROVE  Other(q)'
  BY <1>0, <1>2, <1>5 DEF CheckDelayed, SendPrepared, TypeOK, InSession
<1>6. ASSUME NEW a \in received, TakeAnswer(a)
      PROVE  Other(q)'
  <2>1. InSession(q)' <=> InSession(q)
    BY <1>2, <1>6 DEF TakeAnswer, InSession
  <2>2. a.kind \in Taking /\ a.r \in Requests /\ main.at = "free" /\ parser = Waiting
    BY <1>6 DEF TypeOK, TakeAnswer, Free, MainOK
  <2>3. CASE a.r \in parser
    <3>1. main' = [Free EXCEPT !.at = a.kind, !.r = a.r] /\ delayed' = delayed
      BY <1>6, <2>3 DEF TakeAnswer
    <3>2. main'.at \in Taking /\ main'.r = a.r
      BY <2>2, <3>1 DEF Free
    <3> QED
      BY <1>0, <1>6, <2>1, <2>2, <3>1, <3>2 DEF TakeAnswer
  <2>4. CASE a.r \notin parser
    <3>1. q # a.r /\ delayed' = delayed \ {a.r} /\ main' = main /\ told' = told
      BY <1>6, <2>2, <2>4 DEF TakeAnswer
    <3>2. InReceived(q) => InReceived(q)'
      BY <1>6, <3>1 DEF TakeAnswer
    <3> QED
      BY <1>0, <2>1, <3>1, <3>2
  <2> QED
    BY <2>3, <2>4
<1>7. CASE TellResult
  BY <1>0, <1>2, <1>7 DEF TellResult, dataVars, TypeOK, Told, InSession, Free
<1>8. CASE DelayRequest
  BY <1>0, <1>2, <1>8 DEF DelayRequest, dataVars, InSession, Free
<1>9. CASE SendAgain
  BY <1>0, <1>2, <1>9 DEF SendAgain, SendPrepared, InSession, TypeOK, MainTypes
<1>10. CASE RestoreCallback
  BY <1>0, <1>2, <1>10 DEF RestoreCallback, dataVars, InSession
<1>11. CASE CancelToSend
  BY <1>0, <1>2, <1>11 DEF CancelToSend, InSession, MainOK, Cancelling
<1>12. CASE CancelHaveSent
  <2>1. told' = told /\ q # main.r /\ main.r \in Requests /\ ~InMain(q) /\ q \in Waiting
    BY <1>12 DEF CancelHaveSent, MainOK, Cancelling
  <2>2. ASSUME NEW p \in haveSent, p[2] = q
        PROVE  p[1] # main.id
    <3>1. p \in Pairs /\ p[1] # 0
      BY DEF Pairs, IdsOK
    <3>2. main.id # 0 => <<main.id, main.r>> \in Pairs
      BY WrittenFacts DEF Pairs
    <3> QED
      BY <2>1, <2>2, <3>1, <3>2 DEF IdsOK
  <2>3. q \in Owners(haveSent) => q \in Owners(haveSent')
    BY <1>12, <2>2 DEF CancelHaveSent, Owners
  <2>4. UNCHANGED <<delayed, toSend, received>>
    BY <1>12 DEF CancelHaveSent
  <2>5. InSession(q) => InSession(q)'
    BY <1>2, <2>3, <2>4, OwnersOf DEF InSession
  <2> QED
    BY <1>0, <2>1, <2>4, <2>5
<1>13. CASE CancelParser
  BY <1>0, <1>2, <1>13 DEF CancelParser, dataVars, InSession
<1> QED
  BY <1>3, <1>4, <1>5, <1>6, <1>7, <1>8, <1>9, <1>10, <1>11, <1>12, <1>13 DEF MainGoesOn

\* The session's thread moves requests between its maps, and loses none.
LEMMA KeptSend ==
  ASSUME TypeOK, KeptOK, TryToSend \/ ThreadGoesOn \/ Link
  PROVE  KeptOK'
<1>1. UNCHANGED <<mainVars, received, slipped>>
  <2>1. UNCHANGED mainVars
    BY FarKeepsMain DEF FarNext
  <2>2. TryToSend => UNCHANGED <<received, slipped>>
    BY DEF TryToSend, TryToSendNothing, Resume, TakeAlone, SendContainer, pastVars
  <2>3. ThreadGoesOn => UNCHANGED <<received, slipped>>
    BY DEF ThreadGoesOn, SendAlone, ResendNext, Place, pastVars
  <2>4. Link => UNCHANGED <<received, slipped>>
    BY DEF Link, Connect, SaltComes, KeyBound, Break, ResetSession, DestroyKey, Stop,
           ResendAll, dataVars, pastVars
  <2> QED
    BY <2>1, <2>2, <2>3, <2>4
<1> SUFFICES ASSUME NEW q \in Requests, InSession(q)
             PROVE  InSession(q)'
  BY <1>1 DEF KeptOK, InSession, Waiting, Asked, mainVars
<1>2. 0 \notin Requests
  BY MtpSessionAssumption
<1>3. CASE UNCHANGED <<toSend, haveSent, hold, sending>>
  BY <1>3 DEF InSession
<1>4. CASE TakeAlone
  BY <1>2, <1>4 DEF TakeAlone, Idle, InSession
<1>5. CASE SendAlone
  <2>1. /\ <<lastId + 1, sending>> \in haveSent' /\ haveSent \subseteq haveSent'
        /\ toSend' = toSend /\ hold' = hold
    BY <1>5 DEF SendAlone
  <2> QED
    BY <2>1 DEF InSession, Owners
<1>6. ASSUME NEW batch \in SUBSET toSend, SendContainer(batch)
      PROVE  InSession(q)'
  <2>1. toSend' = toSend \ batch /\ UNCHANGED workVars
    BY <1>6 DEF SendContainer
  <2>2. /\ haveSent' = Renamed(haveSent, msgId') \cup { <<msgId'[r], r>> : r \in batch }
        /\ msgId' \in [Requests -> Nat] /\ haveSent \in SUBSET (Nat \X Requests)
    BY <1>6, ContainerFacts DEF TypeOK
  <2>3. Owners(Renamed(haveSent, msgId')) = Owners(haveSent)
    BY <2>2, RenamedOK
  <2>4. ASSUME NEW r \in batch
        PROVE  r \in Owners(haveSent')
    <3>1. <<msgId'[r], r>> \in haveSent'
      BY <2>2
    <3> QED
      BY <3>1 DEF Owners
  <2>5. Owners(haveSent) \subseteq Owners(haveSent')
    <3>1. Renamed(haveSent, msgId') \subseteq haveSent'
      BY <2>2
    <3> QED
      BY <2>3, <3>1, OwnersOf
  <2> QED
    BY <2>1, <2>4, <2>5, OwnersOf DEF InSession, workVars
<1>7. CASE ResendNext
  <2>1. haveSent \cup hold \subseteq haveSent' \cup hold'
    BY <1>7 DEF ResendNext
  <2> QED
    BY <1>7, <2>1 DEF ResendNext, InSession, Owners
<1>8. CASE Place
  BY <1>8, OwnersOf DEF Place, InSession
<1>9. CASE ResendAll /\ Idle
  BY <1>9 DEF ResendAll, Idle, InSession, Owners
<1> QED
  BY <1>3, <1>4, <1>5, <1>6, <1>7, <1>8, <1>9
  DEF TryToSend, ThreadGoesOn, Link, TryToSendNothing, Resume, Connect, SaltComes,
      KeyBound, Break, ResetSession, DestroyKey, Stop, dataVars, workVars

\* An answer ends the wait of the request its message was made for, and an
\* ack that of a request whose callback is out: that one slips.
LEMMA KeptServer ==
  ASSUME TypeOK, MainOK, IdsOK, KeptOK, Server \/ \E c \in containers : ClearOld(c)
  PROVE  KeptOK'
<1> DEFINE Other(q) == q \in delayed \/ InReceived(q) \/ InMain(q)
<1>1. UNCHANGED mainVars /\ slipped \subseteq slipped' /\ received \subseteq received'
  <2>1. UNCHANGED mainVars
    BY FarKeepsMain DEF FarNext
  <2>2. slipped \subseteq slipped' /\ received \subseteq received'
    BY DEF Server, Answers, Answer, Ack, Refuse, Reject, Forget, NewSession, ClearOld,
           dataVars, pastVars
  <2> QED
    BY <2>1, <2>2
<1>2. \A q : Other(q) => Other(q)'
  BY <1>1 DEF InReceived, InMain, mainVars
<1> SUFFICES ASSUME NEW q \in Waiting, q \notin slipped', InSession(q), ~InSession(q)'
             PROVE  InReceived(q)'
  BY <1>1, <1>2 DEF KeptOK, InSession, InReceived, InMain, Waiting, Asked, mainVars
<1>3. UNCHANGED <<hold, sending>>
  BY DEF Server, Answers, Answer, Ack, Refuse, Reject, Forget, NewSession, ClearOld, workVars
<1>4. ASSUME NEW ids, NEW b \in BOOLEAN, RequestsAcked(ids, b)
      PROVE  /\ q \in Owners(haveSent \ haveSent') \cup (toSend \ toSend')
             /\ \E p \in haveSent \cup resending :
                  p[1] \in ids /\ p[2] = q /\ (b \/ q \notin parser)
  <2>1. CASE q \in toSend
    <3>1. q \in toSend \ toSend'
      BY <2>1 DEF InSession
    <3>2. PICK p \in resending \ resending' : p[2] = q
      BY <1>4, <3>1, AckedFacts, OwnersOf
    <3> QED
      BY <1>4, <3>1, <3>2, AckedFacts
  <2>2. CASE q \notin toSend
    <3>1. q \in Owners(haveSent)
      BY <1>3, <2>2, OwnersOf DEF InSession
    <3>2. PICK p \in haveSent : p[2] = q
      BY <3>1, OwnersOf
    <3>3. p \notin haveSent'
      BY <3>2, OwnersOf DEF InSession
    <3> QED
      BY <1>4, <3>2, <3>3, AckedFacts, OwnersOf
  <2> QED
    BY <2>1, <2>2
<1>5. ASSUME NEW p \in wire, NEW kind \in Taking, Answer(p, kind)
      PROVE  InReceived(q)'
  <2>0. RequestsAcked({p[1]}, TRUE)
    BY <1>5 DEF Answer
  <2> DEFINE ids == {p[1]}
  <2>1. PICK x \in haveSent \cup resending : x[1] \in ids /\ x[2] = q
    <3>1. RequestsAcked(ids, TRUE)
      BY <2>0
    <3> HIDE DEF ids
    <3> QED
      BY <1>4, <3>1, Zenon
  <2>2. p[2] = q
    BY <2>1 DEF IdsOK, Pairs
  <2>3. WasSent(p)
    BY <1>5, <2>2 DEF Answer, Waiting, Asked
  <2>4. [r |-> p[2], kind |-> kind] \in received'
    BY <1>5, <2>3 DEF Answer
  <2> QED
    BY <2>2, <2>4 DEF InReceived
<1>6. ASSUME NEW id, Ack(id)
      PROVE  InReceived(q)'
  <2>1. PICK ids : RequestsAcked(ids, FALSE)
    BY <1>6 DEF Ack
  <2>2. q \in Owners(haveSent \ haveSent') \cup (toSend \ toSend') /\ q \notin parser
    BY <1>4, <2>1
  <2>3. main.r = q
    BY <2>2 DEF MainOK, Taking, Cancelling, TypeOK, MainTypes
  <2> QED
    BY <1>6, <2>2, <2>3 DEF Ack, Waiting, Asked
<1>7. CASE UNCHANGED <<toSend, haveSent>>
  BY <1>3, <1>7 DEF InSession
<1> QED
  BY <1>5, <1>6, <1>7 DEF Server, Answers, Refuse, Reject, Forget, NewSession, ClearOld,
                          dataVars, Taking

\* No step drops a request that somebody waits for.
LEMMA KeptStep == TypeOK /\ MainOK /\ IdsOK /\ KeptOK /\ [Next]_vars => KeptOK'
<1> SUFFICES ASSUME TypeOK, MainOK, IdsOK, KeptOK, [Next]_vars
             PROVE  KeptOK'
  OBVIOUS
<1>1. CASE UNCHANGED vars
  BY <1>1 DEF vars, mainVars, dataVars, workVars, pastVars, KeptOK, Waiting, Asked
<1> QED
  BY <1>1, KeptMain, KeptSend, KeptServer DEF Next

(***************************************************************************)
(* A request somebody waits for is never dropped between the maps of the   *)
(* two threads, but for the two ways it slips.                             *)
(***************************************************************************)
THEOREM RequestsAreKept == Spec => []RequestKept
<1>1. Init => TypeOK /\ MainOK /\ IdsOK /\ KeptOK
  BY TypeInit, MainInit, IdsInit, KeptInit
<1>2. TypeOK /\ MainOK /\ IdsOK /\ KeptOK /\ [Next]_vars
        => TypeOK' /\ MainOK' /\ IdsOK' /\ KeptOK'
  BY TypeStep, MainStep, IdsStep, KeptStep
<1>3. KeptOK => RequestKept
  BY DEF KeptOK, RequestKept, Kept, Waiting
<1> QED
  BY <1>1, <1>2, <1>3, PTL DEF Spec

-----------------------------------------------------------------------------
(***************************************************************************)
(* A request is in one map.                                                *)
(***************************************************************************)
Places(r) == Queued(r) \/ Sent(r) \/ r \in Owners(resending \cup wire)

\* A request that is in a map has no answer that is still to be dealt with.
LEMMA PlaceExcludes ==
  ASSUME NEW r, InOnePlace(r), Places(r)
  PROVE  Asked(r) /\ r \notin delayed /\ ~InReceived(r) /\ ~InMain(r)
BY DEF InOnePlace, Places

\* What the main thread knows of a request.
SameInMain(r) ==
  /\ Asked(r)' <=> Asked(r)
  /\ r \in delayed' <=> r \in delayed
  /\ \A a : a.r = r => (a \in received' <=> a \in received)
  /\ InMain(r)' <=> InMain(r)

\* A request stays where it is, or it is taken out of haveSent or wire.
LEMMA PlaceStays ==
  ASSUME NEW r \in Requests, InOnePlace(r), SameInMain(r),
         \A p \in haveSent' : p[2] = r => p \in haveSent,
         \A p \in hold' : p[2] = r => p \in hold,
         \A p \in wire' : p[2] = r => p \in wire,
         \A p : p[2] = r => (p \in resending' <=> p \in resending),
         r \in toSend' <=> r \in toSend,
         sending' = r <=> sending = r,
         msgId'[r] = msgId[r],
         forced \subseteq forced'
  PROVE  InOnePlace(r)'
<1> USE DEF Owners, Queued, Sent
<1>1. /\ r \in Owners(haveSent') => r \in Owners(haveSent)
      /\ r \in Owners(hold') => r \in Owners(hold)
      /\ r \in Owners(wire') => r \in Owners(wire)
      /\ r \in Owners(resending') <=> r \in Owners(resending)
  OBVIOUS
<1>2. InReceived(r)' <=> InReceived(r)
  BY DEF SameInMain, InReceived
<1>3. \A p \in haveSent' \cup hold' \cup resending' \cup wire' : p[2] = r => p[1] = msgId'[r]
  BY DEF InOnePlace
<1>4. \A a, b \in received' : a.r = r /\ b.r = r => a = b
  BY DEF InOnePlace, SameInMain
<1>5. /\ Queued(r)' <=> Queued(r)
      /\ Sent(r)' => Sent(r)
      /\ r \in Owners(resending' \cup wire') => r \in Owners(resending \cup wire)
  OBVIOUS
<1> HIDE DEF Owners, Queued, Sent
<1> QED
  BY <1>1, <1>2, <1>3, <1>4, <1>5 DEF InOnePlace, SameInMain

\* A request that is not queued, sent, delayed or about to be told of can be
\* queued, or put off.
LEMMA PlaceQueued ==
  ASSUME TypeOK, NEW r \in Requests, InOnePlace(r), ~Places(r),
         UNCHANGED <<haveSent, hold, resending, wire, sending, forced, received>>,
         toSend' = toSend \cup {r}, msgId' = [msgId EXCEPT ![r] = 0],
         ~InReceived(r), Asked(r)', r \notin delayed', ~InMain(r)'
  PROVE  InOnePlace(r)'
<1>1. ~Sent(r)' /\ r \notin Owners(resending \cup wire)' /\ ~InReceived(r)'
  BY DEF Places, Sent, InReceived
<1>2. \A p \in haveSent' \cup hold' \cup resending' \cup wire' : p[2] # r
  BY <1>1 DEF Sent, Owners
<1>3. r \in toSend' /\ r # sending'
  BY DEF Places, Queued
<1>4. r \notin Owners(hold') /\ r \notin Owners(haveSent')
      /\ r \notin Owners(resending') /\ r \notin Owners(wire')
  BY <1>2 DEF Owners
<1> QED
  BY <1>1, <1>2, <1>3, <1>4 DEF InOnePlace, InReceived

\* The main thread puts no request in two places.
LEMMA PlacesMain ==
  ASSUME TypeOK, MainOK, PlacesOK,
         \/ MainGoesOn
         \/ \E r \in Requests : SendRequest(r) \/ Cancel(r) \/ CheckDelayed(r)
  PROVE  PlacesOK'
<1>1. haveSent' \subseteq haveSent
      /\ UNCHANGED <<hold, resending, wire, sending, forced, rejected>>
  BY DEF MainGoesOn, SendRequest, Cancel, CheckDelayed, TakeAnswer, TellResult,
         DelayRequest, SendAgain, RestoreCallback, CancelToSend, CancelHaveSent,
         CancelParser, SendPrepared, workVars, pastVars, mapVars, farVars, dataVars
<1> SUFFICES ASSUME NEW r \in Requests, r \notin rejected, told'[r] # "cancelled"
             PROVE  InOnePlace(r)'
  BY <1>1 DEF PlacesOK
<1>2. told[r] # "cancelled"
  BY DEF MainGoesOn, SendRequest, Cancel, CheckDelayed, TakeAnswer, TellResult,
         DelayRequest, SendAgain, RestoreCallback, CancelToSend, CancelHaveSent,
         CancelParser, TypeOK, MainOK, Waiting, Asked, Taking
<1>3. InOnePlace(r)
  BY <1>2 DEF PlacesOK
<1>4. ASSUME SameInMain(r), r \in toSend' <=> r \in toSend, msgId'[r] = msgId[r]
      PROVE  InOnePlace(r)'
  BY <1>1, <1>3, <1>4, PlaceStays
<1>5. ASSUME NEW q \in Requests, SendRequest(q)
      PROVE  InOnePlace(r)'
  <2>1. /\ main' = main /\ main = Free /\ delayed' = delayed /\ received' = received
        /\ told[q] = "new" /\ told' = [told EXCEPT ![q] = "asked"]
        /\ toSend' = toSend \cup {q} /\ msgId' = [msgId EXCEPT ![q] = 0]
        /\ haveSent' = haveSent
    BY <1>5 DEF SendRequest, SendPrepared
  <2>2. CASE q = r
    <3>1. ~Asked(r) /\ Asked(r)' /\ ~InMain(r)'
      BY <2>1, <2>2 DEF Asked, TypeOK, InMain, Free, Taking
    <3>2. ~Places(r) /\ ~InReceived(r) /\ r \notin delayed'
      BY <1>3, <2>1, <3>1 DEF InOnePlace, Places
    <3> QED
      BY <1>1, <1>3, <2>1, <2>2, <3>1, <3>2, PlaceQueued
  <2>3. CASE q # r
    <3>1. SameInMain(r)
      BY <2>1, <2>3 DEF SameInMain, Asked, TypeOK, InMain
    <3> QED
      BY <1>4, <2>1, <2>3, <3>1 DEF TypeOK
  <2> QED
    BY <2>2, <2>3
<1>6. ASSUME NEW q \in Requests, Cancel(q)
      PROVE  InOnePlace(r)'
  <2>1. q # r /\ UNCHANGED dataVars /\ told' = [told EXCEPT ![q] = "cancelled"]
        /\ delayed' = delayed \ {q} /\ main = Free /\ main'.at = "toSend"
    BY <1>6 DEF Cancel, TypeOK
  <2>2. SameInMain(r)
    BY <2>1 DEF SameInMain, Asked, TypeOK, InMain, Taking, Free, dataVars
  <2> QED
    BY <1>4, <2>1, <2>2 DEF dataVars
<1>7. ASSUME NEW q \in Requests, CheckDelayed(q)
      PROVE  InOnePlace(r)'
  <2>1. /\ main' = main /\ main = Free /\ received' = received /\ told' = told
        /\ q \in delayed /\ delayed' = delayed \ {q}
        /\ toSend' = toSend \cup {q} /\ msgId' = [msgId EXCEPT ![q] = 0]
        /\ haveSent' = haveSent
    BY <1>7 DEF CheckDelayed, SendPrepared
  <2>2. CASE q = r
    <3>1. ~Places(r) /\ ~InReceived(r) /\ Asked(r)
      BY <1>3, <2>1, <2>2 DEF InOnePlace, Places
    <3>2. Asked(r)' /\ ~InMain(r)' /\ r \notin delayed'
      BY <2>1, <2>2, <3>1 DEF Asked, InMain, Free, Taking
    <3> QED
      BY <1>1, <1>3, <2>1, <2>2, <3>1, <3>2, PlaceQueued
  <2>3. CASE q # r
    <3>1. SameInMain(r)
      BY <2>1, <2>3 DEF SameInMain, Asked, InMain
    <3> QED
      BY <1>4, <2>1, <2>3, <3>1 DEF TypeOK
  <2> QED
    BY <2>2, <2>3

<1>8. ASSUME NEW a \in received, TakeAnswer(a)
      PROVE  InOnePlace(r)'
  <2>1. /\ main = Free /\ received' = received \ {a}
        /\ UNCHANGED <<told, toSend, msgId, haveSent>>
        /\ parser = Waiting /\ a.kind \in Taking /\ a.r \in Requests
    BY <1>8 DEF TakeAnswer, MainOK, Free, TypeOK
  <2>2. CASE a.r = r
    <3>1. InReceived(r)
      BY <2>2 DEF InReceived
    <3>2. Asked(r) /\ ~Places(r) /\ r \notin delayed
      BY <1>3, <3>1 DEF InOnePlace, Places
    <3>3. delayed' = delayed /\ Asked(r)'
      BY <1>8, <2>1, <2>2, <3>2 DEF TakeAnswer, Waiting, Asked
    <3>4. ~InReceived(r)'
      BY <1>3, <2>1, <2>2 DEF InOnePlace, InReceived
    <3> QED
      BY <1>1, <1>3, <2>1, <3>2, <3>3, <3>4
      DEF InOnePlace, Places, Queued, Sent, InReceived
  <2>3. CASE a.r # r
    <3>1. r \in delayed' <=> r \in delayed
      BY <1>8, <2>3 DEF TakeAnswer
    <3>2. ~InMain(r) /\ ~InMain(r)'
      <4>1. CASE a.r \in parser
        <5>1. main' = [Free EXCEPT !.at = a.kind, !.r = a.r]
          BY <1>8, <4>1 DEF TakeAnswer
        <5> QED
          BY <2>1, <2>3, <5>1 DEF InMain, Free, Taking
      <4>2. CASE a.r \notin parser
        BY <1>8, <2>1, <4>2 DEF TakeAnswer, InMain, Free, Taking
      <4> QED
        BY <4>1, <4>2
    <3>3. SameInMain(r)
      BY <2>1, <2>3, <3>1, <3>2 DEF SameInMain, Asked
    <3> QED
      BY <1>4, <2>1, <3>3
  <2> QED
    BY <2>2, <2>3
<1>9. CASE TellResult
  <2>1. /\ main.at = "result" /\ main' = Free /\ delayed' = delayed \ {main.r}
        /\ told' = [told EXCEPT ![main.r] = "answered"]
        /\ UNCHANGED <<toSend, msgId, haveSent, received>>
    BY <1>9 DEF TellResult, dataVars
  <2>2. CASE main.r = r
    <3>1. InMain(r)
      BY <2>1, <2>2 DEF InMain, Taking
    <3>2. ~Places(r) /\ r \notin delayed /\ ~InReceived(r)
      BY <1>3, <3>1 DEF InOnePlace, Places
    <3>3. ~Asked(r)' /\ r \notin delayed' /\ ~InMain(r)'
      BY <2>1, <2>2, <3>2 DEF Asked, TypeOK, InMain, Free, Taking
    <3> QED
      BY <1>1, <1>3, <2>1, <3>2, <3>3
      DEF InOnePlace, Places, Queued, Sent, InReceived
  <2>3. CASE main.r # r
    <3>1. SameInMain(r)
      BY <2>1, <2>3 DEF SameInMain, Asked, TypeOK, InMain, Free, Taking
    <3> QED
      BY <1>4, <2>1, <3>1
  <2> QED
    BY <2>2, <2>3
<1>10. CASE DelayRequest
  <2>1. /\ main.at = "retry" /\ main' = Free /\ delayed' = delayed \cup {main.r}
        /\ UNCHANGED <<told, toSend, msgId, haveSent, received>>
    BY <1>10 DEF DelayRequest, dataVars
  <2>2. CASE main.r = r
    <3>1. InMain(r) /\ Asked(r)
      BY <2>1, <2>2 DEF InMain, Taking, MainOK, Waiting
    <3>2. ~Places(r) /\ ~InReceived(r)
      BY <1>3, <3>1 DEF InOnePlace, Places
    <3>3. Asked(r)' /\ ~InMain(r)' /\ ~InReceived(r)'
      BY <2>1, <3>1, <3>2 DEF Asked, InMain, Free, Taking, InReceived
    <3> QED
      BY <1>1, <1>3, <2>1, <3>2, <3>3
      DEF InOnePlace, Places, Queued, Sent, InReceived
  <2>3. CASE main.r # r
    <3>1. SameInMain(r)
      BY <2>1, <2>3 DEF SameInMain, Asked, InMain, Free, Taking
    <3> QED
      BY <1>4, <2>1, <3>1
  <2> QED
    BY <2>2, <2>3
<1>11. CASE SendAgain
  <2>1. /\ main.at = "again" /\ main'.at = "restore" /\ received' = received
        /\ UNCHANGED <<told, delayed, haveSent>> /\ main.r \in Requests
        /\ toSend' = toSend \cup {main.r} /\ msgId' = [msgId EXCEPT ![main.r] = 0]
    BY <1>11, MainRequest DEF SendAgain, SendPrepared, TypeOK, MainTypes
  <2>2. CASE main.r = r
    <3>1. InMain(r) /\ Asked(r)
      BY <2>1, <2>2 DEF InMain, Taking, MainOK, Waiting
    <3>2. ~Places(r) /\ ~InReceived(r) /\ r \notin delayed'
      BY <1>3, <2>1, <3>1 DEF InOnePlace, Places
    <3>3. Asked(r)' /\ ~InMain(r)'
      BY <2>1, <3>1 DEF Asked, InMain, Taking
    <3> QED
      BY <1>1, <1>3, <2>1, <2>2, <3>2, <3>3, PlaceQueued
  <2>3. CASE main.r # r
    <3>1. SameInMain(r)
      BY <2>1, <2>3 DEF SameInMain, Asked, InMain, Taking
    <3> QED
      BY <1>4, <2>1, <2>3, <3>1 DEF TypeOK
  <2> QED
    BY <2>2, <2>3
<1>12. CASE RestoreCallback \/ CancelToSend \/ CancelHaveSent \/ CancelParser
  <2>1. /\ ~InMain(r) /\ ~InMain(r)' /\ UNCHANGED <<told, delayed, received, msgId>>
    BY <1>12 DEF RestoreCallback, CancelToSend, CancelHaveSent, CancelParser, dataVars,
                 InMain, Taking, Free, TypeOK, MainTypes
  <2>2. r \in toSend' <=> r \in toSend
    BY <1>2, <1>12 DEF RestoreCallback, CancelToSend, CancelHaveSent, CancelParser, dataVars,
                 MainOK, Cancelling
  <2>3. SameInMain(r)
    BY <2>1 DEF SameInMain, Asked
  <2> QED
    BY <1>4, <2>1, <2>2, <2>3
<1> QED
  BY <1>5, <1>6, <1>7, <1>8, <1>9, <1>10, <1>11, <1>12 DEF MainGoesOn

\* Steps of the others leave a request where it is on the main thread.
LEMMA SameFar ==
  ASSUME UNCHANGED mainVars, received' = received, NEW r
  PROVE  SameInMain(r)
BY DEF mainVars, SameInMain, Asked, InMain

\* The request that tryToSend() sends alone was never sent again.
LEMMA PlaceAlone ==
  ASSUME TypeOK, NEW r \in Requests, InOnePlace(r), UNCHANGED mainVars,
         \/ TakeAlone
         \/ SendAlone
  PROVE  InOnePlace(r)'
<1> USE DEF Owners, Queued, Sent
<1>0. 0 \notin Requests
  BY MtpSessionAssumption
<1>1. CASE TakeAlone /\ r = Min(toSend)
  <2>1. /\ r \in toSend /\ r \notin forced /\ sending = 0
        /\ toSend' = toSend \ {r} /\ sending' = r
        /\ UNCHANGED <<haveSent, msgId, forced, received, hold, resending, wire>>
    BY <1>1, MinIsMember, MtpSessionAssumption DEF TakeAlone, Idle, mapVars, farVars, TypeOK
  <2>2. r \notin Owners(resending)
    BY <2>1 DEF InOnePlace
  <2>3. SameInMain(r)
    BY <2>1, SameFar
  <2>4. Queued(r) /\ Queued(r)' /\ (Sent(r)' <=> Sent(r)) /\ (InReceived(r)' <=> InReceived(r))
    BY <2>1 DEF InReceived
  <2> HIDE DEF Queued, Sent, Owners
  <2> QED
    BY <2>1, <2>2, <2>3, <2>4 DEF InOnePlace, SameInMain
<1>2. CASE TakeAlone /\ r # Min(toSend)
  <2>1. /\ toSend' = toSend \ {Min(toSend)} /\ sending = 0 /\ sending' = Min(toSend)
        /\ UNCHANGED <<haveSent, msgId, forced, received, hold, resending, wire>>
    BY <1>2 DEF TakeAlone, Idle, mapVars, farVars
  <2>2. SameInMain(r)
    BY <2>1, SameFar
  <2> QED
    BY <1>0, <1>2, <2>1, <2>2, PlaceStays
<1>3. CASE SendAlone /\ r = sending
  <2> DEFINE p == <<lastId + 1, r>>
  <2>1. /\ haveSent' = haveSent \cup {p} /\ wire' = wire \cup {p} /\ sending' = 0
        /\ msgId' = [msgId EXCEPT ![r] = lastId + 1]
        /\ UNCHANGED <<toSend, forced, received, hold, resending>>
    BY <1>3 DEF SendAlone
  <2>2. /\ ~Sent(r) /\ r \notin toSend /\ r \notin Owners(resending) /\ r \notin Owners(wire)
        /\ Queued(r)
    BY <1>3 DEF InOnePlace
  <2>3. Asked(r) /\ r \notin delayed /\ ~InReceived(r) /\ ~InMain(r)
    BY <2>2, PlaceExcludes DEF Places
  <2>4. SameInMain(r) /\ (InReceived(r)' <=> InReceived(r))
    BY <2>1, SameFar DEF InReceived
  <2>5. \A x \in haveSent' \cup hold' \cup resending' \cup wire' : x[2] = r => x = p
    BY <2>1, <2>2
  <2>6. p[1] = msgId'[r]
    BY <2>1 DEF TypeOK
  <2>7. ~Queued(r)' /\ r \notin toSend' /\ r \notin Owners(hold') /\ r \notin Owners(resending')
    BY <1>0, <2>1, <2>2
  <2> HIDE DEF p, Queued, Sent, Owners
  <2>8. \A a, b \in received' : a.r = r /\ b.r = r => a = b
    BY <2>1 DEF InOnePlace
  <2>9. Asked(r)' /\ r \notin delayed' /\ ~InReceived(r)' /\ ~InMain(r)'
    BY <2>3, <2>4 DEF SameInMain
  <2> QED
    BY <2>5, <2>6, <2>7, <2>8, <2>9 DEF InOnePlace
<1>4. CASE SendAlone /\ r # sending
  <2>1. /\ haveSent' = haveSent \cup {<<lastId + 1, sending>>}
        /\ wire' = wire \cup {<<lastId + 1, sending>>} /\ sending' = 0
        /\ msgId' = [msgId EXCEPT ![sending] = lastId + 1]
        /\ UNCHANGED <<toSend, forced, received, hold, resending>>
    BY <1>4 DEF SendAlone
  <2>2. SameInMain(r) /\ msgId'[r] = msgId[r]
    BY <1>4, <2>1, SameFar DEF TypeOK
  <2> QED
    BY <1>0, <1>4, <2>1, <2>2, PlaceStays
<1> QED
  BY <1>1, <1>2, <1>3, <1>4

\* A request that goes in a container leaves toSend and resending together,
\* and keeps its id if the server may still answer it.
LEMMA PlaceContainer ==
  ASSUME TypeOK, IdsOK, WakeOK, NEW r \in Requests, InOnePlace(r), UNCHANGED mainVars,
         NEW batch \in SUBSET toSend, SendContainer(batch)
  PROVE  InOnePlace(r)'
<1> DEFINE sent == { <<msgId'[q], q>> : q \in batch }
<1>1. /\ toSend' = toSend \ batch /\ Idle
      /\ UNCHANGED <<forced, received, hold, sending>>
  BY DEF SendContainer, workVars
<1>2. /\ haveSent' = Renamed(haveSent, msgId') \cup sent
      /\ wire' = wire \cup sent
      /\ resending' = { p \in resending : \A q \in batch : msgId[q] # p[1] }
      /\ msgId' \in [Requests -> Nat] /\ haveSent \in SUBSET (Nat \X Requests)
      /\ \A q \in Requests \ batch : msgId'[q] = msgId[q]
      /\ \A q \in batch : \/ msgId'[q] \in lastId + 1 .. lastId'
                          \/ msgId'[q] = msgId[q] /\ msgId[q] # 0 /\ started
  BY ContainerFacts DEF TypeOK
<1>3. \A p \in sent : p[2] \in batch /\ p[1] = msgId'[p[2]]
  OBVIOUS
<1>4. \A p \in Renamed(haveSent, msgId') :
        /\ p[2] = r => p[1] = msgId'[r]
        /\ p[2] \in Owners(haveSent)
        /\ p[1] = msgId'[p[2]] => <<msgId[p[2]], p[2]>> \in haveSent \/ p \in haveSent
  <2> SUFFICES ASSUME NEW p \in Renamed(haveSent, msgId')
               PROVE  /\ p[2] = r => p[1] = msgId'[r]
                      /\ p[2] \in Owners(haveSent)
                      /\ p[1] = msgId'[p[2]]
                           => <<msgId[p[2]], p[2]>> \in haveSent \/ p \in haveSent
    OBVIOUS
  <2>1. \/ p \in haveSent /\ p[1] # msgId[p[2]]
        \/ p[1] = msgId'[p[2]] /\ <<msgId[p[2]], p[2]>> \in haveSent
    BY <1>2, RenamedOK
  <2>2. Owners(Renamed(haveSent, msgId')) = Owners(haveSent)
    BY <1>2, RenamedOK
  <2> QED
    BY <2>1, <2>2 DEF InOnePlace, Owners
<1>5. SameInMain(r) /\ (InReceived(r)' <=> InReceived(r))
  BY <1>1, SameFar DEF InReceived
<1>6. ASSUME NEW q \in Requests, msgId[q] # 0
      PROVE  <<msgId[q], q>> \in Pairs
  BY <1>6, WrittenFacts DEF Pairs
<1> HIDE DEF sent
<1>7. CASE r \in batch
  <2>1. r \in toSend /\ ~Sent(r)
    BY <1>7 DEF InOnePlace, Queued
  <2>2. ASSUME NEW p \in wire, p[2] = r
        PROVE  p[1] = msgId'[r]
    <3>1. p[1] = msgId[r] /\ started /\ p[1] \in 1 .. lastId
      BY <2>2 DEF InOnePlace, WakeOK, IdsOK, Pairs
    <3>2. msgId[r] # 0
      BY <3>1 DEF TypeOK
    <3>3. r \notin { q \in batch : msgId[q] = 0 \/ ~started }
      BY <3>1, <3>2
    <3>4. msgId'[r] = msgId[r]
      BY <1>7, <3>3 DEF SendContainer, TypeOK
    <3> QED
      BY <3>1, <3>4
  <2>3. \A p \in resending : p[2] = r => p \notin resending'
    BY <1>2, <1>7 DEF InOnePlace
  <2>4. r \notin Owners(resending')
    BY <1>2, <2>3 DEF Owners
  <2>5. r \notin Owners(haveSent) /\ r \notin Owners(hold)
    BY <2>1 DEF Sent, Owners
  <2>6. \A p \in haveSent' \cup hold' \cup resending' \cup wire' :
          p[2] = r => p[1] = msgId'[r]
    BY <1>1, <1>2, <1>3, <1>4, <2>2, <2>3, <2>5 DEF Owners
  <2>7. ~Queued(r)' /\ r \notin toSend' /\ r \notin Owners(hold')
    BY <1>1, <1>7, <2>1, <2>5, MtpSessionAssumption DEF Queued, Idle
  <2>8. Asked(r) /\ r \notin delayed /\ ~InReceived(r) /\ ~InMain(r)
    BY <2>1, PlaceExcludes DEF Places, Queued
  <2>9. \A a, b \in received' : a.r = r /\ b.r = r => a = b
    BY <1>1 DEF InOnePlace
  <2>10. Asked(r)' /\ r \notin delayed' /\ ~InReceived(r)' /\ ~InMain(r)'
    BY <1>5, <2>8 DEF SameInMain
  <2> QED
    BY <2>4, <2>6, <2>7, <2>9, <2>10 DEF InOnePlace
<1>8. CASE r \notin batch
  <2>1. msgId'[r] = msgId[r]
    BY <1>2, <1>8
  <2>2. \A p \in haveSent' : p[2] = r => p \in haveSent
    <3> SUFFICES ASSUME NEW p \in haveSent', p[2] = r
                 PROVE  p \in haveSent
      OBVIOUS
    <3>1. p \in Renamed(haveSent, msgId')
      BY <1>2, <1>3, <1>8
    <3>2. p \in Nat \X Requests
      BY <1>2, <3>1, RenamedOK
    <3>3. p = <<msgId[r], r>>
      <4>1. p[1] = msgId[r] /\ p[2] = r
        BY <1>4, <2>1, <3>1
      <4>2. p = <<p[1], p[2]>>
        BY <3>2
      <4> QED
        BY <4>1, <4>2
    <3> QED
      BY <1>4, <2>1, <3>1, <3>3
  <2>3. \A p \in wire' : p[2] = r => p \in wire
    BY <1>2, <1>3, <1>8
  <2>4. ASSUME NEW p \in resending, p[2] = r
        PROVE  p \in resending'
    <3>1. ASSUME NEW q \in batch, msgId[q] = p[1]
          PROVE  FALSE
      <4>1. p \in Pairs /\ p[1] # 0 /\ q \in Requests
        BY DEF Pairs, IdsOK, TypeOK
      <4>2. <<msgId[q], q>> \in Pairs
        BY <1>6, <3>1, <4>1
      <4> QED
        BY <1>8, <2>4, <3>1, <4>1, <4>2 DEF IdsOK
    <3> QED
      BY <1>2, <3>1
  <2>5. \A p : p[2] = r => (p \in resending' <=> p \in resending)
    BY <1>2, <2>4
  <2>6. (r \in toSend' <=> r \in toSend) /\ (sending' = r <=> sending = r)
    BY <1>1, <1>8
  <2> QED
    BY <1>1, <1>5, <2>1, <2>2, <2>3, <2>5, <2>6, PlaceStays
<1> QED
  BY <1>7, <1>8

\* resend() in its two halves.
LEMMA PlaceResend ==
  ASSUME TypeOK, NEW r \in Requests, InOnePlace(r), UNCHANGED mainVars,
         \/ ResendNext
         \/ Place
         \/ ResendAll /\ Idle /\ wire' \subseteq wire /\ resending' = resending
  PROVE  InOnePlace(r)'
<1>1. SameInMain(r) /\ (InReceived(r)' <=> InReceived(r))
  <2>1. received' = received
    BY DEF ResendNext, Place, ResendAll
  <2> QED
    BY <2>1, SameFar DEF InReceived
<1>2. CASE ResendNext \/ (ResendAll /\ Idle /\ wire' \subseteq wire /\ resending' = resending)
  <2>1. /\ UNCHANGED <<toSend, msgId, forced, received, sending, resending>>
        /\ wire' \subseteq wire /\ haveSent' \cap hold' = {}
        /\ hold = {} /\ haveSent' \cup hold' = haveSent
    BY <1>2 DEF ResendNext, ResendAll, Idle, mapVars, farVars
  <2>2. Sent(r)' <=> Sent(r)
    BY <2>1 DEF Sent
  <2>3. r \in Owners(wire') => r \in Owners(wire)
    BY <2>1 DEF Owners
  <2>4. r \in Owners(hold') => r \notin Owners(haveSent')
    <3>1. ASSUME NEW p \in hold', NEW q \in haveSent', p[2] = r, q[2] = r
          PROVE  FALSE
      <4>1. p \in haveSent /\ q \in haveSent /\ p[1] = q[1]
        BY <2>1, <3>1 DEF InOnePlace
      <4>2. p = q
        BY <3>1, <4>1 DEF TypeOK
      <4> QED
        BY <2>1, <4>2
    <3> QED
      BY <3>1 DEF Owners
  <2>5. \A p \in haveSent' \cup hold' \cup resending' \cup wire' : p[2] = r => p[1] = msgId'[r]
    BY <2>1 DEF InOnePlace
  <2>6. (Queued(r)' <=> Queued(r))
        /\ (r \in Owners(resending' \cup wire') => r \in Owners(resending \cup wire))
    BY <2>1 DEF Queued, Owners
  <2> QED
    BY <1>1, <2>1, <2>2, <2>3, <2>4, <2>5, <2>6 DEF InOnePlace, SameInMain
<1>3. CASE Place /\ r \in Owners(hold)
  <2>1. /\ toSend' = toSend \cup Owners(hold) /\ forced' = forced \cup Owners(hold)
        /\ resending' = resending \cup hold /\ hold' = {}
        /\ UNCHANGED <<haveSent, msgId, received, sending, wire>>
    BY <1>3 DEF Place, farVars
  <2>2. Sent(r) /\ r \notin Owners(haveSent)
    BY <1>3 DEF InOnePlace, Sent, Owners
  <2>3. sending # r
    BY <2>2 DEF InOnePlace, Queued
  <2>4. /\ r \in toSend' /\ r \in forced' /\ r \in Owners(resending')
        /\ ~Sent(r)' /\ r \notin Owners(hold')
    BY <1>3, <2>1, <2>2 DEF Owners, Sent
  <2>5. \A p \in haveSent' \cup hold' \cup resending' \cup wire' : p[2] = r => p[1] = msgId'[r]
    BY <2>1 DEF InOnePlace
  <2>6. Asked(r) /\ r \notin delayed /\ ~InReceived(r) /\ ~InMain(r)
    BY <2>2, PlaceExcludes DEF Places
  <2>7. Asked(r)' /\ r \notin delayed' /\ ~InReceived(r)' /\ ~InMain(r)'
    BY <1>1, <2>6 DEF SameInMain
  <2>8. \A a, b \in received' : a.r = r /\ b.r = r => a = b
    BY <2>1 DEF InOnePlace
  <2> QED
    BY <2>1, <2>3, <2>4, <2>5, <2>7, <2>8 DEF InOnePlace
<1>4. CASE Place /\ r \notin Owners(hold)
  <2>1. /\ toSend' = toSend \cup Owners(hold) /\ forced \subseteq forced'
        /\ resending' = resending \cup hold /\ hold' = {}
        /\ UNCHANGED <<haveSent, msgId, received, sending, wire>>
    BY <1>4 DEF Place, farVars
  <2>2. \A p \in hold : p[2] # r
    BY <1>4 DEF Owners
  <2>3. r \in toSend' <=> r \in toSend
    BY <1>4, <2>1
  <2> QED
    BY <1>1, <2>1, <2>2, <2>3, PlaceStays
<1> QED
  BY <1>2, <1>3, <1>4

\* At first no request is anywhere.
LEMMA PlacesInit == Init => PlacesOK
<1> SUFFICES ASSUME Init, NEW r \in Requests
             PROVE  InOnePlace(r)
  BY DEF PlacesOK
<1>1. /\ haveSent = {} /\ hold = {} /\ resending = {} /\ wire = {} /\ toSend = {}
      /\ sending # r /\ delayed = {} /\ received = {} /\ main.at = "free"
  BY MtpSessionAssumption DEF Init, Free
<1>2. ~Queued(r) /\ ~Sent(r) /\ ~InReceived(r) /\ ~InMain(r)
      /\ r \notin Owners(hold) /\ r \notin Owners(resending \cup wire)
      /\ r \notin Owners(resending)
  BY <1>1 DEF Queued, Sent, InReceived, InMain, Owners, Taking
<1> QED
  BY <1>1, <1>2 DEF InOnePlace

\* The session's thread puts no request in two places when it sends.
LEMMA PlacesSend ==
  ASSUME TypeOK, IdsOK, WakeOK, PlacesOK, TryToSend \/ ThreadGoesOn
  PROVE  PlacesOK'
<1>1. UNCHANGED mainVars /\ rejected' = rejected
  <2>1. rejected' = rejected
    BY DEF TryToSend, TryToSendNothing, Resume, TakeAlone, SendContainer,
           ThreadGoesOn, SendAlone, ResendNext, Place, pastVars
  <2> QED
    BY <2>1, FarKeepsMain DEF FarNext
<1> SUFFICES ASSUME NEW r \in Requests, r \notin rejected, told[r] # "cancelled"
             PROVE  InOnePlace(r)'
  BY <1>1 DEF PlacesOK, mainVars
<1>2. InOnePlace(r)
  BY DEF PlacesOK
<1>3. CASE TryToSendNothing \/ Resume
  <2>1. UNCHANGED <<toSend, haveSent, msgId, forced, received, hold, sending, resending, wire>>
    BY <1>3 DEF TryToSendNothing, Resume, mapVars, workVars, farVars
  <2>2. SameInMain(r)
    BY <1>1, <2>1, SameFar
  <2> QED
    BY <1>2, <2>1, <2>2, PlaceStays
<1>4. CASE TakeAlone \/ SendAlone
  BY <1>1, <1>2, <1>4, PlaceAlone
<1>5. CASE \E batch \in SUBSET toSend : SendContainer(batch)
  BY <1>1, <1>2, <1>5, PlaceContainer
<1>6. CASE ResendNext \/ Place
  BY <1>1, <1>2, <1>6, PlaceResend
<1> QED
  BY <1>3, <1>4, <1>5, <1>6 DEF TryToSend, ThreadGoesOn

\* Connections and sessions that change put no request in two places.
LEMMA PlacesLink ==
  ASSUME TypeOK, PlacesOK, Link
  PROVE  PlacesOK'
<1>1. UNCHANGED mainVars /\ rejected' = rejected
  <2>1. rejected' = rejected
    BY DEF Link, Connect, SaltComes, KeyBound, Break, ResetSession, DestroyKey, Stop, pastVars
  <2> QED
    BY <2>1, FarKeepsMain DEF FarNext
<1> SUFFICES ASSUME NEW r \in Requests, r \notin rejected, told[r] # "cancelled"
             PROVE  InOnePlace(r)'
  BY <1>1 DEF PlacesOK, mainVars
<1>2. InOnePlace(r)
  BY DEF PlacesOK
<1>3. CASE (Connect \/ SaltComes) /\ ResendAll
  <2>1. Idle /\ wire' \subseteq wire /\ resending' = resending
    BY <1>3 DEF Connect, SaltComes, mapVars, farVars
  <2> QED
    BY <1>1, <1>2, <1>3, <2>1, PlaceResend
<1>4. CASE (Connect /\ ~ResendAll) \/ KeyBound \/ Break \/ ResetSession \/ DestroyKey
  <2>1. UNCHANGED <<toSend, haveSent, msgId, forced, received, hold, sending, resending>>
        /\ wire' \subseteq wire
    BY <1>4 DEF Connect, KeyBound, Break, ResetSession, DestroyKey, ChangeSession,
                dataVars, mapVars, workVars, farVars
  <2>2. SameInMain(r)
    BY <1>1, <2>1, SameFar
  <2> QED
    BY <1>2, <2>1, <2>2, PlaceStays
<1>5. CASE Stop
  <2>1. /\ UNCHANGED <<toSend, haveSent, msgId, forced, received, hold, sending>>
        /\ resending' = {} /\ wire' = {}
    BY <1>5 DEF Stop, ChangeSession, dataVars, workVars
  <2>2. SameInMain(r) /\ (InReceived(r)' <=> InReceived(r))
    BY <1>1, <2>1, SameFar DEF InReceived
  <2>3. (Queued(r)' <=> Queued(r)) /\ (Sent(r)' <=> Sent(r))
    BY <2>1 DEF Queued, Sent
  <2>4. /\ r \notin Owners(resending' \cup wire') /\ r \notin Owners(resending')
        /\ r \notin Owners(wire')
    BY <2>1 DEF Owners
  <2> QED
    BY <1>2, <2>1, <2>2, <2>3, <2>4 DEF InOnePlace, SameInMain
<1> QED
  BY <1>3, <1>4, <1>5 DEF Link, SaltComes

\* An answer takes the request out of every map, an ack out of both of the
\* two it is in while it waits to be sent again.
LEMMA PlaceAnswered ==
  ASSUME TypeOK, IdsOK, NEW r \in Requests, InOnePlace(r), UNCHANGED mainVars,
         NEW p \in wire, NEW kind, Answer(p, kind)
  PROVE  InOnePlace(r)'
<1> DEFINE ids == {p[1]}
<1>1. RequestsAcked(ids, TRUE)
  BY DEF Answer
<1>2. /\ wire' = wire \ {p} /\ Idle /\ UNCHANGED <<msgId, forced, hold, sending>>
      /\ received \subseteq received'
      /\ \A a \in received' : a \in received \/ a = [r |-> p[2], kind |-> kind]
  BY DEF Answer, Heard, workVars
<1>3. /\ haveSent' = { x \in haveSent : x[1] # p[1] }
      /\ resending' = { x \in resending : ~(x[1] = p[1] /\ p[1] \notin Ids(haveSent)) }
      /\ toSend' = { q \in toSend : q \notin Owners(resending \ resending') }
  <2>1. TRUE \in BOOLEAN
    OBVIOUS
  <2>2. \A x : x \in ids <=> x = p[1]
    OBVIOUS
  <2> HIDE DEF ids
  <2>3. /\ haveSent' = { x \in haveSent : ~(x[1] \in ids /\ (TRUE \/ x[2] \notin parser)) }
        /\ resending' = { x \in resending :
                          ~(/\ x[1] \in ids /\ (TRUE \/ x[2] \notin parser)
                            /\ x[1] \notin Ids(haveSent)) }
        /\ toSend' = { q \in toSend : q \notin Owners(resending \ resending') }
    BY <1>1, <2>1, AckedFacts, Zenon
  <2> QED
    BY <2>2, <2>3
<1> HIDE DEF ids
<1>4. \A x \in Pairs : x[1] = p[1] => x[2] = p[2]
  BY DEF IdsOK, Pairs
<1>5. haveSent \subseteq Pairs /\ resending \subseteq Pairs /\ wire \subseteq Pairs
  BY DEF Pairs
<1>6. hold = {} /\ sending = 0 /\ 0 \notin Requests
  BY <1>2, MtpSessionAssumption DEF Idle
<1>7. CASE p[2] = r
  <2>1. r \in Owners(wire) /\ p[1] = msgId[r]
    BY <1>7 DEF Owners, InOnePlace
  <2>2. Asked(r) /\ r \notin delayed /\ ~InReceived(r) /\ ~InMain(r)
    BY <2>1, PlaceExcludes, OwnersOf DEF Places
  <2>3. \A x \in haveSent \cup resending \cup wire : x[2] = r => x[1] = p[1]
    BY <2>1 DEF InOnePlace
  <2>4. r \notin Owners(haveSent')
    BY <1>3, <2>3 DEF Owners
  <2>5. r \notin Owners(wire')
    <3>1. ASSUME NEW x \in wire, x[2] = r
          PROVE  x = p
      BY <1>7, <2>3, <3>1 DEF TypeOK
    <3> QED
      BY <1>2, <3>1 DEF Owners
  <2>6. r \in Owners(resending) => p[1] \notin Ids(haveSent)
    <3>1. ASSUME r \in Owners(resending), NEW y \in haveSent, y[1] = p[1]
          PROVE  FALSE
      <4>1. y[2] = r
        BY <1>4, <1>5, <1>7, <3>1
      <4>2. Sent(r) /\ Queued(r)
        BY <3>1, <4>1 DEF Sent, Queued, Owners, InOnePlace
      <4> QED
        BY <4>2 DEF InOnePlace
    <3> QED
      BY <3>1 DEF Ids
  <2>7. r \notin Owners(resending')
    BY <1>3, <2>3, <2>6 DEF Owners
  <2>8. r \notin toSend'
    <3>1. ASSUME r \in toSend
          PROVE  r \in Owners(resending \ resending')
      <4>1. r \in Owners(resending)
        BY <2>1, <3>1 DEF InOnePlace, Queued
      <4> QED
        BY <2>7, <4>1 DEF Owners
    <3> QED
      BY <1>3, <3>1
  <2>9. /\ ~Queued(r)' /\ ~Sent(r)' /\ r \notin Owners(resending' \cup wire')
        /\ r \notin Owners(hold')
    BY <1>2, <1>6, <2>4, <2>5, <2>7, <2>8 DEF Queued, Sent, Owners
  <2>10. \A x \in haveSent' \cup hold' \cup resending' \cup wire' : x[2] # r
    BY <2>9 DEF Sent, Owners
  <2>11. Asked(r)' /\ r \notin delayed' /\ ~InMain(r)'
    BY <2>2 DEF mainVars, Asked, InMain
  <2>12. \A a, b \in received' : a.r = r /\ b.r = r => a = b
    BY <1>2, <2>2 DEF InReceived
  <2> QED
    BY <2>7, <2>8, <2>9, <2>10, <2>11, <2>12 DEF InOnePlace
<1>8. CASE p[2] # r
  <2>1. \A x \in haveSent \cup resending \cup wire : x[2] = r => x[1] # p[1]
    BY <1>4, <1>5, <1>8
  <2>2. \A x : x[2] = r => (x \in resending' <=> x \in resending)
    BY <1>3, <2>1
  <2>3. r \notin Owners(resending \ resending')
    BY <2>2 DEF Owners
  <2>4. r \in toSend' <=> r \in toSend
    BY <1>3, <2>3
  <2>5. SameInMain(r)
    BY <1>2, <1>8 DEF SameInMain, mainVars, Asked, InMain
  <2>6. haveSent' \subseteq haveSent /\ wire' \subseteq wire
    BY <1>2, <1>3
  <2> QED
    BY <1>2, <2>2, <2>4, <2>5, <2>6, PlaceStays
<1> QED
  BY <1>7, <1>8

\* An acknowledgement takes a request out of what is resent.
LEMMA PlaceAcked ==
  ASSUME TypeOK, NEW r \in Requests, InOnePlace(r), UNCHANGED mainVars,
         NEW id, Ack(id)
  PROVE  InOnePlace(r)'
<1>1. PICK ids : RequestsAcked(ids, FALSE)
  BY DEF Ack
<1>2. /\ haveSent' \subseteq haveSent /\ resending' \subseteq resending
      /\ toSend' = { q \in toSend : q \notin Owners(resending \ resending') }
  BY <1>1, AckedFacts
<1>3. UNCHANGED <<msgId, forced, hold, sending, wire, received>> /\ Idle
  BY DEF Ack, Heard, workVars, farVars
<1>4. SameInMain(r) /\ (InReceived(r)' <=> InReceived(r))
  BY <1>3, SameFar DEF InReceived
<1>5. hold = {} /\ sending = 0 /\ 0 \notin Requests
  BY <1>3, MtpSessionAssumption DEF Idle
<1>6. (Sent(r)' => Sent(r)) /\ (Queued(r)' => Queued(r)) /\ (Queued(r) => r \in toSend)
      /\ (Queued(r)' => r \in toSend')
  BY <1>2, <1>3, <1>5 DEF Sent, Queued, Owners
<1>7. \A x \in haveSent' \cup hold' \cup resending' \cup wire' : x[2] = r => x[1] = msgId'[r]
  BY <1>2, <1>3 DEF InOnePlace
<1>8. ASSUME NEW x \in resending, NEW y \in resending, x[2] = r, y[2] = r
      PROVE  x = y
  <2>1. x[1] = msgId[r] /\ y[1] = msgId[r]
    BY <1>8 DEF InOnePlace
  <2> QED
    BY <1>8, <2>1 DEF TypeOK
<1>9. r \in Owners(resending') => r \in toSend' \cap forced'
  <2>1. ASSUME r \in Owners(resending')
        PROVE  r \notin Owners(resending \ resending')
    BY <1>2, <1>8, <2>1 DEF Owners
  <2>2. r \in Owners(resending') => r \in Owners(resending)
    BY <1>2, OwnersOf
  <2> QED
    BY <1>2, <1>3, <2>1, <2>2 DEF InOnePlace
<1>10. Queued(r)' /\ r \in Owners(wire') => r \in Owners(resending')
  <2> SUFFICES ASSUME Queued(r)', r \in Owners(wire')
               PROVE  r \in Owners(resending')
    OBVIOUS
  <2>1. r \in toSend' /\ r \in Owners(resending)
    BY <1>3, <1>6 DEF InOnePlace
  <2>2. r \notin Owners(resending \ resending')
    BY <1>2, <2>1
  <2> QED
    BY <2>1, <2>2 DEF Owners
<1>11. r \in Owners(resending' \cup wire') => r \in Owners(resending \cup wire)
  BY <1>2, <1>3 DEF Owners
<1>12. r \notin Owners(hold') /\ (r \in toSend' => r # sending')
  BY <1>3, <1>5 DEF Owners
<1> QED
  BY <1>3, <1>4, <1>6, <1>7, <1>9, <1>10, <1>11, <1>12 DEF InOnePlace, SameInMain

\* What the server tells puts no request in two places.
LEMMA PlacesServer ==
  ASSUME TypeOK, IdsOK, PlacesOK, Server \/ \E c \in containers : ClearOld(c)
  PROVE  PlacesOK'
<1>1. UNCHANGED mainVars /\ rejected \subseteq rejected'
  <2>1. rejected \subseteq rejected'
    BY DEF Server, Answers, Answer, Ack, Refuse, Reject, Forget, NewSession, ClearOld, pastVars
  <2> QED
    BY <2>1, FarKeepsMain DEF FarNext
<1> SUFFICES ASSUME NEW r \in Requests, r \notin rejected', told[r] # "cancelled"
             PROVE  InOnePlace(r)'
  BY <1>1 DEF PlacesOK, mainVars
<1>2. InOnePlace(r)
  BY <1>1 DEF PlacesOK
<1>3. CASE Answers
  BY <1>1, <1>2, <1>3, PlaceAnswered DEF Answers
<1>4. ASSUME NEW id, Ack(id)
      PROVE  InOnePlace(r)'
  BY <1>1, <1>2, <1>4, PlaceAcked
<1>5. ASSUME NEW p \in wire, Reject(p)
      PROVE  InOnePlace(r)'
  <2>1. /\ UNCHANGED <<toSend, haveSent, msgId, forced, hold, sending, resending>>
        /\ wire' \subseteq wire /\ r # p[2]
        /\ received' = received \cup {[r |-> p[2], kind |-> "retry"]}
    BY <1>5 DEF Reject, workVars, mapVars
  <2>2. SameInMain(r)
    BY <1>1, <2>1 DEF SameInMain, mainVars, Asked, InMain
  <2> QED
    BY <1>2, <2>1, <2>2, PlaceStays
<1>6. ASSUME \/ \E id : Refuse(id)
             \/ Forget
             \/ NewSession
             \/ \E c \in containers : ClearOld(c)
      PROVE  InOnePlace(r)'
  <2>1. UNCHANGED <<toSend, haveSent, msgId, forced, received, hold, sending, resending>>
        /\ wire' \subseteq wire
    BY <1>6 DEF Refuse, Forget, NewSession, ClearOld, dataVars, mapVars, workVars
  <2>2. SameInMain(r)
    BY <1>1, <2>1, SameFar
  <2> QED
    BY <1>2, <2>1, <2>2, PlaceStays
<1> QED
  BY <1>3, <1>4, <1>5, <1>6 DEF Server

\* No step puts a request in two places.
LEMMA PlacesStep ==
  TypeOK /\ MainOK /\ IdsOK /\ WakeOK /\ PlacesOK /\ [Next]_vars => PlacesOK'
<1> SUFFICES ASSUME TypeOK, MainOK, IdsOK, WakeOK, PlacesOK, [Next]_vars
             PROVE  PlacesOK'
  OBVIOUS
<1>1. CASE UNCHANGED vars
  <2>1. UNCHANGED <<mainVars, toSend, haveSent, msgId, forced, received, hold, sending,
                    resending, wire, rejected>>
    BY <1>1 DEF vars, dataVars, mapVars, workVars, farVars, pastVars
  <2> SUFFICES ASSUME NEW r \in Requests, r \notin rejected, told[r] # "cancelled"
               PROVE  InOnePlace(r)'
    BY <2>1 DEF PlacesOK, mainVars
  <2>2. InOnePlace(r) /\ SameInMain(r)
    BY <2>1, SameFar DEF PlacesOK
  <2> QED
    BY <2>1, <2>2, PlaceStays
<1> QED
  BY <1>1, PlacesMain, PlacesSend, PlacesLink, PlacesServer DEF Next

\* Everything together, for every number of requests and every IdsBuffer.
THEOREM InvariantHolds == Spec => [](TypeOK /\ IInv)
<1>1. Init => TypeOK /\ IInv
  BY TypeInit, MainInit, IdsInit, WakeInit, KeptInit, PlacesInit DEF IInv
<1>2. TypeOK /\ IInv /\ [Next]_vars => (TypeOK /\ IInv)'
  BY TypeStep, MainStep, IdsStep, WakeStep, KeptStep, PlacesStep DEF IInv
<1> QED
  BY <1>1, <1>2, PTL DEF Spec

(***************************************************************************)
(* An answered request is in neither map, nor between them, so nothing     *)
(* sends it a second time.                                                 *)
(***************************************************************************)
THEOREM AnsweredRequestsAreGone == Spec => []AnsweredGone
<1>1. PlacesOK => AnsweredGone
  BY DEF PlacesOK, InOnePlace, AnsweredGone, Asked, Queued, Sent
<1>2. TypeOK /\ IInv => AnsweredGone
  BY <1>1 DEF IInv
<1> QED
  BY <1>2, InvariantHolds, PTL
=============================================================================
