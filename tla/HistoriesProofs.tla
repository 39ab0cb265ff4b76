--------------------------- MODULE HistoriesProofs ---------------------------
(***************************************************************************)
(* Theorems about Histories, for every set of chats, every bound and every *)
(* interleaving of the user, the timers, the handlers and the server.      *)
(***************************************************************************)
EXTENDS HistoriesCounts, SequenceTheorems, TLAPS

(***************************************************************************)
(* The queue of the chats that wait.                                       *)
(***************************************************************************)
\* Sequence p has elements of sequence s over S only.
TakenFrom(S, s, p) ==
  p \in Seq(S) /\ \A i \in DOMAIN p : \E j \in DOMAIN s : p[i] = s[j]

\* The elements of a part of a sequence are elements of it.
LEMMA PartProperties ==
  ASSUME NEW S, NEW s \in Seq(S),
         NEW m \in 1 .. Len(s) + 1, NEW n \in 0 .. Len(s)
  PROVE  TakenFrom(S, s, SubSeq(s, m, n))
<1>1. Len(s) \in Nat /\ DOMAIN s = 1 .. Len(s)
  BY LenProperties
<1>2. m \in Int /\ n \in Int /\ 1 <= m /\ n <= Len(s)
  BY <1>1
<1>3. \A i \in m .. n : s[i] \in S
  <2>1. \A i \in m .. n : i \in DOMAIN s
    BY <1>1, <1>2
  <2> QED
    BY <2>1, ElementOfSeq, <1>1
<1> DEFINE p == SubSeq(s, m, n)
<1>4. /\ p \in Seq(S) /\ Len(p) = IF m <= n THEN n - m + 1 ELSE 0
      /\ \A i \in 1 .. n - m + 1 : p[i] = s[m + i - 1]
  BY <1>2, <1>3, SubSeqProperties
<1> HIDE DEF p
<1>5. ASSUME NEW i \in DOMAIN p PROVE \E j \in DOMAIN s : p[i] = s[j]
  <2>1. DOMAIN p = 1 .. Len(p)
    BY <1>4, LenProperties
  <2>2. i \in 1 .. n - m + 1
    BY <2>1, <1>2, <1>4
  <2>3. m + i - 1 \in DOMAIN s
    BY <2>2, <1>1, <1>2
  <2> QED
    BY <2>2, <2>3, <1>4
<1> QED
  BY <1>4, <1>5 DEF p, TakenFrom

\* RemoveAt() takes one element out, and brings none in.
LEMMA RemoveAtProperties ==
  ASSUME NEW S, NEW s \in Seq(S), NEW n \in 1 .. Len(s)
  PROVE  /\ RemoveAt(s, n) \in Seq(S)
         /\ \A i \in DOMAIN RemoveAt(s, n) : \E j \in DOMAIN s : RemoveAt(s, n)[i] = s[j]
<1>1. /\ Len(s) \in Nat /\ 1 \in 1 .. Len(s) + 1 /\ n - 1 \in 0 .. Len(s)
      /\ n + 1 \in 1 .. Len(s) + 1 /\ Len(s) \in 0 .. Len(s)
  BY LenProperties
<1> DEFINE a == SubSeq(s, 1, n - 1)
           b == SubSeq(s, n + 1, Len(s))
<1>2. a \in Seq(S) /\ \A i \in DOMAIN a : \E j \in DOMAIN s : a[i] = s[j]
  <2>1. TakenFrom(S, s, a)
    BY <1>1, PartProperties
  <2> QED
    BY <2>1 DEF TakenFrom
<1>3. b \in Seq(S) /\ \A i \in DOMAIN b : \E j \in DOMAIN s : b[i] = s[j]
  <2>1. TakenFrom(S, s, b)
    BY <1>1, PartProperties
  <2> QED
    BY <2>1 DEF TakenFrom
<1> HIDE DEF a, b
<1>4. /\ Len(a) \in Nat /\ DOMAIN a = 1 .. Len(a)
      /\ Len(b) \in Nat /\ DOMAIN b = 1 .. Len(b)
  BY <1>2, <1>3, LenProperties
<1>5. /\ a \o b \in Seq(S) /\ Len(a \o b) = Len(a) + Len(b)
      /\ \A i \in 1 .. Len(a) + Len(b) :
           (a \o b)[i] = IF i <= Len(a) THEN a[i] ELSE b[i - Len(a)]
  BY <1>2, <1>3, ConcatProperties
<1>6. DOMAIN (a \o b) = 1 .. Len(a) + Len(b)
  BY <1>5, LenProperties
<1>7. ASSUME NEW i \in DOMAIN (a \o b)
      PROVE  \E j \in DOMAIN s : (a \o b)[i] = s[j]
  <2>0. i \in Int /\ 1 <= i /\ i <= Len(a) + Len(b)
    BY <1>4, <1>6
  <2>1. CASE i <= Len(a)
    <3>1. i \in DOMAIN a /\ (a \o b)[i] = a[i]
      BY <2>0, <2>1, <1>4, <1>5, <1>6
    <3> QED
      BY <3>1, <1>2
  <2>2. CASE ~(i <= Len(a))
    <3>1. i - Len(a) \in DOMAIN b
      BY <2>0, <2>2, <1>4
    <3>2. (a \o b)[i] = b[i - Len(a)]
      BY <2>2, <1>5, <1>6
    <3> QED
      BY <3>1, <3>2, <1>3
  <2> QED
    BY <2>1, <2>2
<1>8. RemoveAt(s, n) = a \o b
  BY DEF RemoveAt, a, b
<1> QED
  BY <1>5, <1>7, <1>8

\* What waits when h no more does: chats that waited.
LEMMA WaitButProperties ==
  ASSUME NEW d \in Objects, NEW h \in Chats
  PROVE  /\ WaitBut(d, h) \in Seq(Chats)
         /\ \A i \in DOMAIN WaitBut(d, h) : \E j \in DOMAIN d.armed : WaitBut(d, h)[i] = d.armed[j]
<1>1. d.armed \in Seq(Chats) /\ DOMAIN d.armed = 1 .. Len(d.armed)
  BY LenProperties DEF Objects
<1>2. CASE Waits(d, h)
  <2> DEFINE n == CHOOSE i \in DOMAIN d.armed : d.armed[i] = h
  <2>1. n \in 1 .. Len(d.armed)
    BY <1>1, <1>2 DEF Waits
  <2> HIDE DEF n
  <2>2. WaitBut(d, h) = RemoveAt(d.armed, n)
    BY <1>2 DEF WaitBut, n
  <2>3. /\ RemoveAt(d.armed, n) \in Seq(Chats)
        /\ \A i \in DOMAIN RemoveAt(d.armed, n) :
             \E j \in DOMAIN d.armed : RemoveAt(d.armed, n)[i] = d.armed[j]
    BY <1>1, <2>1, RemoveAtProperties
  <2> QED
    BY <2>2, <2>3
<1>3. CASE ~Waits(d, h)
  BY <1>1, <1>3 DEF WaitBut
<1> QED
  BY <1>2, <1>3

\* What waits after the chats that are due: chats that waited.
LEMMA LaterProperties ==
  ASSUME NEW s \in Seq(Chats), NEW due \in 0 .. Len(s)
  PROVE  LET later == SubSeq(s, due + 1, Len(s)) IN
         /\ later \in Seq(Chats)
         /\ \A i \in DOMAIN later : \E j \in DOMAIN s : later[i] = s[j]
<1>1. due + 1 \in 1 .. Len(s) + 1 /\ Len(s) \in 0 .. Len(s)
  BY LenProperties
<1>2. TakenFrom(Chats, s, SubSeq(s, due + 1, Len(s)))
  BY <1>1, PartProperties
<1> QED
  BY <1>2 DEF TakenFrom

(***************************************************************************)
(* Ids.                                                                    *)
(***************************************************************************)
\* A live request tells its chat.
LEMMA LiveIsOne ==
  ASSUME NEW h, NEW g, NEW r, NEW t, Live(h, r) = Live(g, t)
  PROVE  h = g /\ r = t
<1>1. Live(h, r).of = {h} /\ Live(g, t).of = {g}
  BY DEF Live
<1>2. Live(h, r).sent = r /\ Live(g, t).sent = t
  BY DEF Live
<1> QED
  BY <1>1, <1>2

\* Ids stay given once when each chat has one new request at most, under the
\* next id.
LEMMA IdsStay ==
  ASSUME NEW d \in Objects, NEW v \in Objects, IdsOK(d),
         NEW new \in [Chats -> Requests],
         \A h \in Chats : v.lastId[h] >= d.lastId[h],
         \A h \in Chats, r \in Requests : IsKnown(v, h, r) =>
           \/ IsKnown(d, h, r)
           \/ /\ r = new[h] /\ r.id = d.lastId[h] + 1 /\ v.lastId[h] = d.lastId[h] + 1
              /\ r.type # "Entries"
              /\ r.type = "History" => r = Sent(r.id, "History", 0, TRUE),
         \A q \in v.live : q.sent.type = "Entries" \/ \E h \in Chats : q = Live(h, q.sent)
  PROVE  IdsOK(v)
<1>1. \A h \in Chats : d.lastId[h] \in Nat /\ v.lastId[h] \in Nat
  BY DEF Objects
<1>2. \A r \in Requests : r.id \in Nat
  BY DEF Requests
<1>3. ASSUME NEW h \in Chats, NEW r \in Requests, IsKnown(v, h, r)
      PROVE  /\ r.id <= v.lastId[h] /\ r.type # "Entries"
             /\ r.type = "History" => r = Sent(r.id, "History", 0, TRUE)
  <2>1. CASE IsKnown(d, h, r)
    <3>1. /\ r.id <= d.lastId[h] /\ r.type # "Entries"
          /\ r.type = "History" => r = Sent(r.id, "History", 0, TRUE)
      BY <2>1 DEF IdsOK
    <3>2. r.id <= v.lastId[h]
      BY <3>1, <1>1, <1>2
    <3> QED
      BY <3>1, <3>2
  <2>2. CASE ~IsKnown(d, h, r)
    <3>1. /\ r.id = v.lastId[h] /\ r.type # "Entries"
          /\ r.type = "History" => r = Sent(r.id, "History", 0, TRUE)
      BY <1>3, <2>2
    <3>2. r.id <= v.lastId[h]
      BY <3>1, <1>1
    <3> QED
      BY <3>1, <3>2
  <2> QED
    BY <2>1, <2>2
<1>4. ASSUME NEW h \in Chats, NEW r \in Requests, NEW t \in Requests,
             IsKnown(v, h, r), IsKnown(v, h, t), r.id = t.id
      PROVE  r = t
  <2>1. \A x \in Requests : IsKnown(d, h, x) => x.id <= d.lastId[h]
    BY DEF IdsOK
  <2>2. \A x \in Requests : IsKnown(d, h, x) => x.id # d.lastId[h] + 1
    BY <2>1, <1>1, <1>2
  <2>3. IsKnown(d, h, r) /\ IsKnown(d, h, t) => r = t
    BY <1>4 DEF IdsOK
  <2> QED
    BY <1>4, <2>2, <2>3
<1> QED
  BY <1>3, <1>4 DEF IdsOK

(***************************************************************************)
(* Reads that are sent.                                                    *)
(***************************************************************************)
\* The read a chat of d would send now.
NewRead(d) ==
  [h \in Chats |-> Sent(d.lastId[h] + 1, "ReadInbox", d.state[h].willReadTill, TRUE)]

\* v is d when each chat of hs has sent its read.
ReadsSent(d, v, hs) ==
  /\ v.armed = d.armed /\ v.timer = d.timer /\ v.pending = d.pending
  /\ v.asked = d.asked /\ v.sendReadMessages = d.sendReadMessages
  /\ v.live = d.live \cup { Live(h, NewRead(d)[h]) : h \in hs }
  /\ \A h \in Chats \ hs : v.state[h] = d.state[h] /\ v.lastId[h] = d.lastId[h]
  /\ \A h \in hs :
       /\ v.lastId[h] = d.lastId[h] + 1
       /\ v.state[h].sent = d.state[h].sent \cup {NewRead(d)[h]}
       /\ v.state[h].postponed = d.state[h].postponed
       /\ v.state[h].willReadTill = 0
       /\ v.state[h].sentReadTill = d.state[h].willReadTill
       /\ v.state[h].postponedRequestEntry => d.state[h].postponedRequestEntry \/ h \in d.asked

\* The read of each chat, as it is sent.
LEMMA NewReadIs ==
  ASSUME NEW d \in Objects, NEW h \in Chats
  PROVE  /\ NewRead(d)[h] \in Requests
         /\ NewRead(d)[h].id = d.lastId[h] + 1 /\ NewRead(d)[h].type = "ReadInbox"
         /\ NewRead(d)[h].till = d.state[h].willReadTill /\ NewRead(d)[h].finishes
         /\ d.state[h].willReadTill \in Nat /\ d.lastId[h] \in Nat
<1>1. d.state[h] \in States /\ d.lastId[h] \in Nat
  BY DEF Objects
<1>2. d.state[h].willReadTill \in Nat /\ d.lastId[h] + 1 \in Nat
  BY <1>1 DEF States
<1>3. NewRead(d)[h] = Sent(d.lastId[h] + 1, "ReadInbox", d.state[h].willReadTill, TRUE)
  BY DEF NewRead
<1> QED
  BY <1>1, <1>2, <1>3 DEF Sent, Requests

\* sendReadRequest() for the chats of hs.
LEMMA SendReadsOutcome ==
  ASSUME NEW d \in Objects, NEW hs \in SUBSET Chats
  PROVE  SendReads(d, hs) \in Objects /\ ReadsSent(d, SendReads(d, hs), hs)
<1> DEFINE v == SendReads(d, hs)
           new == NewRead(d)
           r == [h \in hs |-> Sent(d.lastId[h] + 1, "ReadInbox", d.state[h].willReadTill, TRUE)]
           last == [h \in Chats |-> IF h \in hs THEN d.lastId[h] + 1 ELSE d.lastId[h]]
           state == [h \in Chats |-> IF h \notin hs THEN d.state[h]
                      ELSE [d.state[h] EXCEPT
                        !.sent = @ \cup {r[h]},
                        !.sentReadTill = r[h].till, !.willReadTill = 0,
                        !.sentReadDone = FALSE,
                        !.postponedRequestEntry = @ \/ h \in d.asked]]
           live == d.live \cup { Live(h, r[h]) : h \in hs }
<1>1. /\ d.state \in [Chats -> States] /\ d.lastId \in [Chats -> Nat]
      /\ d.live \in SUBSET [of : SUBSET Chats, sent : Requests]
      /\ d.asked \in SUBSET Chats
  BY DEF Objects
<1>2. \A h \in Chats : d.state[h] \in States /\ d.state[h].willReadTill \in Nat /\ d.lastId[h] + 1 \in Nat
  BY <1>1 DEF States
<1>3. /\ new \in [Chats -> Requests]
      /\ \A h \in hs : new[h] = r[h] /\ r[h] \in Requests
  <2>1. \A h \in Chats : new[h] \in Requests
    BY NewReadIs
  <2>2. \A h \in hs : new[h] = r[h]
    BY DEF NewRead
  <2> QED
    BY <2>1, <2>2 DEF NewRead
<1>4. \A h \in hs : r[h].till = d.state[h].willReadTill
  BY DEF Sent
<1>5. v = [d EXCEPT !.lastId = last, !.live = live, !.state = state]
  BY DEF SendReads
<1>6. /\ live \in SUBSET [of : SUBSET Chats, sent : Requests]
      /\ live = d.live \cup { Live(h, new[h]) : h \in hs }
  <2>1. \A h \in hs : Live(h, r[h]) = Live(h, new[h]) /\ Live(h, r[h]) \in [of : SUBSET Chats, sent : Requests]
    BY <1>3 DEF Live
  <2> HIDE DEF r, new
  <2> QED
    BY <2>1, <1>1
<1>7. last \in [Chats -> Nat]
  BY <1>1, <1>2
<1>8. ASSUME NEW h \in hs
      PROVE  /\ state[h] \in States
             /\ state[h].sent = d.state[h].sent \cup {new[h]}
             /\ state[h].postponed = d.state[h].postponed
             /\ state[h].willReadTill = 0
             /\ state[h].sentReadTill = d.state[h].willReadTill
             /\ state[h].postponedRequestEntry => d.state[h].postponedRequestEntry \/ h \in d.asked
  <2>1. h \in Chats
    OBVIOUS
  <2>2. state[h] = [d.state[h] EXCEPT
                        !.sent = @ \cup {new[h]},
                        !.sentReadTill = d.state[h].willReadTill, !.willReadTill = 0,
                        !.sentReadDone = FALSE,
                        !.postponedRequestEntry = @ \/ h \in d.asked]
    BY <2>1, <1>3, <1>4
  <2> HIDE DEF state, new, r
  <2> DEFINE again == d.state[h].postponedRequestEntry \/ h \in d.asked
             sent == d.state[h].sent \cup {new[h]}
             s == d.state[h]
             till == s.willReadTill
             t == [s EXCEPT !.sent = sent, !.sentReadTill = till,
                            !.willReadTill = 0, !.sentReadDone = FALSE,
                            !.postponedRequestEntry = again]
  <2>3. /\ again \in BOOLEAN /\ sent \in SUBSET Requests
        /\ s \in States /\ till \in Nat
    BY <2>1, <1>2, <1>3 DEF States
  <2>4. state[h] = t
    BY <2>2
  <2> HIDE DEF sent, again, s, till
  <2>5. /\ t \in States /\ t.sent = sent /\ t.postponed = s.postponed
        /\ t.willReadTill = 0 /\ t.sentReadTill = till
        /\ t.postponedRequestEntry = again
    BY <2>3 DEF States
  <2> QED
    BY <2>4, <2>5 DEF sent, again, s, till
<1>9. state \in [Chats -> States]
  BY <1>1, <1>8
<1> HIDE DEF state, last, live, new, r
<1>10. /\ v \in Objects
       /\ v.armed = d.armed /\ v.timer = d.timer /\ v.pending = d.pending
       /\ v.asked = d.asked /\ v.sendReadMessages = d.sendReadMessages
       /\ v.live = live /\ v.state = state /\ v.lastId = last
  BY <1>5, <1>6, <1>7, <1>9 DEF Objects
<1>11. /\ \A h \in Chats \ hs : state[h] = d.state[h] /\ last[h] = d.lastId[h]
       /\ \A h \in hs : last[h] = d.lastId[h] + 1
  BY DEF state, last
<1> QED
  BY <1>3, <1>6, <1>8, <1>10, <1>11 DEF new, ReadsSent

\* Reads that are sent are watched, and break nothing that is kept.
LEMMA SendReadsKept ==
  ASSUME NEW d \in Objects, NEW hs \in SUBSET Chats, NEW xs,
         Kept(d, xs)
  PROVE  Kept(SendReads(d, hs), xs)
<1> DEFINE v == SendReads(d, hs)
           new == NewRead(d)
<1>1. v \in Objects /\ ReadsSent(d, v, hs)
  BY SendReadsOutcome
<1>2. \A h \in Chats :
        /\ new[h] \in Requests /\ new[h].id = d.lastId[h] + 1 /\ new[h].type = "ReadInbox"
        /\ new[h].till = d.state[h].willReadTill /\ new[h].finishes
  BY NewReadIs
<1>3. new \in [Chats -> Requests] /\ \A h \in Chats : d.lastId[h] \in Nat
  BY <1>2 DEF Objects, NewRead
<1>0. /\ v.pending = d.pending /\ v.asked = d.asked
      /\ v.live = d.live \cup { Live(h, new[h]) : h \in hs }
      /\ \A h \in Chats \ hs : v.state[h] = d.state[h] /\ v.lastId[h] = d.lastId[h]
      /\ \A h \in hs :
           /\ v.lastId[h] = d.lastId[h] + 1
           /\ v.state[h].sent = d.state[h].sent \cup {new[h]}
           /\ v.state[h].postponed = d.state[h].postponed
           /\ v.state[h].sentReadTill = d.state[h].willReadTill
           /\ v.state[h].postponedRequestEntry => d.state[h].postponedRequestEntry \/ h \in d.asked
  BY <1>1 DEF ReadsSent
<1> HIDE DEF v, new
<1>4. EntriesOK(v)
  BY <1>0 DEF Kept, EntriesOK
<1>5. ASSUME NEW h \in Chats, NEW r \in Requests, Live(h, r) \in v.live
      PROVE  Live(h, r) \in d.live \/ (h \in hs /\ r = new[h])
  BY <1>0, <1>5, LiveIsOne
<1>6. IdsOK(v)
  <2>1. \A h \in Chats : v.lastId[h] >= d.lastId[h]
    BY <1>0, <1>3
  <2>2. ASSUME NEW h \in Chats, NEW r \in Requests, IsKnown(v, h, r), ~IsKnown(d, h, r)
        PROVE  h \in hs /\ r = new[h]
    <3>1. CASE h \in hs
      <4>1. CASE r \in v.state[h].sent
        BY <4>1, <3>1, <1>0, <2>2 DEF IsKnown
      <4>2. CASE Live(h, r) \in v.live /\ r.type # "Entries"
        BY <4>2, <1>5, <2>2 DEF IsKnown
      <4>3. CASE r.id \in v.state[h].postponed /\ r = Sent(r.id, "History", 0, TRUE)
        <5>1. r.id \in d.state[h].postponed
          BY <4>3, <3>1, <1>0
        <5> QED
          BY <5>1, <4>3, <2>2 DEF IsKnown
      <4> QED
        BY <4>1, <4>2, <4>3, <2>2 DEF IsKnown
    <3>2. CASE h \notin hs
      BY <3>2, <1>0, <1>5, <2>2 DEF IsKnown
    <3> QED
      BY <3>1, <3>2
  <2>3. \A h \in Chats, r \in Requests : IsKnown(v, h, r) =>
          \/ IsKnown(d, h, r)
          \/ /\ r = new[h] /\ r.id = d.lastId[h] + 1 /\ v.lastId[h] = d.lastId[h] + 1
             /\ r.type # "Entries"
             /\ r.type = "History" => r = Sent(r.id, "History", 0, TRUE)
    BY <2>2, <1>0, <1>2
  <2>4. ASSUME NEW q \in v.live
        PROVE  q.sent.type = "Entries" \/ \E h \in Chats : q = Live(h, q.sent)
    <3>1. CASE q \in d.live
      BY <3>1 DEF Kept, IdsOK
    <3>2. CASE q \notin d.live
      <4>1. PICK h \in hs : q = Live(h, new[h])
        BY <3>2, <1>0
      <4> QED
        BY <4>1 DEF Live
    <3> QED
      BY <3>1, <3>2
  <2> QED
    BY <2>1, <2>3, <2>4, <1>1, <1>3, IdsStay DEF Kept
<1>7. ASSUME NEW h \in Chats, v.state[h].sentReadTill # 0
      PROVE  \/ ReadIsOut(v, h, v.state[h].sentReadTill)
             \/ v.state[h].sentReadDone /\ h \in v.pending \cup v.asked \cup xs
  <2>1. CASE h \in hs
    <3>1. Live(h, new[h]) \in v.live /\ new[h] \in Requests
      BY <1>0, <1>2, <2>1
    <3> QED
      BY <3>1, <2>1, <1>0, <1>2 DEF ReadIsOut
  <2>2. CASE h \notin hs
    <3>1. v.state[h] = d.state[h]
      BY <1>0, <2>2
    <3>2. \/ ReadIsOut(d, h, d.state[h].sentReadTill)
          \/ d.state[h].sentReadDone /\ h \in d.pending \cup d.asked \cup xs
      BY <3>1, <1>7 DEF Kept, Watched
    <3> QED
      BY <3>1, <3>2, <1>0 DEF ReadIsOut
  <2> QED
    BY <2>1, <2>2
<1> QED
  BY <1>4, <1>6, <1>7 DEF Kept, Watched, v

\* Reads that are sent do not go below those that are out.
LEMMA SendReadsStrict ==
  ASSUME NEW d \in Objects, NEW hs \in SUBSET Chats, NEW marks,
         \A h \in hs : d.state[h].willReadTill # 0,
         Strict(d, marks)
  PROVE  Strict(SendReads(d, hs), marks)
<1> DEFINE v == SendReads(d, hs)
           new == NewRead(d)
<1>1. v \in Objects /\ ReadsSent(d, v, hs)
  BY SendReadsOutcome
<1>2. \A h \in Chats :
        /\ new[h] \in Requests /\ new[h].type = "ReadInbox"
        /\ new[h].till = d.state[h].willReadTill /\ new[h].finishes
        /\ d.state[h].willReadTill \in Nat
  BY NewReadIs
<1>3. /\ v.sendReadMessages = d.sendReadMessages
      /\ v.live = d.live \cup { Live(h, new[h]) : h \in hs }
      /\ \A h \in Chats \ hs : v.state[h] = d.state[h]
      /\ \A h \in hs :
           /\ v.state[h].sent = d.state[h].sent \cup {new[h]}
           /\ v.state[h].willReadTill = 0
           /\ v.state[h].sentReadTill = d.state[h].willReadTill
  BY <1>1 DEF ReadsSent
<1> HIDE DEF v, new
<1>4. ASSUME NEW h \in Chats, NEW r \in Requests, Live(h, r) \in v.live
      PROVE  Live(h, r) \in d.live \/ (h \in hs /\ r = new[h])
  BY <1>3, <1>4, LiveIsOne
<1>5. PagesOK(v)
  <2> SUFFICES ASSUME NEW h \in Chats
               PROVE  /\ \A r \in Requests :
                           Live(h, r) \in v.live /\ r.type \in {"History", "Delete"}
                             => r \in v.state[h].sent
                      /\ PostponeHistoryRequest(v.state[h]) => Pages(v.state[h]) = {}
    BY DEF PagesOK
  <2>1. /\ \A r \in Requests :
             Live(h, r) \in d.live /\ r.type \in {"History", "Delete"} => r \in d.state[h].sent
        /\ PostponeHistoryRequest(d.state[h]) => Pages(d.state[h]) = {}
    BY DEF Strict, PagesOK
  <2>2. /\ d.state[h].sent \subseteq v.state[h].sent
        /\ \A r \in v.state[h].sent : r \in d.state[h].sent \/ r.type = "ReadInbox"
    BY <1>3, <1>2
  <2> QED
    BY <2>1, <2>2, <1>2, <1>4 DEF PostponeHistoryRequest, Pages
<1>6. MarksOK(v, marks)
  <2> SUFFICES ASSUME NEW h \in Chats, NEW r \in Requests,
                      Live(h, r) \in v.live, r.type = "ReadInbox", r.finishes
               PROVE  /\ v.state[h].willReadTill # 0 => r.till <= v.state[h].willReadTill
                      /\ r.till <= IF v.state[h].sentReadTill # 0
                                   THEN v.state[h].sentReadTill ELSE marks[h]
    BY DEF MarksOK
  <2>1. Live(h, r) \in d.live =>
          /\ d.state[h].willReadTill # 0 => r.till <= d.state[h].willReadTill
          /\ r.till <= IF d.state[h].sentReadTill # 0 THEN d.state[h].sentReadTill ELSE marks[h]
    BY DEF Strict, MarksOK
  <2>2. CASE h \in hs
    <3>1. r.till <= d.state[h].willReadTill
      BY <2>1, <2>2, <1>2, <1>4
    <3> QED
      BY <3>1, <2>2, <1>3
  <2>3. CASE h \notin hs
    BY <2>1, <2>3, <1>3, <1>4
  <2> QED
    BY <2>2, <2>3
<1> QED
  BY <1>3, <1>5, <1>6 DEF Strict, v

\* What the invariant says of an object does not depend on its other fields.
LEMMA KeptFrame ==
  ASSUME NEW d, NEW v, v.state = d.state, v.live = d.live, v.lastId = d.lastId,
         v.pending = d.pending, v.asked = d.asked
  PROVE  \A xs : Kept(d, xs) => Kept(v, xs)
<1>1. EntriesOK(d) => EntriesOK(v)
  BY DEF EntriesOK
<1>2. \A h, r : IsKnown(v, h, r) <=> IsKnown(d, h, r)
  BY DEF IsKnown
<1>3. IdsOK(d) => IdsOK(v)
  BY <1>2 DEF IdsOK
<1>4. \A xs : Watched(d, xs) => Watched(v, xs)
  BY DEF Watched, ReadIsOut
<1> QED
  BY <1>1, <1>3, <1>4 DEF Kept

\* What holds of an untouched object is about its states, its requests and the switch.
LEMMA StrictFrame ==
  ASSUME NEW d, NEW v, v.state = d.state, v.live = d.live,
         v.sendReadMessages = d.sendReadMessages
  PROVE  \A marks : Strict(d, marks) => Strict(v, marks)
BY DEF Strict, PagesOK, MarksOK

\* v is what a handler may make of d when it takes reads, sends them, or drops
\* the states.
Moves(d, v) ==
  /\ v \in Objects
  /\ v.pending = d.pending /\ v.asked = d.asked
  /\ v.sendReadMessages = d.sendReadMessages
  /\ \A xs : Kept(d, xs) => Kept(v, xs)
  /\ \A h \in Chats, r \in Requests :
       Live(h, r) \in v.live => Live(h, r) \in d.live \/ r.id = d.lastId[h] + 1
  /\ ~d.sendReadMessages =>
       /\ v.live = d.live
       /\ \A h \in Chats : \/ v.state[h].sentReadTill = 0
                           \/ /\ v.state[h].sentReadTill = d.state[h].sentReadTill
                              /\ v.state[h].sentReadDone = d.state[h].sentReadDone

\* And no new read is taken.
Proceeds(d, v) == Moves(d, v) /\ \A marks : Strict(d, marks) => Strict(v, marks)

\* An object is what may be made of it.
LEMMA ProceedsSelf == ASSUME NEW d \in Objects PROVE Proceeds(d, d)
BY DEF Proceeds, Moves

\* sendReadRequests() with the setting on: afterwards the chats with a read to
\* send wait for the timer.
LEMMA SendDueReadsOutcome ==
  ASSUME NEW d \in Objects, NEW due \in 0 .. Len(d.armed), OnlyReadsWait(d),
         d.sendReadMessages
  PROVE  /\ Proceeds(d, SendDueReads(d, due))
         /\ ArmedOK(SendDueReads(d, due))
<1> DEFINE later == SubSeq(d.armed, due + 1, Len(d.armed))
           now == { h \in Chats : /\ d.state[h].willReadTill # 0
                                  /\ \A i \in DOMAIN later : later[i] # h }
           w == SendReads(d, now)
           v == [w EXCEPT !.armed = later, !.timer = Deadline(later)]
<1>0. d.armed \in Seq(Chats) /\ d.timer \in Chats \cup {"off", "stale"}
  BY DEF Objects
<1>1. /\ later \in Seq(Chats)
      /\ \A i \in DOMAIN later : later[i] \in Chats
      /\ \A i \in DOMAIN later : \E j \in DOMAIN d.armed : later[i] = d.armed[j]
  BY <1>0, LaterProperties, ElementOfSeq
<1>2. now \in SUBSET Chats /\ \A h \in now : d.state[h].willReadTill # 0
  OBVIOUS
<1>3. CASE \A h \in Chats : d.state[h] = Fresh
  <2>1. SendDueReads(d, due) = d
    BY <1>3 DEF SendDueReads
  <2>2. \A h \in Chats : d.state[h].willReadTill = 0
    BY <1>3 DEF Fresh
  <2>3. \A h \in Chats : ~Waits(d, h)
    BY <2>2 DEF OnlyReadsWait
  <2>4. d.armed = <<>>
    <3> SUFFICES ASSUME d.armed # <<>> PROVE FALSE
      OBVIOUS
    <3>1. 1 \in DOMAIN d.armed /\ d.armed[1] \in Chats
      BY <1>0
    <3> QED
      BY <3>1, <2>3 DEF Waits
  <2> QED
    BY <2>1, <2>2, <2>4, ProceedsSelf DEF ArmedOK, OnlyReadsWait
<1>4. CASE ~(\A h \in Chats : d.state[h] = Fresh)
  <2>0. SendDueReads(d, due) = v
    BY <1>4 DEF SendDueReads
  <2>1. w \in Objects /\ ReadsSent(d, w, now)
    BY <1>2, SendReadsOutcome
  <2>2. Deadline(later) \in Chats \cup {"off"} /\ (later # <<>> => Deadline(later) \in Chats)
    BY <1>1 DEF Deadline
  <2> HIDE DEF w
  <2>3. /\ v \in Objects /\ v.armed = later /\ v.timer = Deadline(later)
        /\ v.state = w.state /\ v.live = w.live /\ v.lastId = w.lastId
        /\ v.pending = w.pending /\ v.asked = w.asked
        /\ v.sendReadMessages = w.sendReadMessages
    <3> HIDE DEF later
    <3> QED
      BY <1>1, <2>1, <2>2 DEF Objects
  <2> HIDE DEF v
  <2>4. Proceeds(d, v)
    <3>1. \A xs : Kept(d, xs) => Kept(v, xs)
      <4>1. ASSUME NEW xs, Kept(d, xs) PROVE Kept(w, xs)
        BY <4>1, <1>2, SendReadsKept DEF w
      <4> QED
        BY <4>1, <2>3, KeptFrame
    <3>2. \A marks : Strict(d, marks) => Strict(v, marks)
      <4>1. ASSUME NEW marks, Strict(d, marks) PROVE Strict(w, marks)
        BY <4>1, <1>2, SendReadsStrict DEF w
      <4> QED
        BY <4>1, <2>3, StrictFrame
    <3>3. ASSUME NEW h \in Chats, NEW r \in Requests, Live(h, r) \in v.live
          PROVE  Live(h, r) \in d.live \/ r.id = d.lastId[h] + 1
      <4>1. w.live = d.live \cup { Live(g, NewRead(d)[g]) : g \in now }
        BY <2>1 DEF ReadsSent
      <4>2. CASE Live(h, r) \in d.live
        BY <4>2
      <4>3. CASE Live(h, r) \notin d.live
        <5>1. PICK g \in now : Live(h, r) = Live(g, NewRead(d)[g])
          BY <4>1, <4>3, <2>3, <3>3
        <5> QED
          BY <5>1, <1>2, LiveIsOne, NewReadIs
      <4> QED
        BY <4>2, <4>3
    <3> QED
      BY <2>1, <2>3, <3>1, <3>2, <3>3 DEF Proceeds, Moves, ReadsSent
  <2>5. ArmedOK(v)
    <3>1. ASSUME NEW h \in Chats
          PROVE  Waits(v, h) <=> v.state[h].willReadTill # 0
      <4>1. h \notin now => v.state[h] = d.state[h]
        BY <2>1, <2>3 DEF ReadsSent
      <4>2. h \in now => v.state[h].willReadTill = 0
        BY <2>1, <2>3 DEF ReadsSent
      <4>3. Waits(v, h) <=> \E i \in DOMAIN later : later[i] = h
        BY <2>3 DEF Waits
      <4>4. (\E i \in DOMAIN later : later[i] = h) => Waits(d, h)
        BY <1>1 DEF Waits
      <4>5. Waits(d, h) => d.state[h].willReadTill # 0
        BY DEF OnlyReadsWait
      <4> HIDE DEF later
      <4> QED
        BY <4>1, <4>2, <4>3, <4>4, <4>5
    <3>2. v.armed # <<>> => v.timer # "off"
      BY <2>2, <2>3, ChatsAssumption
    <3> QED
      BY <3>1, <3>2 DEF ArmedOK, OnlyReadsWait
  <2> QED
    BY <2>0, <2>4, <2>5
<1> QED
  BY <1>3, <1>4

\* The states of all chats are dropped.
LEMMA DroppedOutcome ==
  ASSUME NEW d \in Objects, ~d.sendReadMessages
  PROVE  LET v == [d EXCEPT !.state = [h \in Chats |-> Fresh], !.armed = <<>>,
                            !.timer = IF @ = "off" THEN @ ELSE "stale"]
         IN  Proceeds(d, v) /\ ArmedOK(v)
<1> DEFINE timer == IF d.timer = "off" THEN d.timer ELSE "stale"
           v == [d EXCEPT !.state = [h \in Chats |-> Fresh], !.armed = <<>>, !.timer = timer]
<1>1. /\ Fresh \in States /\ Fresh.willReadTill = 0 /\ Fresh.sentReadTill = 0
      /\ Fresh.sent = {} /\ Fresh.postponed = {} /\ Fresh.postponedRequestEntry = FALSE
  BY DEF Fresh, States
<1>2. [h \in Chats |-> Fresh] \in [Chats -> States] /\ <<>> \in Seq(Chats)
  BY <1>1
<1>3. timer \in Chats \cup {"off", "stale"}
  BY DEF Objects
<1> HIDE DEF timer
<1>4. /\ v \in Objects /\ v.armed = <<>> /\ v.state = [h \in Chats |-> Fresh]
      /\ v.live = d.live /\ v.lastId = d.lastId /\ v.pending = d.pending
      /\ v.asked = d.asked /\ v.sendReadMessages = d.sendReadMessages
  BY <1>2, <1>3 DEF Objects
<1> HIDE DEF v
<1>5. ArmedOK(v)
  BY <1>1, <1>4 DEF ArmedOK, OnlyReadsWait, Waits
<1>6. ASSUME NEW xs, Kept(d, xs) PROVE Kept(v, xs)
  <2>1. EntriesOK(v)
    BY <1>1, <1>4, <1>6 DEF Kept, EntriesOK
  <2>2. \A h \in Chats : \A r : IsKnown(v, h, r) => IsKnown(d, h, r)
    BY <1>1, <1>4 DEF IsKnown
  <2>3. IdsOK(v)
    BY <2>2, <1>4, <1>6 DEF Kept, IdsOK
  <2>4. Watched(v, xs)
    BY <1>1, <1>4 DEF Watched
  <2> QED
    BY <2>1, <2>3, <2>4 DEF Kept
<1>7. \A marks : ~Strict(d, marks)
  BY DEF Strict
<1>8. \A h \in Chats : v.state[h].sentReadTill = 0
  BY <1>1, <1>4
<1>9. Proceeds(d, v)
  BY <1>4, <1>6, <1>7, <1>8 DEF Proceeds, Moves
<1> QED
  BY <1>5, <1>9 DEF v, timer

\* sendReadRequests().
LEMMA SendReadRequestsOutcome ==
  ASSUME NEW d \in Objects, NEW due \in 0 .. Len(d.armed), OnlyReadsWait(d)
  PROVE  /\ Proceeds(d, SendReadRequests(d, due))
         /\ ArmedOK(SendReadRequests(d, due))
<1>1. CASE d.sendReadMessages
  BY <1>1, SendDueReadsOutcome DEF SendReadRequests
<1>2. CASE ~d.sendReadMessages
  BY <1>2, DroppedOutcome DEF SendReadRequests
<1> QED
  BY <1>1, <1>2

\* One chat need not wait any more.
LEMMA SendNowOutcome ==
  ASSUME NEW d \in Objects, NEW h \in Chats, NEW due \in Nat, OnlyReadsWait(d)
  PROVE  /\ Proceeds(d, SendNow(d, h, due))
         /\ ArmedOK(SendNow(d, h, due))
<1> DEFINE rest == WaitBut(d, h)
           w == [d EXCEPT !.armed = rest]
           n == IF due > Len(rest) THEN Len(rest) ELSE due
           v == SendReadRequests(w, n)
<1>1. /\ rest \in Seq(Chats)
      /\ \A i \in DOMAIN rest : \E j \in DOMAIN d.armed : rest[i] = d.armed[j]
  BY WaitButProperties
<1>2. SendNow(d, h, due) = v
  BY DEF SendNow
<1> HIDE DEF rest
<1>3. /\ w \in Objects /\ w.armed = rest
      /\ w.state = d.state /\ w.live = d.live /\ w.lastId = d.lastId
      /\ w.pending = d.pending /\ w.asked = d.asked
      /\ w.sendReadMessages = d.sendReadMessages
  BY <1>1 DEF Objects
<1> HIDE DEF w
<1>4. OnlyReadsWait(w)
  BY <1>1, <1>3 DEF OnlyReadsWait, Waits
<1>5. n \in 0 .. Len(w.armed)
  BY <1>1, <1>3, LenProperties
<1> HIDE DEF n
<1>6. Proceeds(w, v) /\ ArmedOK(v)
  BY <1>3, <1>4, <1>5, SendReadRequestsOutcome
<1> HIDE DEF v
<1>7. \A xs : Kept(d, xs) => Kept(w, xs)
  BY <1>3, KeptFrame
<1>8. \A marks : Strict(d, marks) => Strict(w, marks)
  BY <1>3, StrictFrame
<1>9. Proceeds(d, v)
  BY <1>3, <1>6, <1>7, <1>8 DEF Proceeds, Moves
<1> QED
  BY <1>2, <1>6, <1>9

\* sendPendingReadInbox().
LEMMA SendPendingOutcome ==
  ASSUME NEW d \in Objects, NEW h \in Chats, NEW due \in Nat, ArmedOK(d)
  PROVE  /\ Proceeds(d, SendPendingReadInbox(d, h, due))
         /\ ArmedOK(SendPendingReadInbox(d, h, due))
BY SendNowOutcome, ProceedsSelf DEF SendPendingReadInbox, ArmedOK

\* What a caller of readInboxTill() passes.
Asked == [till : Nat \ {0}, force : BOOLEAN, known : BOOLEAN]

\* w is d with a new read of h till "till": the reads that are out do not go
\* past it when what the chat shows as read is below it.
ReadTaken(d, c, h, till, w) ==
  /\ Moves(d, w) /\ OnlyReadsWait(w)
  /\ w.armed = d.armed /\ w.timer = d.timer /\ w.live = d.live
  /\ w.lastId = d.lastId /\ w.state[h].willReadTill = till /\ till # 0
  /\ \A g \in Chats \ {h} : w.state[g] = d.state[g]
  /\ \A g \in Chats : /\ w.state[g].sentReadTill = d.state[g].sentReadTill
                      /\ w.state[g].sentReadDone = d.state[g].sentReadDone
  /\ \A marks : marks[h] = c.read /\ Strict(d, marks) => Strict(w, marks)

\* A new read is taken.
LEMMA TakeReadOutcome ==
  ASSUME NEW d \in Objects, NEW c \in ChatStates, NEW h \in Chats, NEW a \in Asked,
         ArmedOK(d), IsNew(d, c, h, a),
         NEW w, w = [d EXCEPT !.state[h].willReadTill = a.till]
  PROVE  ReadTaken(d, c, h, a.till, w)
<1> DEFINE s == d.state[h]
           t == [s EXCEPT !.willReadTill = a.till]
           state == [d.state EXCEPT ![h] = t]
<1>1. a.till \in Nat /\ a.till # 0 /\ d.state \in [Chats -> States] /\ s \in States
  BY DEF Asked, Objects
<1>2. /\ t \in States /\ t.sent = s.sent /\ t.postponed = s.postponed
      /\ t.willReadTill = a.till /\ t.sentReadTill = s.sentReadTill
      /\ t.sentReadDone = s.sentReadDone
      /\ t.postponedRequestEntry = s.postponedRequestEntry
  <2> HIDE DEF s
  <2> QED
    BY <1>1 DEF States
<1> HIDE DEF t
<1>3. /\ state \in [Chats -> States] /\ state[h] = t
      /\ \A g \in Chats \ {h} : state[g] = d.state[g]
  BY <1>1, <1>2
<1>4. w = [d EXCEPT !.state = state]
  BY DEF t, Objects
<1> HIDE DEF state
<1>5. /\ w \in Objects /\ w.state = state
      /\ w.armed = d.armed /\ w.timer = d.timer /\ w.live = d.live
      /\ w.lastId = d.lastId /\ w.pending = d.pending /\ w.asked = d.asked
      /\ w.sendReadMessages = d.sendReadMessages
  BY <1>3, <1>4 DEF Objects
<1>6. \A g \in Chats :
        /\ w.state[g].sent = d.state[g].sent
        /\ w.state[g].postponed = d.state[g].postponed
        /\ w.state[g].sentReadTill = d.state[g].sentReadTill
        /\ w.state[g].sentReadDone = d.state[g].sentReadDone
        /\ w.state[g].postponedRequestEntry = d.state[g].postponedRequestEntry
  BY <1>2, <1>3, <1>5
<1> HIDE DEF s
<1>7. ASSUME NEW xs, Kept(d, xs) PROVE Kept(w, xs)
  <2>1. EntriesOK(w)
    BY <1>5, <1>6, <1>7 DEF Kept, EntriesOK
  <2>2. \A g \in Chats : \A r : IsKnown(w, g, r) <=> IsKnown(d, g, r)
    BY <1>5, <1>6 DEF IsKnown
  <2>3. IdsOK(w)
    BY <2>2, <1>5, <1>7 DEF Kept, IdsOK
  <2>4. Watched(w, xs)
    BY <1>5, <1>6, <1>7 DEF Kept, Watched, ReadIsOut
  <2> QED
    BY <2>1, <2>3, <2>4 DEF Kept
<1>8. OnlyReadsWait(w)
  BY <1>1, <1>2, <1>3, <1>5 DEF ArmedOK, OnlyReadsWait, Waits
<1>9. ASSUME NEW marks, marks[h] = c.read, Strict(d, marks) PROVE Strict(w, marks)
  <2>1. PagesOK(w)
    BY <1>5, <1>6, <1>9 DEF Strict, PagesOK, PostponeHistoryRequest, Pages
  <2>2. ASSUME NEW g \in Chats, NEW r \in Requests,
               Live(g, r) \in w.live, r.type = "ReadInbox", r.finishes
        PROVE  /\ w.state[g].willReadTill # 0 => r.till <= w.state[g].willReadTill
               /\ r.till <= IF w.state[g].sentReadTill # 0
                            THEN w.state[g].sentReadTill ELSE marks[g]
    <3>1. /\ d.state[g].willReadTill # 0 => r.till <= d.state[g].willReadTill
          /\ r.till <= IF d.state[g].sentReadTill # 0
                       THEN d.state[g].sentReadTill ELSE marks[g]
      BY <2>2, <1>5, <1>9 DEF Strict, MarksOK
    <3>2. CASE g = h
      <4>1. /\ r.till \in Nat /\ c.read \in Nat
            /\ d.state[h].sentReadTill \in Nat /\ d.state[h].willReadTill \in Nat
        BY DEF Requests, ChatStates, Objects, States
      <4>2. /\ c.read < a.till \/ d.state[h].willReadTill # 0
            /\ d.state[h].sentReadTill < a.till
            /\ d.state[h].willReadTill < a.till
        BY DEF IsNew, NeedsRequest
      <4>3. r.till <= a.till
        BY <3>1, <3>2, <4>1, <4>2, <1>1, <1>9
      <4> QED
        BY <3>1, <3>2, <4>3, <1>2, <1>3, <1>5, <1>6
    <3>3. CASE g # h
      BY <3>1, <3>3, <1>3, <1>5
    <3> QED
      BY <3>2, <3>3
  <2>3. MarksOK(w, marks)
    BY <2>2 DEF MarksOK
  <2> QED
    BY <2>1, <2>3, <1>5, <1>9 DEF Strict
<1>10. Moves(d, w)
  BY <1>5, <1>6, <1>7 DEF Moves
<1> QED
  BY <1>1, <1>2, <1>3, <1>5, <1>6, <1>8, <1>9, <1>10 DEF ReadTaken

\* One move after another, when the first sends nothing.
LEMMA MovesOn ==
  ASSUME NEW d, NEW w, NEW v, Moves(d, w), Moves(w, v),
         w.live = d.live, w.lastId = d.lastId,
         \A g \in Chats : /\ w.state[g].sentReadTill = d.state[g].sentReadTill
                          /\ w.state[g].sentReadDone = d.state[g].sentReadDone
  PROVE  Moves(d, v)
BY DEF Moves

\* readInboxTill().
LEMMA ReadInboxTillOutcome ==
  ASSUME NEW d \in Objects, NEW c \in ChatStates, NEW h \in Chats, NEW a \in Asked,
         NEW due \in Nat, ArmedOK(d)
  PROVE  LET v == ReadInboxTill(d, c, h, a, due) IN
         /\ Moves(d, v) /\ ArmedOK(v)
         /\ \A marks : marks[h] = c.read /\ Strict(d, marks) => Strict(v, marks)
<1> DEFINE w == [d EXCEPT !.state[h].willReadTill = a.till]
           v == ReadInboxTill(d, c, h, a, due)
           q == [w EXCEPT !.armed = Append(d.armed, h),
                          !.timer = IF d.timer = "off" THEN h ELSE d.timer]
<1>1. CASE IsNew(d, c, h, a)
  <2>0. w = [d EXCEPT !.state[h].willReadTill = a.till]
    OBVIOUS
  <2> HIDE DEF w
  <2>9. ReadTaken(d, c, h, a.till, w)
    BY <1>1, <2>0, TakeReadOutcome
  <2>1. /\ Moves(d, w) /\ OnlyReadsWait(w)
        /\ w.armed = d.armed /\ w.timer = d.timer /\ w.live = d.live
        /\ w.lastId = d.lastId /\ w.state[h].willReadTill = a.till /\ a.till # 0
        /\ \A g \in Chats \ {h} : w.state[g] = d.state[g]
        /\ \A g \in Chats : /\ w.state[g].sentReadTill = d.state[g].sentReadTill
                            /\ w.state[g].sentReadDone = d.state[g].sentReadDone
        /\ \A marks : marks[h] = c.read /\ Strict(d, marks) => Strict(w, marks)
    BY <2>9 DEF ReadTaken
  <2>2. \/ v = d
        \/ v = SendNow(w, h, due)
        \/ Waits(d, h) /\ v = w
        \/ ~Waits(d, h) /\ v = q
    BY <1>1, <2>0 DEF ReadInboxTill
  <2>3. w \in Objects
    BY <2>1 DEF Moves
  <2> HIDE DEF w, v
  <2>4. CASE v = d
    BY <2>4, ProceedsSelf DEF Proceeds, v
  <2>5. CASE v = SendNow(w, h, due)
    <3>1. Proceeds(w, v) /\ ArmedOK(v)
      BY <2>1, <2>3, <2>5, SendNowOutcome
    <3>2. Moves(d, v)
      BY <2>1, <3>1, MovesOn DEF Proceeds
    <3> QED
      BY <2>1, <3>1, <3>2 DEF Proceeds, v
  <2>6. CASE Waits(d, h) /\ v = w
    <3>1. ArmedOK(w)
      BY <2>1, <2>6 DEF ArmedOK, Waits
    <3> QED
      BY <2>1, <2>6, <3>1 DEF v
  <2>7. CASE ~Waits(d, h) /\ v = q
    <3> DEFINE armed == Append(d.armed, h)
               timer == IF d.timer = "off" THEN h ELSE d.timer
    <3>1. d.armed \in Seq(Chats) /\ d.timer \in Chats \cup {"off", "stale"}
      BY DEF Objects
    <3>2. /\ armed \in Seq(Chats) /\ Len(armed) = Len(d.armed) + 1
          /\ \A i \in 1 .. Len(d.armed) : armed[i] = d.armed[i]
          /\ armed[Len(d.armed) + 1] = h
      BY <3>1, AppendProperties
    <3>3. /\ DOMAIN armed = 1 .. Len(d.armed) + 1 /\ DOMAIN d.armed = 1 .. Len(d.armed)
          /\ Len(d.armed) \in Nat
      BY <3>1, <3>2, LenProperties
    <3>4. timer \in Chats \cup {"off", "stale"} /\ timer # "off"
      BY <3>1, ChatsAssumption
    <3> HIDE DEF armed, timer
    <3>5. q = [w EXCEPT !.armed = armed, !.timer = timer]
      BY DEF armed, timer
    <3>6. /\ q \in Objects /\ q.armed = armed /\ q.timer = timer
          /\ q.state = w.state /\ q.live = w.live /\ q.lastId = w.lastId
          /\ q.pending = w.pending /\ q.asked = w.asked
          /\ q.sendReadMessages = w.sendReadMessages
      BY <2>3, <3>2, <3>4, <3>5 DEF Objects
    <3> HIDE DEF q
    <3>7. Moves(w, q)
      BY <3>6, KeptFrame DEF Moves
    <3>8. Moves(d, q)
      BY <2>1, <3>7, MovesOn
    <3>9. \A marks : Strict(w, marks) => Strict(q, marks)
      BY <3>6, StrictFrame
    <3>10. ASSUME NEW g \in Chats PROVE Waits(q, g) <=> Waits(d, g) \/ g = h
      BY <3>2, <3>3, <3>6 DEF Waits
    <3>11. ArmedOK(q)
      BY <2>1, <3>4, <3>6, <3>10 DEF ArmedOK, OnlyReadsWait
    <3> QED
      BY <2>1, <2>7, <3>8, <3>9, <3>11 DEF v
  <2> QED
    BY <2>2, <2>4, <2>5, <2>6, <2>7
<1>2. CASE ~IsNew(d, c, h, a)
  BY <1>2, SendPendingOutcome, ProceedsSelf DEF ReadInboxTill, Proceeds
<1> QED
  BY <1>1, <1>2

(***************************************************************************)
(* Requests that are sent and that end.                                    *)
(***************************************************************************)
\* v keeps what the invariant says of d.
Keeps(d, v) ==
  /\ v \in Objects
  /\ \A xs : Kept(d, xs) => Kept(v, xs)
  /\ ArmedOK(d) => ArmedOK(v)
  /\ \A marks : Strict(d, marks) => Strict(v, marks)

\* Who waits for the timer depends on the reads to be sent only.
LEMMA ArmedFrame ==
  ASSUME NEW d, NEW v, v.armed = d.armed, v.timer = d.timer,
         \A g \in Chats : v.state[g].willReadTill = d.state[g].willReadTill
  PROVE  /\ ArmedOK(d) => ArmedOK(v)
         /\ OnlyReadsWait(d) => OnlyReadsWait(v)
BY DEF ArmedOK, OnlyReadsWait, Waits

\* A page or a deletion that is out is kept, and they are not kept together.
PagesOf(d, h) ==
  /\ \A r \in Requests :
       Live(h, r) \in d.live /\ r.type \in {"History", "Delete"} => r \in d.state[h].sent
  /\ PostponeHistoryRequest(d.state[h]) => Pages(d.state[h]) = {}

\* Requests of one chat that change do not disturb another.
LEMMA StrictOne ==
  ASSUME NEW d, NEW v, NEW h \in Chats, NEW marks, Strict(d, marks),
         v.sendReadMessages = d.sendReadMessages,
         \A g \in Chats \ {h} :
           /\ v.state[g] = d.state[g]
           /\ \A r \in Requests : Live(g, r) \in v.live => Live(g, r) \in d.live,
         v.state[h].willReadTill = d.state[h].willReadTill,
         v.state[h].sentReadTill = d.state[h].sentReadTill,
         \A r \in Requests : Live(h, r) \in v.live /\ r.type = "ReadInbox" /\ r.finishes =>
                               Live(h, r) \in d.live,
         PagesOf(d, h) => PagesOf(v, h)
  PROVE  Strict(v, marks)
<1>1. PagesOK(v)
  <2> SUFFICES ASSUME NEW g \in Chats PROVE PagesOf(v, g)
    BY DEF PagesOK, PagesOf
  <2>1. PagesOf(d, g)
    BY DEF Strict, PagesOK, PagesOf
  <2>2. CASE g = h
    BY <2>1, <2>2
  <2>3. CASE g # h
    BY <2>1, <2>3 DEF PagesOf
  <2> QED
    BY <2>2, <2>3
<1>2. MarksOK(v, marks)
  <2> SUFFICES ASSUME NEW g \in Chats, NEW r \in Requests,
                      Live(g, r) \in v.live, r.type = "ReadInbox", r.finishes
               PROVE  /\ v.state[g].willReadTill # 0 => r.till <= v.state[g].willReadTill
                      /\ r.till <= IF v.state[g].sentReadTill # 0
                                   THEN v.state[g].sentReadTill ELSE marks[g]
    BY DEF MarksOK
  <2>1. Live(g, r) \in d.live
    OBVIOUS
  <2>2. /\ d.state[g].willReadTill # 0 => r.till <= d.state[g].willReadTill
        /\ r.till <= IF d.state[g].sentReadTill # 0
                     THEN d.state[g].sentReadTill ELSE marks[g]
    BY <2>1 DEF Strict, MarksOK
  <2>3. /\ v.state[g].willReadTill = d.state[g].willReadTill
        /\ v.state[g].sentReadTill = d.state[g].sentReadTill
    OBVIOUS
  <2> QED
    BY <2>2, <2>3
<1> QED
  BY <1>1, <1>2 DEF Strict

\* v is d with a new request r of h: it waits, or it is out, and what it stops
\* waits instead.
Sends(d, v, h, r) ==
  LET s == d.state[h]
      t == v.state[h]
      sent == s.sent \cup {r}
  IN /\ v.armed = d.armed /\ v.timer = d.timer /\ v.pending = d.pending
     /\ v.asked = d.asked /\ v.sendReadMessages = d.sendReadMessages
     /\ v.lastId = [d.lastId EXCEPT ![h] = @ + 1]
     /\ \A g \in Chats \ {h} : v.state[g] = d.state[g]
     /\ t.willReadTill = s.willReadTill /\ t.sentReadTill = s.sentReadTill
     /\ t.sentReadDone = s.sentReadDone
     /\ t.postponedRequestEntry => s.postponedRequestEntry \/ h \in d.asked
     /\ \/ /\ r.type = "History" /\ PostponeHistoryRequest(s)
           /\ t.sent = s.sent /\ t.postponed = s.postponed \cup {r.id}
           /\ v.live = d.live
        \/ /\ ~(r.type = "History" /\ PostponeHistoryRequest(s))
           /\ \E stopped \in SUBSET { p \in sent : p.type = "History" } :
                /\ t.sent = sent \ stopped
                /\ t.postponed = s.postponed \cup { p.id : p \in stopped }
                /\ v.live = (d.live \cup {Live(h, r)}) \ { Live(h, p) : p \in stopped }
                /\ stopped = IF \E p \in sent : p.type = "Delete"
                             THEN { p \in sent : p.type = "History" } ELSE {}

\* sendRequest().
LEMMA SendRequestOutcome ==
  ASSUME NEW d \in Objects, NEW h \in Chats,
         NEW type \in {"History", "Delete", "Send", "ReadInbox"},
         NEW till \in Nat, NEW finishes \in BOOLEAN
  PROVE  LET v == SendRequest(d, h, type, till, finishes)
             r == Sent(d.lastId[h] + 1, type, till, finishes)
         IN  v \in Objects /\ r \in Requests /\ Sends(d, v, h, r)
<1> DEFINE v == SendRequest(d, h, type, till, finishes)
           s == d.state[h]
           id == d.lastId[h] + 1
           r == Sent(id, type, till, finishes)
           sent == s.sent \cup {r}
           more == [s EXCEPT !.sent = sent]
           stopped == IF PostponeHistoryRequest(more) THEN Pages(more) ELSE {}
           last == [d.lastId EXCEPT ![h] = id]
<1>1. /\ s \in States /\ d.lastId[h] \in Nat /\ id \in Nat
      /\ d.state \in [Chats -> States] /\ d.lastId \in [Chats -> Nat]
  BY DEF Objects
<1>2. r \in Requests /\ r.id = id /\ r.type = type
  BY <1>1 DEF Sent, Requests
<1>3. last \in [Chats -> Nat] /\ last = [d.lastId EXCEPT ![h] = @ + 1]
  BY <1>1
<1> HIDE DEF s, last
<1>4. /\ s.sent \in SUBSET Requests /\ s.postponed \in SUBSET Nat
      /\ s.postponedRequestEntry \in BOOLEAN
  BY <1>1 DEF States
<1> HIDE DEF r, id
<1>5. ASSUME type = "History" /\ PostponeHistoryRequest(s)
      PROVE  v \in Objects /\ Sends(d, v, h, r)
  <2> DEFINE postponed == s.postponed \cup {id}
             t == [s EXCEPT !.postponed = postponed]
             state == [d.state EXCEPT ![h] = t]
  <2>1. postponed \in SUBSET Nat
    BY <1>1, <1>4
  <2> HIDE DEF postponed
  <2>2. /\ t \in States /\ t.sent = s.sent /\ t.postponed = postponed
        /\ t.willReadTill = s.willReadTill /\ t.sentReadTill = s.sentReadTill
        /\ t.sentReadDone = s.sentReadDone
        /\ t.postponedRequestEntry = s.postponedRequestEntry
    BY <1>1, <2>1 DEF States
  <2> HIDE DEF t
  <2>3. state \in [Chats -> States] /\ state[h] = t /\ \A g \in Chats \ {h} : state[g] = d.state[g]
    BY <1>1, <2>2
  <2>4. v = [d EXCEPT !.lastId = last, !.state = state]
    BY <1>5 DEF SendRequest, Objects, last, id, s, t, postponed
  <2> HIDE DEF state, v
  <2>5. /\ v \in Objects /\ v.state = state /\ v.lastId = last /\ v.live = d.live
        /\ v.armed = d.armed /\ v.timer = d.timer /\ v.pending = d.pending
        /\ v.asked = d.asked /\ v.sendReadMessages = d.sendReadMessages
    BY <1>3, <2>3, <2>4 DEF Objects
  <2> QED
    BY <1>2, <1>3, <1>5, <2>2, <2>3, <2>5 DEF s, postponed, Sends
<1>6. ASSUME ~(type = "History" /\ PostponeHistoryRequest(s))
      PROVE  v \in Objects /\ Sends(d, v, h, r)
  <2>1. sent \in SUBSET Requests /\ \A p \in sent : p.id \in Nat
    BY <1>2, <1>4 DEF Requests
  <2>2. more \in States /\ more.sent = sent /\ more.postponed = s.postponed
        /\ more.postponedRequestEntry = s.postponedRequestEntry
        /\ more.willReadTill = s.willReadTill /\ more.sentReadTill = s.sentReadTill
        /\ more.sentReadDone = s.sentReadDone
    <3> HIDE DEF sent
    <3> QED
      BY <1>1, <2>1 DEF States
  <2>3. /\ stopped = IF \E p \in sent : p.type = "Delete"
                     THEN { p \in sent : p.type = "History" } ELSE {}
        /\ stopped \in SUBSET { p \in sent : p.type = "History" }
    BY <2>2 DEF PostponeHistoryRequest, Pages
  <2> DEFINE kept == sent \ stopped
             postponed == s.postponed \cup { p.id : p \in stopped }
             entry == s.postponedRequestEntry \/ (PostponeEntryRequest(more) /\ h \in d.asked)
             t == [more EXCEPT !.sent = kept, !.postponed = postponed,
                               !.postponedRequestEntry = entry]
             state == [d.state EXCEPT ![h] = t]
             live == (d.live \cup {Live(h, r)}) \ { Live(h, p) : p \in stopped }
  <2>4. /\ kept \in SUBSET Requests /\ postponed \in SUBSET Nat /\ entry \in BOOLEAN
        /\ live \in SUBSET [of : SUBSET Chats, sent : Requests]
    <3>1. d.live \in SUBSET [of : SUBSET Chats, sent : Requests]
      BY DEF Objects
    <3>2. Live(h, r) \in [of : SUBSET Chats, sent : Requests]
      BY <1>2 DEF Live
    <3>3. \A p \in stopped : p.id \in Nat
      BY <2>1, <2>3
    <3> HIDE DEF stopped, sent, r
    <3>4. postponed \in SUBSET Nat
      BY <1>4, <3>3
    <3>5. live \in SUBSET [of : SUBSET Chats, sent : Requests]
      BY <3>1, <3>2
    <3>6. kept \in SUBSET Requests
      BY <2>1
    <3>7. entry \in BOOLEAN
      BY <1>4
    <3> QED
      BY <3>4, <3>5, <3>6, <3>7
  <2> DEFINE v2 == [d EXCEPT !.lastId = last, !.live = live, !.state = state]
  <2>5. v = v2
    BY <1>6, <2>2 DEF SendRequest, Objects, last, id, s, r
  <2>6. entry => s.postponedRequestEntry \/ h \in d.asked
    OBVIOUS
  <2> HIDE DEF kept, postponed, entry, live, more, v
  <2>7. /\ t \in States /\ t.sent = kept /\ t.postponed = postponed
        /\ t.willReadTill = s.willReadTill /\ t.sentReadTill = s.sentReadTill
        /\ t.sentReadDone = s.sentReadDone /\ t.postponedRequestEntry = entry
    BY <2>2, <2>4 DEF States
  <2> HIDE DEF t
  <2>8. state \in [Chats -> States] /\ state[h] = t /\ \A g \in Chats \ {h} : state[g] = d.state[g]
    BY <1>1, <2>7
  <2> HIDE DEF state
  <2>9. /\ v \in Objects /\ v.state = state /\ v.lastId = last /\ v.live = live
        /\ v.armed = d.armed /\ v.timer = d.timer /\ v.pending = d.pending
        /\ v.asked = d.asked /\ v.sendReadMessages = d.sendReadMessages
    BY <1>3, <2>4, <2>5, <2>8 DEF Objects
  <2> HIDE DEF stopped, sent
  <2>10. /\ v \in Objects /\ r \in Requests
         /\ v.armed = d.armed /\ v.timer = d.timer /\ v.pending = d.pending
         /\ v.asked = d.asked /\ v.sendReadMessages = d.sendReadMessages
         /\ v.lastId = [d.lastId EXCEPT ![h] = @ + 1]
         /\ \A g \in Chats \ {h} : v.state[g] = d.state[g]
         /\ v.state[h].willReadTill = s.willReadTill /\ v.state[h].sentReadTill = s.sentReadTill
         /\ v.state[h].sentReadDone = s.sentReadDone
         /\ v.state[h].postponedRequestEntry => s.postponedRequestEntry \/ h \in d.asked
         /\ v.state[h].sent = sent \ stopped
         /\ v.state[h].postponed = s.postponed \cup { p.id : p \in stopped }
         /\ v.live = (d.live \cup {Live(h, r)}) \ { Live(h, p) : p \in stopped }
    BY <1>2, <1>3, <2>6, <2>7, <2>8, <2>9 DEF kept, postponed, live
  <2> QED
    BY <1>2, <1>6, <2>3, <2>10 DEF s, sent, Sends
<1> QED
  BY <1>2, <1>5, <1>6 DEF r, id

\* What a new request leaves out or known: what was, and the request.
LEMMA SendsKnown ==
  ASSUME NEW d \in Objects, NEW v \in Objects, NEW h \in Chats, NEW r \in Requests,
         r.id = d.lastId[h] + 1, r.type = "History" => r = Sent(r.id, "History", 0, TRUE),
         Sends(d, v, h, r)
  PROVE  /\ \A g \in Chats, x \in Requests : Live(g, x) \in v.live =>
              Live(g, x) \in d.live \/ (g = h /\ x = r)
         /\ \A g \in Chats, x \in Requests : Live(g, x) \in d.live /\ x.type # "History" =>
              Live(g, x) \in v.live
         /\ \A q \in v.live : q \in d.live \/ q = Live(h, r)
         /\ IdsOK(d) => \A g \in Chats, x \in Requests :
              IsKnown(v, g, x) => IsKnown(d, g, x) \/ (g = h /\ x = r)
<1> DEFINE s == d.state[h]
           t == v.state[h]
           sent == s.sent \cup {r}
<1>1. CASE /\ r.type = "History" /\ PostponeHistoryRequest(s)
           /\ t.sent = s.sent /\ t.postponed = s.postponed \cup {r.id}
           /\ v.live = d.live
  <2>1. ASSUME NEW g \in Chats, NEW x \in Requests, IsKnown(v, g, x)
        PROVE  IsKnown(d, g, x) \/ (g = h /\ x = r)
    <3>1. CASE g = h
      <4>1. CASE x \in t.sent \/ (Live(g, x) \in v.live /\ x.type # "Entries")
        BY <4>1, <3>1, <1>1 DEF IsKnown
      <4>2. CASE x.id \in t.postponed /\ x = Sent(x.id, "History", 0, TRUE)
        <5>1. x.id \in s.postponed \/ x = r
          BY <4>2, <1>1
        <5> QED
          BY <5>1, <4>2, <3>1 DEF IsKnown
      <4> QED
        BY <2>1, <3>1, <4>1, <4>2 DEF IsKnown
    <3>2. CASE g # h
      BY <3>2, <2>1, <1>1 DEF Sends, IsKnown
    <3> QED
      BY <3>1, <3>2
  <2> QED
    BY <1>1, <2>1
<1>2. ASSUME NEW stopped \in SUBSET { p \in sent : p.type = "History" },
             t.sent = sent \ stopped,
             t.postponed = s.postponed \cup { p.id : p \in stopped },
             v.live = (d.live \cup {Live(h, r)}) \ { Live(h, p) : p \in stopped }
      PROVE  /\ \A g \in Chats, x \in Requests : Live(g, x) \in v.live =>
                  Live(g, x) \in d.live \/ (g = h /\ x = r)
             /\ \A g \in Chats, x \in Requests : Live(g, x) \in d.live /\ x.type # "History" =>
                  Live(g, x) \in v.live
             /\ \A q \in v.live : q \in d.live \/ q = Live(h, r)
             /\ IdsOK(d) => \A g \in Chats, x \in Requests :
                  IsKnown(v, g, x) => IsKnown(d, g, x) \/ (g = h /\ x = r)
  <2>1. \A q \in v.live : q \in d.live \/ q = Live(h, r)
    BY <1>2
  <2>2. ASSUME NEW g \in Chats, NEW x \in Requests, Live(g, x) \in v.live
        PROVE  Live(g, x) \in d.live \/ (g = h /\ x = r)
    BY <2>1, <2>2, LiveIsOne
  <2>3. ASSUME NEW g \in Chats, NEW x \in Requests, Live(g, x) \in d.live, x.type # "History"
        PROVE  Live(g, x) \in v.live
    <3>1. ASSUME NEW p \in stopped PROVE Live(g, x) # Live(h, p)
      BY <2>3, LiveIsOne
    <3> QED
      BY <2>3, <3>1, <1>2
  <2>4. ASSUME IdsOK(d), NEW g \in Chats, NEW x \in Requests, IsKnown(v, g, x)
        PROVE  IsKnown(d, g, x) \/ (g = h /\ x = r)
    <3>1. CASE g = h
      <4>1. CASE x \in t.sent
        BY <4>1, <3>1, <1>2 DEF IsKnown
      <4>2. CASE Live(g, x) \in v.live /\ x.type # "Entries"
        BY <4>2, <2>2 DEF IsKnown
      <4>3. CASE x.id \in t.postponed /\ x = Sent(x.id, "History", 0, TRUE)
        <5>1. CASE x.id \in s.postponed
          BY <5>1, <4>3, <3>1 DEF IsKnown
        <5>2. CASE x.id \notin s.postponed
          <6>1. PICK p \in stopped : x.id = p.id
            BY <5>2, <4>3, <1>2
          <6>2. p \in sent /\ p.type = "History"
            OBVIOUS
          <6>3. CASE p = r
            BY <6>1, <6>3, <4>3, <3>1
          <6>4. CASE p # r
            <7>1. p \in Requests /\ IsKnown(d, h, p)
              BY <6>2, <6>4 DEF IsKnown, Objects, States
            <7>2. p = Sent(p.id, "History", 0, TRUE)
              BY <7>1, <6>2, <2>4 DEF IdsOK
            <7>3. Sent(x.id, "History", 0, TRUE) = Sent(p.id, "History", 0, TRUE)
              BY <6>1
            <7>4. x = p
              BY <7>2, <7>3, <4>3
            <7> QED
              BY <7>1, <7>4, <3>1
          <6> QED
            BY <6>3, <6>4
        <5> QED
          BY <5>1, <5>2
      <4> QED
        BY <2>4, <3>1, <4>1, <4>2, <4>3 DEF IsKnown
    <3>2. CASE g # h
      <4>1. v.state[g] = d.state[g]
        BY <3>2 DEF Sends
      <4> QED
        BY <4>1, <2>2, <2>4, <3>2 DEF IsKnown
    <3> QED
      BY <3>1, <3>2
  <2> QED
    BY <2>1, <2>2, <2>3, <2>4
<1> QED
  BY <1>1, <1>2 DEF Sends

\* A new request that is not a read of the user keeps the invariant.
LEMMA SendRequestKeeps ==
  ASSUME NEW d \in Objects, NEW h \in Chats,
         NEW type \in {"History", "Delete", "Send", "ReadInbox"},
         NEW till \in Nat, NEW finishes \in BOOLEAN,
         type = "History" => till = 0 /\ finishes = TRUE,
         type = "ReadInbox" => finishes = FALSE
  PROVE  Keeps(d, SendRequest(d, h, type, till, finishes))
<1> DEFINE v == SendRequest(d, h, type, till, finishes)
           r == Sent(d.lastId[h] + 1, type, till, finishes)
           new == [g \in Chats |-> r]
<1>1. v \in Objects /\ r \in Requests /\ Sends(d, v, h, r)
  BY SendRequestOutcome
<1>2. /\ r.id = d.lastId[h] + 1 /\ r.type = type /\ r.finishes = finishes
      /\ r.type = "History" => r = Sent(r.id, "History", 0, TRUE)
  BY DEF Sent
<1>3. \A g \in Chats : d.lastId[g] \in Nat
  BY DEF Objects
<1> HIDE DEF v, r
<1>4. /\ \A g \in Chats, x \in Requests : Live(g, x) \in v.live =>
           Live(g, x) \in d.live \/ (g = h /\ x = r)
      /\ \A g \in Chats, x \in Requests : Live(g, x) \in d.live /\ x.type # "History" =>
           Live(g, x) \in v.live
      /\ \A q \in v.live : q \in d.live \/ q = Live(h, r)
      /\ IdsOK(d) => \A g \in Chats, x \in Requests :
           IsKnown(v, g, x) => IsKnown(d, g, x) \/ (g = h /\ x = r)
  BY <1>1, <1>2, SendsKnown
<1>5. /\ v.armed = d.armed /\ v.timer = d.timer /\ v.pending = d.pending
      /\ v.asked = d.asked /\ v.sendReadMessages = d.sendReadMessages
      /\ v.lastId[h] = d.lastId[h] + 1
      /\ \A g \in Chats \ {h} : v.state[g] = d.state[g] /\ v.lastId[g] = d.lastId[g]
      /\ v.state[h].willReadTill = d.state[h].willReadTill
      /\ v.state[h].sentReadTill = d.state[h].sentReadTill
      /\ v.state[h].sentReadDone = d.state[h].sentReadDone
      /\ v.state[h].postponedRequestEntry => d.state[h].postponedRequestEntry \/ h \in d.asked
  BY <1>1 DEF Sends, Objects
<1>6. ASSUME NEW xs, Kept(d, xs) PROVE Kept(v, xs)
  <2>1. EntriesOK(v)
    BY <1>5, <1>6 DEF Kept, EntriesOK
  <2>2. IdsOK(v)
    <3>1. new \in [Chats -> Requests]
      BY <1>1
    <3>2. \A g \in Chats : v.lastId[g] >= d.lastId[g]
      BY <1>3, <1>5
    <3>3. \A g \in Chats, x \in Requests : IsKnown(v, g, x) =>
            \/ IsKnown(d, g, x)
            \/ /\ x = new[g] /\ x.id = d.lastId[g] + 1 /\ v.lastId[g] = d.lastId[g] + 1
               /\ x.type # "Entries"
               /\ x.type = "History" => x = Sent(x.id, "History", 0, TRUE)
      BY <1>2, <1>4, <1>5, <1>6 DEF Kept
    <3>4. \A q \in v.live : q.sent.type = "Entries" \/ \E g \in Chats : q = Live(g, q.sent)
      BY <1>4, <1>6 DEF Kept, IdsOK, Live
    <3> HIDE DEF new
    <3> QED
      BY <3>1, <3>2, <3>3, <3>4, <1>1, <1>6, IdsStay DEF Kept
  <2>3. ASSUME NEW g \in Chats, v.state[g].sentReadTill # 0
        PROVE  \/ ReadIsOut(v, g, v.state[g].sentReadTill)
               \/ v.state[g].sentReadDone /\ g \in v.pending \cup v.asked \cup xs
    <3>1. /\ v.state[g].sentReadTill = d.state[g].sentReadTill
          /\ v.state[g].sentReadDone = d.state[g].sentReadDone
      BY <1>5
    <3>2. \/ ReadIsOut(d, g, d.state[g].sentReadTill)
          \/ d.state[g].sentReadDone /\ g \in d.pending \cup d.asked \cup xs
      BY <1>6, <2>3, <3>1 DEF Kept, Watched
    <3> QED
      BY <3>1, <3>2, <1>4, <1>5 DEF ReadIsOut
  <2> QED
    BY <2>1, <2>2, <2>3 DEF Kept, Watched
<1>7. ASSUME NEW marks, Strict(d, marks) PROVE Strict(v, marks)
  <2>1. ASSUME PagesOf(d, h) PROVE PagesOf(v, h)
    <3>0. \A x \in d.state[h].sent : x \in Requests
      BY DEF Objects, States
    <3>1. CASE r.type = "History" /\ PostponeHistoryRequest(d.state[h])
      BY <3>1, <2>1, <1>1 DEF Sends, PagesOf, PostponeHistoryRequest, Pages
    <3>2. CASE ~(r.type = "History" /\ PostponeHistoryRequest(d.state[h]))
      <4> DEFINE sent == d.state[h].sent \cup {r}
      <4>1. PICK stopped \in SUBSET { p \in sent : p.type = "History" } :
              /\ v.state[h].sent = sent \ stopped
              /\ v.live = (d.live \cup {Live(h, r)}) \ { Live(h, p) : p \in stopped }
              /\ stopped = IF \E p \in sent : p.type = "Delete"
                           THEN { p \in sent : p.type = "History" } ELSE {}
        BY <3>2, <1>1 DEF Sends
      <4>2. ASSUME NEW x \in Requests, Live(h, x) \in v.live, x.type \in {"History", "Delete"}
            PROVE  x \in v.state[h].sent
        <5>1. x \in sent
          BY <4>2, <1>4, <2>1 DEF PagesOf
        <5>2. x \notin stopped
          BY <4>1, <4>2
        <5> QED
          BY <5>1, <5>2, <4>1
      <4>3. PostponeHistoryRequest(v.state[h]) => Pages(v.state[h]) = {}
        BY <4>1 DEF PostponeHistoryRequest, Pages
      <4> QED
        BY <4>2, <4>3 DEF PagesOf
    <3> QED
      BY <3>1, <3>2
  <2>2. \A g \in Chats \ {h} :
          /\ v.state[g] = d.state[g]
          /\ \A x \in Requests : Live(g, x) \in v.live => Live(g, x) \in d.live
    BY <1>4, <1>5
  <2>3. \A x \in Requests : Live(h, x) \in v.live /\ x.type = "ReadInbox" /\ x.finishes =>
                              Live(h, x) \in d.live
    BY <1>2, <1>4
  <2> QED
    BY <2>1, <2>2, <2>3, <1>5, <1>7, StrictOne
<1>8. ArmedOK(d) => ArmedOK(v)
  BY <1>5, ArmedFrame
<1> QED
  BY <1>1, <1>6, <1>7, <1>8 DEF Keeps, v

\* v is d when the request "id" of h is over: what waited for it goes on.
Ends(d, v, h, id) ==
  LET s == d.state[h]
      t == v.state[h]
      ended == { r \in s.sent : r.id = id }
  IN /\ v.armed = d.armed /\ v.timer = d.timer /\ v.lastId = d.lastId
     /\ v.sendReadMessages = d.sendReadMessages
     /\ \A g \in Chats \ {h} : v.state[g] = d.state[g]
     /\ t.willReadTill = s.willReadTill /\ t.sentReadTill = s.sentReadTill
     /\ s.sentReadTill # 0 => t.sentReadDone = s.sentReadDone
     /\ \/ /\ v.asked = d.asked /\ v.pending = d.pending
           /\ t.postponedRequestEntry => s.postponedRequestEntry
        \/ /\ s.postponedRequestEntry /\ ~t.postponedRequestEntry
           /\ v.asked = d.asked \ {h} /\ v.pending = d.pending \cup {h}
     /\ t.postponed \subseteq s.postponed
     /\ \E again \in SUBSET { Sent(p, "History", 0, TRUE) : p \in s.postponed } :
          /\ t.sent = (s.sent \ ended) \cup again
          /\ v.live = (d.live \ { Live(h, r) : r \in ended }) \cup { Live(h, r) : r \in again }
          /\ (\E r \in s.sent \ ended : r.type = "Delete") => again = {}

\* A state that is erased has nothing to lose but a flag.
LEMMA CheckEmptyStateOutcome ==
  ASSUME NEW s \in States
  PROVE  LET t == CheckEmptyState(s) IN
         /\ t \in States /\ t.sent = s.sent /\ t.postponed = s.postponed
         /\ t.willReadTill = s.willReadTill /\ t.sentReadTill = s.sentReadTill
         /\ s.sentReadTill # 0 => t.sentReadDone = s.sentReadDone
         /\ t.postponedRequestEntry = s.postponedRequestEntry
<1>1. CASE CheckEmptyState(s) = s
  BY <1>1
<1>2. CASE CheckEmptyState(s) # s
  <2>1. /\ s.postponed = {} /\ s.postponedRequestEntry = FALSE /\ s.sent = {}
        /\ s.willReadTill = 0 /\ s.sentReadTill = 0
        /\ CheckEmptyState(s) = Fresh
    BY <1>2 DEF CheckEmptyState, States
  <2>2. /\ Fresh \in States /\ Fresh.sent = {} /\ Fresh.postponed = {}
        /\ Fresh.willReadTill = 0 /\ Fresh.sentReadTill = 0
        /\ Fresh.postponedRequestEntry = FALSE
    BY DEF Fresh, States
  <2> QED
    BY <2>1, <2>2
<1> QED
  BY <1>1, <1>2

\* finishSentRequest().
LEMMA FinishOutcome ==
  ASSUME NEW d \in Objects, NEW h \in Chats, NEW id \in Nat
  PROVE  /\ FinishSentRequest(d, h, id) \in Objects
         /\ Ends(d, FinishSentRequest(d, h, id), h, id)
<1> DEFINE v == FinishSentRequest(d, h, id)
           s0 == d.state[h]
           ended == { r \in s0.sent : r.id = id }
           less == s0.sent \ ended
           s == [s0 EXCEPT !.sent = less]
           again == IF PostponeHistoryRequest(s) THEN {}
                    ELSE { Sent(p, "History", 0, TRUE) : p \in s.postponed }
           sent == less \cup again
           postponed == s0.postponed \ { p.id : p \in again }
           t == [s EXCEPT !.sent = sent, !.postponed = postponed]
           live == (d.live \ { Live(h, r) : r \in ended }) \cup { Live(h, p) : p \in again }
           u == [t EXCEPT !.postponedRequestEntry = FALSE]
           x == CheckEmptyState(t)
           y == CheckEmptyState(u)
<1>1. /\ s0 \in States /\ d.state \in [Chats -> States]
      /\ d.live \in SUBSET [of : SUBSET Chats, sent : Requests]
      /\ d.asked \in SUBSET Chats /\ d.pending \in SUBSET Chats
  BY DEF Objects
<1> HIDE DEF s0
<1>2. s0.sent \in SUBSET Requests /\ s0.postponed \in SUBSET Nat
  BY <1>1 DEF States
<1>3. less \in SUBSET Requests
  BY <1>2
<1> HIDE DEF less
<1>4. /\ s \in States /\ s.sent = less /\ s.postponed = s0.postponed
      /\ s.willReadTill = s0.willReadTill /\ s.sentReadTill = s0.sentReadTill
      /\ s.sentReadDone = s0.sentReadDone
      /\ s.postponedRequestEntry = s0.postponedRequestEntry
  BY <1>1, <1>3 DEF States
<1>5. /\ again \in SUBSET { Sent(p, "History", 0, TRUE) : p \in s0.postponed }
      /\ (\E r \in less : r.type = "Delete") => again = {}
  BY <1>4 DEF PostponeHistoryRequest
<1>6. \A p \in Nat : Sent(p, "History", 0, TRUE) \in Requests
  BY DEF Sent, Requests
<1> HIDE DEF s
<1>7. again \in SUBSET Requests
  BY <1>2, <1>5, <1>6
<1> HIDE DEF again
<1>8. /\ sent \in SUBSET Requests /\ postponed \in SUBSET Nat /\ postponed \subseteq s0.postponed
  BY <1>2, <1>3, <1>7
<1>9. live \in SUBSET [of : SUBSET Chats, sent : Requests]
  <2>1. \A p \in again : Live(h, p) \in [of : SUBSET Chats, sent : Requests]
    BY <1>7 DEF Live
  <2> HIDE DEF ended
  <2> QED
    BY <2>1, <1>1
<1>10. postponed = s.postponed \ { p.id : p \in again } /\ sent = s.sent \cup again
  BY <1>4
<1> HIDE DEF sent, postponed, live
<1>11. /\ t \in States /\ t.sent = sent /\ t.postponed = postponed
       /\ t.willReadTill = s0.willReadTill /\ t.sentReadTill = s0.sentReadTill
       /\ t.sentReadDone = s0.sentReadDone
       /\ t.postponedRequestEntry = s0.postponedRequestEntry
       /\ t.postponedRequestEntry \in BOOLEAN
  BY <1>4, <1>8 DEF States
<1> HIDE DEF t
<1>12. /\ u \in States /\ u.sent = sent /\ u.postponed = postponed
       /\ u.willReadTill = s0.willReadTill /\ u.sentReadTill = s0.sentReadTill
       /\ u.sentReadDone = s0.sentReadDone /\ u.postponedRequestEntry = FALSE
  BY <1>11 DEF States
<1> HIDE DEF u
<1>13. /\ x \in States /\ x.sent = sent /\ x.postponed = postponed
       /\ x.willReadTill = s0.willReadTill /\ x.sentReadTill = s0.sentReadTill
       /\ s0.sentReadTill # 0 => x.sentReadDone = s0.sentReadDone
       /\ x.postponedRequestEntry = s0.postponedRequestEntry
  BY <1>11, CheckEmptyStateOutcome
<1>14. /\ y \in States /\ y.sent = sent /\ y.postponed = postponed
       /\ y.willReadTill = s0.willReadTill /\ y.sentReadTill = s0.sentReadTill
       /\ s0.sentReadTill # 0 => y.sentReadDone = s0.sentReadDone
       /\ y.postponedRequestEntry = FALSE
  BY <1>12, CheckEmptyStateOutcome
<1>15. /\ sent = (s0.sent \ ended) \cup again
       /\ live = (d.live \ { Live(h, r) : r \in ended }) \cup { Live(h, p) : p \in again }
       /\ (\E r \in s0.sent \ ended : r.type = "Delete") => again = {}
  BY <1>5 DEF sent, less, live
<1>16. v = IF t.postponedRequestEntry /\ ~PostponeEntryRequest(t)
           THEN PostponeRequestDialogEntries([d EXCEPT
                  !.state[h] = y, !.live = live,
                  !.asked = @ \ {h}, !.pending = @ \cup {h}])
           ELSE [d EXCEPT !.state[h] = x, !.live = live]
  <2>1. s = [d.state[h] EXCEPT !.sent = @ \ ended]
    BY DEF s, s0, less
  <2>2. t = [s EXCEPT !.sent = @ \cup again, !.postponed = @ \ { p.id : p \in again }]
    BY <1>10 DEF t
  <2> HIDE DEF s, t
  <2> QED
    BY <2>1, <2>2 DEF FinishSentRequest, s0, again, live, u
<1> HIDE DEF x, y, v
<1>17. CASE t.postponedRequestEntry /\ ~PostponeEntryRequest(t)
  <2> DEFINE state == [d.state EXCEPT ![h] = y]
             asked == d.asked \ {h}
             pending == d.pending \cup {h}
             e == [d EXCEPT !.state = state, !.live = live, !.asked = asked, !.pending = pending]
  <2>1. /\ state \in [Chats -> States] /\ state[h] = y
        /\ \A g \in Chats \ {h} : state[g] = d.state[g]
    BY <1>1, <1>14
  <2>2. asked \in SUBSET Chats /\ pending \in SUBSET Chats
    BY <1>1
  <2>3. v = PostponeRequestDialogEntries(e)
    BY <1>16, <1>17 DEF Objects
  <2> HIDE DEF state, asked, pending
  <2>4. /\ e \in Objects /\ e.state = state /\ e.live = live /\ e.asked = asked
        /\ e.pending = pending /\ e.armed = d.armed /\ e.timer = d.timer
        /\ e.lastId = d.lastId /\ e.sendReadMessages = d.sendReadMessages
    BY <1>9, <2>1, <2>2 DEF Objects
  <2> HIDE DEF e
  <2>5. /\ v \in Objects /\ v.state = e.state /\ v.live = e.live /\ v.asked = e.asked
        /\ v.pending = e.pending /\ v.armed = e.armed /\ v.timer = e.timer
        /\ v.lastId = e.lastId /\ v.sendReadMessages = e.sendReadMessages
    <3> DEFINE posted == e.posted \/ Cardinality(e.pending) <= 1
    <3>1. posted \in BOOLEAN /\ v = [e EXCEPT !.posted = posted]
      BY <2>3, <2>4 DEF PostponeRequestDialogEntries, Objects
    <3> HIDE DEF posted
    <3> QED
      BY <3>1, <2>4 DEF Objects
  <2>6. v.state[h] = y /\ s0.postponedRequestEntry
    BY <1>11, <1>17, <2>1, <2>4, <2>5
  <2>7. /\ v.armed = d.armed /\ v.timer = d.timer /\ v.lastId = d.lastId
        /\ v.sendReadMessages = d.sendReadMessages /\ v.live = live
        /\ v.asked = d.asked \ {h} /\ v.pending = d.pending \cup {h}
        /\ \A g \in Chats \ {h} : v.state[g] = d.state[g]
    BY <2>1, <2>4, <2>5 DEF asked, pending
  <2>8. \E a \in SUBSET { Sent(p, "History", 0, TRUE) : p \in s0.postponed } :
          /\ y.sent = (s0.sent \ ended) \cup a
          /\ v.live = (d.live \ { Live(h, r) : r \in ended }) \cup { Live(h, r) : r \in a }
          /\ (\E r \in s0.sent \ ended : r.type = "Delete") => a = {}
    BY <1>5, <1>14, <1>15, <2>7
  <2>9. Ends(d, v, h, id)
    BY <1>8, <1>14, <2>6, <2>7, <2>8 DEF Ends, s0, ended
  <2> QED
    BY <2>5, <2>9 DEF v
<1>18. CASE ~(t.postponedRequestEntry /\ ~PostponeEntryRequest(t))
  <2> DEFINE state == [d.state EXCEPT ![h] = x]
  <2>1. /\ state \in [Chats -> States] /\ state[h] = x
        /\ \A g \in Chats \ {h} : state[g] = d.state[g]
    BY <1>1, <1>13
  <2>2. v = [d EXCEPT !.state = state, !.live = live]
    BY <1>16, <1>18 DEF Objects
  <2> HIDE DEF state
  <2>3. /\ v \in Objects /\ v.state = state /\ v.live = live /\ v.asked = d.asked
        /\ v.pending = d.pending /\ v.armed = d.armed /\ v.timer = d.timer
        /\ v.lastId = d.lastId /\ v.sendReadMessages = d.sendReadMessages
    BY <1>9, <2>1, <2>2 DEF Objects
  <2>4. Ends(d, v, h, id)
    BY <1>5, <1>8, <1>13, <1>15, <2>1, <2>3 DEF Ends, s0, ended
  <2> QED
    BY <2>3, <2>4 DEF v
<1> QED
  BY <1>17, <1>18

\* No read of h that is out has this id.
NoReadHas(d, h, id) ==
  \A r \in Requests : Live(h, r) \in d.live /\ r.type = "ReadInbox" => r.id # id

\* Ids stay given once when nothing new is known.
LEMMA IdsLess ==
  ASSUME NEW d, NEW v, IdsOK(d), v.lastId = d.lastId,
         \A h \in Chats, r \in Requests : IsKnown(v, h, r) => IsKnown(d, h, r),
         \A q \in v.live : q.sent.type = "Entries" \/ \E h \in Chats : q = Live(h, q.sent)
  PROVE  IdsOK(v)
BY DEF IdsOK

\* A page that waited and goes on is the same page.
LEMMA EndsKnown ==
  ASSUME NEW d \in Objects, NEW v \in Objects, NEW h \in Chats, NEW id \in Nat,
         Ends(d, v, h, id)
  PROVE  /\ \A g \in Chats, x \in Requests : Live(g, x) \in v.live =>
              Live(g, x) \in d.live \/ (g = h /\ x.type = "History" /\ x \in v.state[h].sent)
         /\ \A g \in Chats, x \in Requests :
              Live(g, x) \in d.live /\ (g # h \/ x.id # id) => Live(g, x) \in v.live
         /\ \A q \in v.live : q \in d.live \/ \E x \in Requests : q = Live(h, x)
         /\ \A g \in Chats, x \in Requests : IsKnown(v, g, x) => IsKnown(d, g, x)
         /\ PagesOf(d, h) => PagesOf(v, h)
<1> DEFINE s == d.state[h]
           t == v.state[h]
           ended == { r \in s.sent : r.id = id }
<1>1. PICK again \in SUBSET { Sent(p, "History", 0, TRUE) : p \in s.postponed } :
        /\ t.sent = (s.sent \ ended) \cup again
        /\ v.live = (d.live \ { Live(h, r) : r \in ended }) \cup { Live(h, r) : r \in again }
        /\ (\E r \in s.sent \ ended : r.type = "Delete") => again = {}
  BY DEF Ends
<1>2. ASSUME NEW x \in again
      PROVE  /\ x \in Requests /\ x.type = "History" /\ x.id \in s.postponed
             /\ x = Sent(x.id, "History", 0, TRUE)
  <2>1. PICK p \in s.postponed : x = Sent(p, "History", 0, TRUE)
    OBVIOUS
  <2>2. p \in Nat
    BY DEF Objects, States
  <2>3. x \in Requests /\ x.type = "History" /\ x.id = p
    BY <2>1, <2>2 DEF Sent, Requests
  <2> QED
    BY <2>1, <2>3
<1>3. /\ \A g \in Chats \ {h} : v.state[g] = d.state[g]
      /\ t.postponed \subseteq s.postponed
  BY DEF Ends
<1>4. ASSUME NEW g \in Chats, NEW x \in Requests, Live(g, x) \in v.live
      PROVE  Live(g, x) \in d.live \/ (g = h /\ x \in again)
  <2>1. CASE Live(g, x) \in d.live
    BY <2>1
  <2>2. CASE Live(g, x) \notin d.live
    <3>1. PICK r \in again : Live(g, x) = Live(h, r)
      BY <1>1, <1>4, <2>2
    <3> QED
      BY <3>1, LiveIsOne
  <2> QED
    BY <2>1, <2>2
<1>5. ASSUME NEW g \in Chats, NEW x \in Requests, Live(g, x) \in d.live, g # h \/ x.id # id
      PROVE  Live(g, x) \in v.live
  <2>1. ASSUME NEW r \in ended PROVE Live(g, x) # Live(h, r)
    <3> SUFFICES ASSUME Live(g, x) = Live(h, r) PROVE FALSE
      OBVIOUS
    <3>1. g = h /\ x = r
      BY LiveIsOne
    <3> QED
      BY <3>1, <1>5
  <2> HIDE DEF ended
  <2> QED
    BY <1>1, <1>5, <2>1
<1>6. \A q \in v.live : q \in d.live \/ \E x \in Requests : q = Live(h, x)
  BY <1>1, <1>2
<1>7. ASSUME NEW g \in Chats, NEW x \in Requests, IsKnown(v, g, x)
      PROVE  IsKnown(d, g, x)
  <2>0. CASE g # h
    <3>1. v.state[g] = d.state[g]
      BY <2>0, <1>3
    <3> QED
      BY <3>1, <1>4, <1>7, <2>0 DEF IsKnown
  <2>9. CASE g = h
    <3>1. CASE x \in again
      BY <3>1, <2>9, <1>2 DEF IsKnown
    <3>2. CASE x \notin again /\ x \in t.sent
      BY <3>2, <2>9, <1>1 DEF IsKnown
    <3>3. CASE x \notin again /\ Live(g, x) \in v.live /\ x.type # "Entries"
      BY <3>3, <2>9, <1>4 DEF IsKnown
    <3>4. CASE x.id \in t.postponed /\ x = Sent(x.id, "History", 0, TRUE)
      BY <3>4, <2>9, <1>3 DEF IsKnown
    <3> QED
      BY <1>7, <2>9, <3>1, <3>2, <3>3, <3>4 DEF IsKnown
  <2> QED
    BY <2>0, <2>9
<1>8. ASSUME PagesOf(d, h) PROVE PagesOf(v, h)
  <2>1. ASSUME NEW x \in Requests, Live(h, x) \in v.live, x.type \in {"History", "Delete"}
        PROVE  x \in t.sent
    <3>1. CASE x \in again
      BY <3>1, <1>1
    <3>2. CASE x \notin again
      <4>1. Live(h, x) \in d.live
        BY <1>4, <2>1, <3>2
      <4>2. x \in s.sent
        BY <4>1, <2>1, <1>8 DEF PagesOf
      <4>3. x \notin ended
        <5> SUFFICES ASSUME x \in ended PROVE FALSE
          OBVIOUS
        <5>1. PICK r \in again : Live(h, x) = Live(h, r)
          BY <1>1, <2>1
        <5> QED
          BY <5>1, <3>2, LiveIsOne
      <4> QED
        BY <4>2, <4>3, <1>1
    <3> QED
      BY <3>1, <3>2
  <2>2. PostponeHistoryRequest(t) => Pages(t) = {}
    <3> SUFFICES ASSUME NEW r \in t.sent, r.type = "Delete", NEW x \in t.sent, x.type = "History"
                 PROVE  FALSE
      BY DEF PostponeHistoryRequest, Pages
    <3>1. r \in s.sent \ ended
      BY <1>1, <1>2
    <3>2. again = {}
      BY <3>1, <1>1
    <3>3. x \in s.sent
      BY <3>2, <1>1
    <3> QED
      BY <3>1, <3>3, <1>8 DEF PagesOf, PostponeHistoryRequest, Pages
  <2> QED
    BY <2>1, <2>2 DEF PagesOf
<1> QED
  BY <1>1, <1>2, <1>4, <1>5, <1>6, <1>7, <1>8

\* The end of a request keeps the invariant, unless it is the read that is
\* watched.
LEMMA FinishKeeps ==
  ASSUME NEW d \in Objects, NEW h \in Chats, NEW id \in Nat, NoReadHas(d, h, id)
  PROVE  Keeps(d, FinishSentRequest(d, h, id))
<1> DEFINE v == FinishSentRequest(d, h, id)
<1>1. v \in Objects /\ Ends(d, v, h, id)
  BY FinishOutcome
<1> HIDE DEF v
<1>2. /\ \A g \in Chats, x \in Requests : Live(g, x) \in v.live =>
           Live(g, x) \in d.live \/ (g = h /\ x.type = "History" /\ x \in v.state[h].sent)
      /\ \A g \in Chats, x \in Requests :
           Live(g, x) \in d.live /\ (g # h \/ x.id # id) => Live(g, x) \in v.live
      /\ \A q \in v.live : q \in d.live \/ \E x \in Requests : q = Live(h, x)
      /\ \A g \in Chats, x \in Requests : IsKnown(v, g, x) => IsKnown(d, g, x)
      /\ PagesOf(d, h) => PagesOf(v, h)
  BY <1>1, EndsKnown
<1>3. /\ v.armed = d.armed /\ v.timer = d.timer /\ v.lastId = d.lastId
      /\ v.sendReadMessages = d.sendReadMessages
      /\ \A g \in Chats \ {h} : v.state[g] = d.state[g]
      /\ \A g \in Chats : /\ v.state[g].willReadTill = d.state[g].willReadTill
                          /\ v.state[g].sentReadTill = d.state[g].sentReadTill
                          /\ d.state[g].sentReadTill # 0 =>
                               v.state[g].sentReadDone = d.state[g].sentReadDone
      /\ \/ /\ v.asked = d.asked /\ v.pending = d.pending
            /\ v.state[h].postponedRequestEntry => d.state[h].postponedRequestEntry
         \/ /\ d.state[h].postponedRequestEntry /\ ~v.state[h].postponedRequestEntry
            /\ v.asked = d.asked \ {h} /\ v.pending = d.pending \cup {h}
  BY <1>1 DEF Ends
<1>4. ASSUME NEW xs, Kept(d, xs) PROVE Kept(v, xs)
  <2>1. EntriesOK(v)
    BY <1>3, <1>4 DEF Kept, EntriesOK
  <2>2. \A q \in v.live : q.sent.type = "Entries" \/ \E g \in Chats : q = Live(g, q.sent)
    BY <1>2, <1>4 DEF Kept, IdsOK, Live
  <2>3. IdsOK(v)
    BY <2>2, <1>2, <1>3, <1>4, IdsLess DEF Kept
  <2>4. ASSUME NEW g \in Chats, v.state[g].sentReadTill # 0
        PROVE  \/ ReadIsOut(v, g, v.state[g].sentReadTill)
               \/ v.state[g].sentReadDone /\ g \in v.pending \cup v.asked \cup xs
    <3>1. \/ ReadIsOut(d, g, d.state[g].sentReadTill)
          \/ d.state[g].sentReadDone /\ g \in d.pending \cup d.asked \cup xs
      BY <1>3, <1>4, <2>4 DEF Kept, Watched
    <3>2. ReadIsOut(d, g, d.state[g].sentReadTill) => ReadIsOut(v, g, d.state[g].sentReadTill)
      BY <1>2 DEF ReadIsOut, NoReadHas
    <3>3. d.pending \cup d.asked \subseteq v.pending \cup v.asked
      BY <1>3
    <3> QED
      BY <3>1, <3>2, <3>3, <1>3, <2>4
  <2> QED
    BY <2>1, <2>3, <2>4 DEF Kept, Watched
<1>5. ASSUME NEW marks, Strict(d, marks) PROVE Strict(v, marks)
  <2>1. \A g \in Chats \ {h} :
          /\ v.state[g] = d.state[g]
          /\ \A x \in Requests : Live(g, x) \in v.live => Live(g, x) \in d.live
    BY <1>2, <1>3
  <2>2. \A x \in Requests : Live(h, x) \in v.live /\ x.type = "ReadInbox" /\ x.finishes =>
                              Live(h, x) \in d.live
    BY <1>2
  <2> QED
    BY <2>1, <2>2, <1>2, <1>3, <1>5, StrictOne
<1>6. ArmedOK(d) => ArmedOK(v)
  BY <1>3, ArmedFrame
<1> QED
  BY <1>1, <1>4, <1>5, <1>6 DEF Keeps, v

(***************************************************************************)
(* Entries of chats.                                                       *)
(***************************************************************************)
\* requestDialogEntry() puts a chat among those to be asked for, unless it is
\* there or was asked for.
LEMMA RequestEntryOutcome ==
  ASSUME NEW d \in Objects, NEW h \in Chats, NEW callback \in BOOLEAN
  PROVE  LET v == RequestDialogEntry(d, h, callback) IN
         /\ v \in Objects
         /\ v.state = d.state /\ v.live = d.live /\ v.lastId = d.lastId
         /\ v.armed = d.armed /\ v.timer = d.timer
         /\ v.asked = d.asked /\ v.sendReadMessages = d.sendReadMessages
         /\ h \in v.pending \cup v.asked
         /\ v.pending = IF h \in d.asked THEN d.pending ELSE d.pending \cup {h}
<1> DEFINE callbacks == IF callback THEN d.callbacks \cup {h} ELSE d.callbacks
           c == [d EXCEPT !.callbacks = callbacks]
           pending == d.pending \cup {h}
           e == [c EXCEPT !.pending = pending]
           posted == e.posted \/ Cardinality(e.pending) <= 1
           v == RequestDialogEntry(d, h, callback)
<1>1. /\ callbacks \in SUBSET Chats /\ pending \in SUBSET Chats
      /\ d.pending \in SUBSET Chats /\ d.asked \in SUBSET Chats
  BY DEF Objects
<1>2. v = IF h \in d.asked \cup d.pending THEN c ELSE [e EXCEPT !.posted = posted]
  BY DEF RequestDialogEntry, PostponeRequestDialogEntries
<1> HIDE DEF callbacks
<1>3. /\ c \in Objects
      /\ c.state = d.state /\ c.live = d.live /\ c.lastId = d.lastId
      /\ c.armed = d.armed /\ c.timer = d.timer /\ c.pending = d.pending
      /\ c.asked = d.asked /\ c.sendReadMessages = d.sendReadMessages
  BY <1>1 DEF Objects
<1> HIDE DEF c, pending
<1>4. /\ e \in Objects
      /\ e.state = d.state /\ e.live = d.live /\ e.lastId = d.lastId
      /\ e.armed = d.armed /\ e.timer = d.timer /\ e.pending = pending
      /\ e.asked = d.asked /\ e.sendReadMessages = d.sendReadMessages
      /\ posted \in BOOLEAN
  BY <1>1, <1>3 DEF Objects
<1> HIDE DEF e, posted, v
<1>5. CASE h \in d.asked \cup d.pending
  BY <1>2, <1>3, <1>5 DEF v
<1>6. CASE h \notin d.asked \cup d.pending
  <2>1. /\ v \in Objects
        /\ v.state = d.state /\ v.live = d.live /\ v.lastId = d.lastId
        /\ v.armed = d.armed /\ v.timer = d.timer /\ v.pending = pending
        /\ v.asked = d.asked /\ v.sendReadMessages = d.sendReadMessages
    BY <1>2, <1>4, <1>6 DEF Objects
  <2> QED
    BY <2>1, <1>6 DEF v, pending
<1> QED
  BY <1>5, <1>6

\* And the invariant is kept.
LEMMA RequestEntryKeeps ==
  ASSUME NEW d \in Objects, NEW h \in Chats, NEW callback \in BOOLEAN
  PROVE  Keeps(d, RequestDialogEntry(d, h, callback))
<1> DEFINE v == RequestDialogEntry(d, h, callback)
<1>1. /\ v \in Objects
      /\ v.state = d.state /\ v.live = d.live /\ v.lastId = d.lastId
      /\ v.armed = d.armed /\ v.timer = d.timer
      /\ v.asked = d.asked /\ v.sendReadMessages = d.sendReadMessages
      /\ v.pending = IF h \in d.asked THEN d.pending ELSE d.pending \cup {h}
  BY RequestEntryOutcome
<1> HIDE DEF v
<1>2. ASSUME NEW xs, Kept(d, xs) PROVE Kept(v, xs)
  <2>1. EntriesOK(v)
    BY <1>1, <1>2 DEF Kept, EntriesOK
  <2>2. \A g, r : IsKnown(v, g, r) => IsKnown(d, g, r)
    BY <1>1 DEF IsKnown
  <2>3. IdsOK(v)
    BY <2>2, <1>1, <1>2, IdsLess DEF Kept, IdsOK
  <2>4. Watched(v, xs)
    BY <1>1, <1>2 DEF Kept, Watched, ReadIsOut
  <2> QED
    BY <2>1, <2>3, <2>4 DEF Kept
<1>3. \A marks : Strict(d, marks) => Strict(v, marks)
  BY <1>1, StrictFrame
<1>4. ArmedOK(d) => ArmedOK(v)
  BY <1>1, ArmedFrame
<1> QED
  BY <1>1, <1>2, <1>3, <1>4 DEF Keeps, v

\* sendDialogRequests(): what must wait is marked, and all were asked for.
LEMMA SendEntriesKeeps ==
  ASSUME NEW d \in Objects
  PROVE  Keeps(d, [SendDialogRequests(d) EXCEPT !.posted = FALSE])
<1> DEFINE held == { h \in d.pending : PostponeEntryRequest(d.state[h]) }
           state == [h \in Chats |->
                       IF h \in held THEN [d.state[h] EXCEPT !.postponedRequestEntry = TRUE]
                       ELSE d.state[h]]
           q == Entries(d.pending \ held, d.lastEntries + 1)
           live == d.live \cup {q}
           asked == d.asked \cup d.pending
           last == d.lastEntries + 1
           e == [d EXCEPT !.state = state, !.lastEntries = last, !.live = live,
                          !.asked = asked, !.pending = {}]
           v == [SendDialogRequests(d) EXCEPT !.posted = FALSE]
<1>1. CASE d.pending = {}
  <2>1. v = [d EXCEPT !.posted = FALSE]
    BY <1>1 DEF SendDialogRequests
  <2> HIDE DEF v
  <2>2. /\ v \in Objects
        /\ v.state = d.state /\ v.live = d.live /\ v.lastId = d.lastId
        /\ v.armed = d.armed /\ v.timer = d.timer /\ v.pending = d.pending
        /\ v.asked = d.asked /\ v.sendReadMessages = d.sendReadMessages
    BY <2>1 DEF Objects
  <2> QED
    BY <2>2, KeptFrame, StrictFrame, ArmedFrame DEF Keeps, v
<1>2. CASE d.pending # {}
  <2>1. /\ d.pending \in SUBSET Chats /\ d.asked \in SUBSET Chats /\ d.lastEntries \in Nat
        /\ d.state \in [Chats -> States]
        /\ d.live \in SUBSET [of : SUBSET Chats, sent : Requests]
    BY DEF Objects
  <2>2. q.sent.type = "Entries" /\ q \in [of : SUBSET Chats, sent : Requests]
    <3>1. Sent(last, "Entries", 0, FALSE) \in Requests /\ Sent(last, "Entries", 0, FALSE).type = "Entries"
      BY <2>1 DEF Sent, Requests
    <3>2. d.pending \ held \in SUBSET Chats
      BY <2>1
    <3> HIDE DEF held
    <3> QED
      BY <3>1, <3>2 DEF Entries
  <2> HIDE DEF q
  <2>3. ASSUME NEW h \in Chats
        PROVE  /\ state[h] \in States
               /\ state[h].sent = d.state[h].sent /\ state[h].postponed = d.state[h].postponed
               /\ state[h].willReadTill = d.state[h].willReadTill
               /\ state[h].sentReadTill = d.state[h].sentReadTill
               /\ state[h].sentReadDone = d.state[h].sentReadDone
               /\ state[h].postponedRequestEntry =>
                    d.state[h].postponedRequestEntry \/ h \in d.pending
    <3> DEFINE s == d.state[h]
               t == [s EXCEPT !.postponedRequestEntry = TRUE]
    <3>1. s \in States
      BY <2>1
    <3>2. state[h] = IF h \in held THEN t ELSE s
      OBVIOUS
    <3>3. h \in held => h \in d.pending
      OBVIOUS
    <3> HIDE DEF s, held, state
    <3>4. /\ t \in States /\ t.sent = s.sent /\ t.postponed = s.postponed
          /\ t.willReadTill = s.willReadTill /\ t.sentReadTill = s.sentReadTill
          /\ t.sentReadDone = s.sentReadDone
      BY <3>1 DEF States
    <3> HIDE DEF t
    <3> QED
      BY <3>1, <3>2, <3>3, <3>4 DEF s
  <2>4. /\ state \in [Chats -> States] /\ live \in SUBSET [of : SUBSET Chats, sent : Requests]
        /\ asked \in SUBSET Chats /\ last \in Nat
    BY <2>1, <2>2, <2>3
  <2>5. v = [e EXCEPT !.posted = FALSE]
    BY <1>2 DEF SendDialogRequests, q
  <2> HIDE DEF state, live, asked, last, v
  <2>6. /\ v \in Objects
        /\ v.state = state /\ v.live = live /\ v.lastId = d.lastId
        /\ v.armed = d.armed /\ v.timer = d.timer /\ v.pending = {}
        /\ v.asked = asked /\ v.sendReadMessages = d.sendReadMessages
    BY <2>4, <2>5 DEF Objects
  <2>7. ASSUME NEW h, NEW r, Live(h, r) \in live, r.type # "Entries" PROVE Live(h, r) \in d.live
    <3>1. Live(h, r).sent = r
      BY DEF Live
    <3> QED
      BY <3>1, <2>2, <2>7 DEF live
  <2>8. ASSUME NEW xs, Kept(d, xs) PROVE Kept(v, xs)
    <3>1. EntriesOK(v)
      BY <2>3, <2>6, <2>8 DEF Kept, EntriesOK, asked
    <3>2. \A g \in Chats : \A r : IsKnown(v, g, r) => IsKnown(d, g, r)
      BY <2>3, <2>6, <2>7 DEF IsKnown
    <3>3. \A x \in v.live : x.sent.type = "Entries" \/ \E g \in Chats : x = Live(g, x.sent)
      BY <2>2, <2>6, <2>8 DEF Kept, IdsOK, live
    <3>4. IdsOK(v)
      BY <3>2, <3>3, <2>6, <2>8, IdsLess DEF Kept
    <3>5. \A h \in Chats : \A till : ReadIsOut(d, h, till) => ReadIsOut(v, h, till)
      BY <2>6 DEF ReadIsOut, live
    <3>6. Watched(v, xs)
      BY <3>5, <2>3, <2>6, <2>8 DEF Kept, Watched, asked
    <3> QED
      BY <3>1, <3>4, <3>6 DEF Kept
  <2>9. ASSUME NEW marks, Strict(d, marks) PROVE Strict(v, marks)
    <3>1. PagesOK(v)
      BY <2>3, <2>6, <2>7, <2>9 DEF Strict, PagesOK, PostponeHistoryRequest, Pages
    <3>2. MarksOK(v, marks)
      BY <2>3, <2>6, <2>7, <2>9 DEF Strict, MarksOK
    <3> QED
      BY <3>1, <3>2, <2>6, <2>9 DEF Strict
  <2>10. ArmedOK(d) => ArmedOK(v)
    BY <2>3, <2>6, ArmedFrame
  <2> QED
    BY <2>6, <2>8, <2>9, <2>10 DEF Keeps, v
<1> QED
  BY <1>1, <1>2

(***************************************************************************)
(* Reads that are over.                                                    *)
(***************************************************************************)
\* The last read sent is out, or it is the one of h till "till" that is just
\* over, or the entry of the chat is on its way.
WatchedBut(d, h, till) ==
  \A g \in Chats : d.state[g].sentReadTill # 0 =>
    \/ ReadIsOut(d, g, d.state[g].sentReadTill)
    \/ d.state[g].sentReadDone /\ g \in d.pending \cup d.asked
    \/ g = h /\ d.state[g].sentReadTill = till

\* w is d with the last read of h done, and forgotten when "sent" is 0.
DoneIs(d, w, h, sent) ==
  /\ w \in Objects
  /\ w.armed = d.armed /\ w.timer = d.timer /\ w.live = d.live /\ w.lastId = d.lastId
  /\ w.pending = d.pending /\ w.asked = d.asked /\ w.callbacks = d.callbacks
  /\ w.sendReadMessages = d.sendReadMessages
  /\ \A g \in Chats \ {h} : w.state[g] = d.state[g]
  /\ w.state[h].sent = d.state[h].sent /\ w.state[h].postponed = d.state[h].postponed
  /\ w.state[h].willReadTill = d.state[h].willReadTill
  /\ w.state[h].sentReadTill = sent
  /\ w.state[h].postponedRequestEntry = d.state[h].postponedRequestEntry

\* The flag is set, or the read forgotten.
LEMMA DoneSet ==
  ASSUME NEW d \in Objects, NEW h \in Chats
  PROVE  /\ LET w == [d EXCEPT !.state[h].sentReadDone = TRUE]
            IN  /\ DoneIs(d, w, h, d.state[h].sentReadTill)
                /\ w.state[h].sentReadDone = TRUE
         /\ LET w == [d EXCEPT !.state[h].sentReadDone = TRUE, !.state[h].sentReadTill = 0]
            IN  DoneIs(d, w, h, 0)
<1> DEFINE s == d.state[h]
           t == [s EXCEPT !.sentReadDone = TRUE]
           u == [t EXCEPT !.sentReadTill = 0]
           one == [d.state EXCEPT ![h] = t]
           two == [d.state EXCEPT ![h] = u]
<1>1. s \in States /\ d.state \in [Chats -> States]
  BY DEF Objects
<1>2. /\ [d EXCEPT !.state[h].sentReadDone = TRUE] = [d EXCEPT !.state = one]
      /\ [d EXCEPT !.state[h].sentReadDone = TRUE, !.state[h].sentReadTill = 0]
           = [d EXCEPT !.state = two]
  BY <1>1 DEF Objects
<1> HIDE DEF s
<1>3. /\ t \in States /\ t.sent = s.sent /\ t.postponed = s.postponed
      /\ t.willReadTill = s.willReadTill /\ t.sentReadTill = s.sentReadTill
      /\ t.postponedRequestEntry = s.postponedRequestEntry /\ t.sentReadDone = TRUE
  BY <1>1 DEF States
<1> HIDE DEF t
<1>4. /\ u \in States /\ u.sent = s.sent /\ u.postponed = s.postponed
      /\ u.willReadTill = s.willReadTill /\ u.sentReadTill = 0
      /\ u.postponedRequestEntry = s.postponedRequestEntry
  BY <1>3 DEF States
<1> HIDE DEF u
<1>5. /\ one \in [Chats -> States] /\ one[h] = t /\ \A g \in Chats \ {h} : one[g] = d.state[g]
      /\ two \in [Chats -> States] /\ two[h] = u /\ \A g \in Chats \ {h} : two[g] = d.state[g]
  BY <1>1, <1>3, <1>4
<1> HIDE DEF one, two
<1> DEFINE w == [d EXCEPT !.state = one]
           v == [d EXCEPT !.state = two]
<1>6. /\ w \in Objects /\ w.state = one
      /\ w.armed = d.armed /\ w.timer = d.timer /\ w.live = d.live /\ w.lastId = d.lastId
      /\ w.pending = d.pending /\ w.asked = d.asked /\ w.callbacks = d.callbacks
      /\ w.sendReadMessages = d.sendReadMessages
  BY <1>5 DEF Objects
<1>7. /\ v \in Objects /\ v.state = two
      /\ v.armed = d.armed /\ v.timer = d.timer /\ v.live = d.live /\ v.lastId = d.lastId
      /\ v.pending = d.pending /\ v.asked = d.asked /\ v.callbacks = d.callbacks
      /\ v.sendReadMessages = d.sendReadMessages
  BY <1>5 DEF Objects
<1> HIDE DEF w, v
<1>8. DoneIs(d, w, h, d.state[h].sentReadTill) /\ w.state[h].sentReadDone = TRUE
  BY <1>3, <1>5, <1>6 DEF DoneIs, s
<1>9. DoneIs(d, v, h, 0)
  BY <1>4, <1>5, <1>7 DEF DoneIs, s
<1> QED
  BY <1>2, <1>8, <1>9 DEF w, v

\* A read that is forgotten or done changes who watches it, and nothing else.
LEMMA DoneKept ==
  ASSUME NEW d \in Objects, NEW h \in Chats, NEW sent \in {0, d.state[h].sentReadTill},
         NEW w, DoneIs(d, w, h, sent), EntriesOK(d), IdsOK(d)
  PROVE  /\ EntriesOK(w) /\ IdsOK(w)
         /\ ArmedOK(d) => ArmedOK(w)
         /\ OnlyReadsWait(d) => OnlyReadsWait(w)
<1>1. EntriesOK(w)
  BY DEF EntriesOK, DoneIs
<1>2. \A g \in Chats : \A r : IsKnown(w, g, r) => IsKnown(d, g, r)
  BY DEF IsKnown, DoneIs
<1>3. IdsOK(w)
  BY <1>2, IdsLess DEF DoneIs, IdsOK
<1>4. \A g \in Chats : w.state[g].willReadTill = d.state[g].willReadTill
  BY DEF DoneIs
<1> QED
  BY <1>1, <1>3, <1>4, ArmedFrame DEF DoneIs

\* A read that is forgotten when the chat shows it as read: none that is out
\* goes past what is shown.
LEMMA DoneStrict ==
  ASSUME NEW d \in Objects, NEW h \in Chats, NEW sent \in {0, d.state[h].sentReadTill},
         NEW w, DoneIs(d, w, h, sent),
         NEW marks \in [Chats -> Nat], Strict(d, marks),
         sent = 0 => d.state[h].sentReadTill <= marks[h]
  PROVE  Strict(w, marks)
<1>1. PagesOK(w)
  BY DEF Strict, PagesOK, DoneIs, PostponeHistoryRequest, Pages
<1>2. ASSUME NEW g \in Chats, NEW r \in Requests,
             Live(g, r) \in w.live, r.type = "ReadInbox", r.finishes
      PROVE  /\ w.state[g].willReadTill # 0 => r.till <= w.state[g].willReadTill
             /\ r.till <= IF w.state[g].sentReadTill # 0
                          THEN w.state[g].sentReadTill ELSE marks[g]
  <2>1. /\ d.state[g].willReadTill # 0 => r.till <= d.state[g].willReadTill
        /\ r.till <= IF d.state[g].sentReadTill # 0
                     THEN d.state[g].sentReadTill ELSE marks[g]
    BY <1>2 DEF Strict, MarksOK, DoneIs
  <2>2. /\ d.state[g].sentReadTill \in Nat /\ r.till \in Nat /\ marks[g] \in Nat
    BY DEF Objects, States, Requests
  <2>3. CASE g = h
    <3>1. /\ w.state[h].sentReadTill = sent
          /\ w.state[h].willReadTill = d.state[h].willReadTill
      BY DEF DoneIs
    <3>2. CASE sent = 0
      BY <2>1, <2>2, <2>3, <3>1, <3>2
    <3>3. CASE sent = d.state[h].sentReadTill
      BY <2>1, <2>3, <3>1, <3>3
    <3> QED
      BY <3>2, <3>3
  <2>4. CASE g # h
    BY <2>1, <2>4 DEF DoneIs
  <2> QED
    BY <2>3, <2>4
<1>3. MarksOK(w, marks)
  BY <1>2 DEF MarksOK
<1> QED
  BY <1>1, <1>3 DEF Strict, DoneIs

\* What the end of a read of h leaves.
ReadIsDone(d, c, h, w) ==
  /\ w \in Objects /\ Kept(w, {})
  /\ w.armed = d.armed /\ w.live = d.live /\ w.lastId = d.lastId
  /\ w.sendReadMessages = d.sendReadMessages
  /\ ArmedOK(d) => ArmedOK(w)
  /\ \A marks \in [Chats -> Nat] : marks[h] = c.read /\ Strict(d, marks) => Strict(w, marks)

\* The last read sent is over: it is forgotten, or its chat's entry is asked
\* for.
LEMMA ReadDoneOutcome ==
  ASSUME NEW d \in Objects, NEW c \in ChatStates, NEW h \in Chats, NEW till \in Nat,
         EntriesOK(d), IdsOK(d), WatchedBut(d, h, till)
  PROVE  ReadIsDone(d, c, h, ReadDone(d, c, h, till))
<1> DEFINE w == [d EXCEPT !.state[h].sentReadDone = TRUE]
           e == RequestDialogEntry(w, h, FALSE)
           f == [d EXCEPT !.state[h].sentReadDone = TRUE, !.state[h].sentReadTill = 0]
           sent == d.state[h].sentReadTill
<1>0. c.read \in Nat /\ sent \in Nat
  BY DEF ChatStates, Objects, States
<1>1. CASE sent # till
  <2>1. ReadDone(d, c, h, till) = d
    BY <1>1 DEF ReadDone
  <2>2. Watched(d, {})
    BY <1>1 DEF Watched, WatchedBut
  <2> QED
    BY <2>1, <2>2 DEF ReadIsDone, Kept
<1>2. CASE sent = till /\ c.read < till
  <2>1. ReadDone(d, c, h, till) = e
    BY <1>2 DEF ReadDone
  <2>2. DoneIs(d, w, h, sent) /\ w.state[h].sentReadDone = TRUE
    BY DoneSet
  <2> HIDE DEF w
  <2>3. /\ EntriesOK(w) /\ IdsOK(w) /\ (ArmedOK(d) => ArmedOK(w))
    BY <2>2, DoneKept
  <2>4. w \in Objects
    BY <2>2 DEF DoneIs
  <2>5. /\ e \in Objects /\ e.state = w.state /\ e.live = w.live /\ e.lastId = w.lastId
        /\ e.armed = w.armed /\ e.timer = w.timer
        /\ e.asked = w.asked /\ e.sendReadMessages = w.sendReadMessages
        /\ h \in e.pending \cup e.asked
        /\ w.pending \subseteq e.pending
    BY <2>4, RequestEntryOutcome
  <2>6. Kept(w, {h})
    <3>1. \A g \in Chats : \A x : ReadIsOut(d, g, x) => ReadIsOut(w, g, x)
      BY <2>2 DEF ReadIsOut, DoneIs
    <3>2. ASSUME NEW g \in Chats, w.state[g].sentReadTill # 0
          PROVE  \/ ReadIsOut(w, g, w.state[g].sentReadTill)
                 \/ w.state[g].sentReadDone /\ g \in w.pending \cup w.asked \cup {h}
      <4>1. CASE g = h
        BY <4>1, <2>2
      <4>2. CASE g # h
        BY <4>2, <3>1, <3>2, <2>2 DEF WatchedBut, DoneIs
      <4> QED
        BY <4>1, <4>2
    <3> QED
      BY <2>3, <3>2 DEF Kept, Watched
  <2>7. Keeps(w, e)
    BY <2>4, RequestEntryKeeps
  <2> HIDE DEF e
  <2>8. Kept(e, {h})
    BY <2>6, <2>7 DEF Keeps
  <2>9. Kept(e, {})
    BY <2>5, <2>8 DEF Kept, Watched
  <2>10. \A marks \in [Chats -> Nat] : Strict(d, marks) => Strict(e, marks)
    <3>1. \A marks \in [Chats -> Nat] : Strict(d, marks) => Strict(w, marks)
      <4> SUFFICES ASSUME NEW marks \in [Chats -> Nat], Strict(d, marks) PROVE Strict(w, marks)
        OBVIOUS
      <4>1. CASE sent = 0
        <5>1. sent <= marks[h]
          BY <4>1
        <5> QED
          BY <5>1, <2>2, DoneStrict
      <4>2. CASE sent # 0
        BY <4>2, <2>2, DoneStrict
      <4> QED
        BY <4>1, <4>2
    <3> QED
      BY <3>1, <2>7 DEF Keeps
  <2> QED
    BY <2>1, <2>2, <2>3, <2>5, <2>7, <2>9, <2>10 DEF ReadIsDone, DoneIs, Keeps
<1>3. CASE sent = till /\ ~(c.read < till)
  <2>1. ReadDone(d, c, h, till) = f
    BY <1>3 DEF ReadDone
  <2>2. DoneIs(d, f, h, 0)
    BY DoneSet
  <2> HIDE DEF f
  <2>3. /\ EntriesOK(f) /\ IdsOK(f) /\ (ArmedOK(d) => ArmedOK(f))
    BY <2>2, DoneKept
  <2>4. \A g \in Chats : \A x : ReadIsOut(d, g, x) => ReadIsOut(f, g, x)
    BY <2>2 DEF ReadIsOut, DoneIs
  <2>5. Watched(f, {})
    BY <2>2, <2>4 DEF Watched, WatchedBut, DoneIs
  <2>6. ASSUME NEW marks \in [Chats -> Nat], marks[h] = c.read, Strict(d, marks)
        PROVE  Strict(f, marks)
    <3>1. sent <= marks[h]
      BY <1>0, <1>3, <2>6
    <3> QED
      BY <3>1, <2>2, <2>6, DoneStrict
  <2> QED
    BY <2>1, <2>2, <2>3, <2>5, <2>6 DEF ReadIsDone, DoneIs, Kept
<1> QED
  BY <1>1, <1>2, <1>3

(***************************************************************************)
(* Answers.                                                                *)
(***************************************************************************)
\* w is d without the live request q.
Without(d, w, q) ==
  /\ w \in Objects
  /\ w.armed = d.armed /\ w.timer = d.timer /\ w.lastId = d.lastId
  /\ w.pending = d.pending /\ w.asked = d.asked /\ w.state = d.state
  /\ w.sendReadMessages = d.sendReadMessages
  /\ w.live = d.live \ {q}

\* A request that was answered leaves the API.
LEMMA AnswerTakesOut ==
  ASSUME NEW d \in Objects, NEW q
  PROVE  Without(d, [d EXCEPT !.live = @ \ {q}], q)
<1> DEFINE live == d.live \ {q}
           w == [d EXCEPT !.live = live]
<1>1. live \in SUBSET [of : SUBSET Chats, sent : Requests]
  BY DEF Objects
<1> HIDE DEF live
<1>2. /\ w \in Objects /\ w.live = live
      /\ w.armed = d.armed /\ w.timer = d.timer /\ w.lastId = d.lastId
      /\ w.pending = d.pending /\ w.asked = d.asked /\ w.state = d.state
      /\ w.sendReadMessages = d.sendReadMessages
  BY <1>1 DEF Objects
<1> QED
  BY <1>2 DEF live, Without

\* What an answer leaves, but for who watches the last read sent.
LEMMA WithoutKept ==
  ASSUME NEW d \in Objects, NEW q, NEW w, Without(d, w, q)
  PROVE  /\ EntriesOK(d) => EntriesOK(w)
         /\ IdsOK(d) => IdsOK(w)
         /\ ArmedOK(d) => ArmedOK(w)
         /\ \A marks : Strict(d, marks) => Strict(w, marks)
<1>1. EntriesOK(d) => EntriesOK(w)
  BY DEF EntriesOK, Without
<1>2. IdsOK(d) => IdsOK(w)
  <2>1. \A h \in Chats, r \in Requests : IsKnown(w, h, r) => IsKnown(d, h, r)
    BY DEF IsKnown, Without
  <2> QED
    BY <2>1, IdsLess DEF Without, IdsOK
<1>3. ArmedOK(d) => ArmedOK(w)
  BY ArmedFrame DEF Without
<1>4. \A marks : Strict(d, marks) => Strict(w, marks)
  BY DEF Strict, PagesOK, MarksOK, Without
<1> QED
  BY <1>1, <1>2, <1>3, <1>4

\* The answer to anything but a read of the user keeps the invariant.
LEMMA WithoutKeeps ==
  ASSUME NEW d \in Objects, NEW q, NEW w, Without(d, w, q),
         ~(q.sent.type = "ReadInbox" /\ q.sent.finishes)
  PROVE  Keeps(d, w)
<1>1. \A h \in Chats : \A x : ReadIsOut(d, h, x) => ReadIsOut(w, h, x)
  <2> SUFFICES ASSUME NEW h \in Chats, NEW x, NEW r \in Requests,
                      Live(h, r) \in d.live, r.type = "ReadInbox", r.finishes
               PROVE  Live(h, r) \in w.live
    BY DEF ReadIsOut
  <2>1. Live(h, r).sent = r
    BY DEF Live
  <2> QED
    BY <2>1 DEF Without
<1>2. \A xs : Watched(d, xs) => Watched(w, xs)
  BY <1>1 DEF Watched, Without
<1> QED
  BY <1>2, WithoutKept DEF Keeps, Kept, Without

\* No read of the user is out in v that was not in d.
NoNewReads(d, v) ==
  \A q \in v.live : q.sent.type = "ReadInbox" /\ q.sent.finishes => q \in d.live

\* What waits and goes on is a page.
LEMMA FinishAddsNoReads ==
  ASSUME NEW d \in Objects, NEW h \in Chats, NEW id \in Nat
  PROVE  NoNewReads(d, FinishSentRequest(d, h, id))
<1> DEFINE v == FinishSentRequest(d, h, id)
<1>1. v \in Objects /\ Ends(d, v, h, id)
  BY FinishOutcome
<1> HIDE DEF v
<1>2. /\ \A g \in Chats, x \in Requests : Live(g, x) \in v.live =>
           Live(g, x) \in d.live \/ (g = h /\ x.type = "History" /\ x \in v.state[h].sent)
      /\ \A q \in v.live : q \in d.live \/ \E x \in Requests : q = Live(h, x)
  BY <1>1, EndsKnown
<1>3. ASSUME NEW q \in v.live, q.sent.type = "ReadInbox", q \notin d.live PROVE FALSE
  <2>1. PICK x \in Requests : q = Live(h, x)
    BY <1>2, <1>3
  <2>2. q.sent = x
    BY <2>1 DEF Live
  <2>3. x.type = "History"
    BY <2>1, <1>2, <1>3
  <2> QED
    BY <2>2, <2>3, <1>3
<1> QED
  BY <1>3 DEF NoNewReads, v

\* e and f are w, without the answered read r of h, after ReadDone() and after
\* the reads that are due were sent.
LEMMA ReadIsOver ==
  ASSUME NEW d \in Objects, Kept(d, {}), ArmedOK(d), NEW c \in ChatStates,
         NEW h \in Chats, NEW r \in Requests, Live(h, r) \in d.live,
         r.type = "ReadInbox", NEW due \in 0 .. Len(d.armed),
         NEW w, Without(d, w, Live(h, r)),
         NEW e, e = ReadDone(w, c, h, r.till),
         NEW f, f = SendReadRequests(e, due)
  PROVE  /\ ReadIsDone(w, c, h, e) /\ ArmedOK(e)
         /\ Proceeds(e, f) /\ ArmedOK(f) /\ NoReadHas(f, h, r.id)
<1>0. r.till \in Nat /\ r.id \in Nat /\ d.lastId[h] \in Nat
  BY DEF Requests, Objects
<1>1. EntriesOK(w) /\ IdsOK(w) /\ ArmedOK(w)
  BY WithoutKept DEF Kept
<1>2. /\ w \in Objects /\ w.armed = d.armed /\ w.lastId = d.lastId
      /\ w.pending = d.pending /\ w.asked = d.asked /\ w.state = d.state
      /\ w.live = d.live \ {Live(h, r)}
  BY DEF Without
<1>3. WatchedBut(w, h, r.till)
  <2> SUFFICES ASSUME NEW g \in Chats, w.state[g].sentReadTill # 0
               PROVE  \/ ReadIsOut(w, g, w.state[g].sentReadTill)
                      \/ w.state[g].sentReadDone /\ g \in w.pending \cup w.asked
                      \/ g = h /\ w.state[g].sentReadTill = r.till
    BY DEF WatchedBut
  <2>1. \/ ReadIsOut(d, g, w.state[g].sentReadTill)
        \/ w.state[g].sentReadDone /\ g \in w.pending \cup w.asked
    BY <1>2 DEF Kept, Watched
  <2>2. CASE ReadIsOut(d, g, w.state[g].sentReadTill)
    <3>1. PICK x \in Requests : /\ Live(g, x) \in d.live /\ x.type = "ReadInbox"
                                /\ x.finishes /\ x.till = w.state[g].sentReadTill
      BY <2>2 DEF ReadIsOut
    <3>2. CASE Live(g, x) = Live(h, r)
      BY <3>1, <3>2, LiveIsOne
    <3>3. CASE Live(g, x) # Live(h, r)
      BY <3>1, <3>3, <1>2 DEF ReadIsOut
    <3> QED
      BY <3>2, <3>3
  <2> QED
    BY <2>1, <2>2
<1>4. ReadIsDone(w, c, h, e)
  BY <1>0, <1>1, <1>2, <1>3, ReadDoneOutcome
<1>5. e \in Objects /\ e.armed = d.armed /\ e.live = w.live /\ e.lastId = d.lastId /\ ArmedOK(e)
  BY <1>1, <1>2, <1>4 DEF ReadIsDone
<1>6. Proceeds(e, f) /\ ArmedOK(f)
  BY <1>5, SendReadRequestsOutcome DEF ArmedOK
<1>7. \A g \in Chats, x \in Requests :
        Live(g, x) \in f.live => Live(g, x) \in e.live \/ x.id = e.lastId[g] + 1
  BY <1>6 DEF Proceeds, Moves
<1>8. NoReadHas(f, h, r.id)
  <2> SUFFICES ASSUME NEW x \in Requests, Live(h, x) \in f.live, x.type = "ReadInbox",
                      x.id = r.id
               PROVE  FALSE
    BY DEF NoReadHas
  <2>1. IsKnown(d, h, r) /\ r.id <= d.lastId[h]
    BY DEF IsKnown, Kept, IdsOK
  <2>2. Live(h, x) \in e.live
    BY <2>1, <1>0, <1>5, <1>7
  <2>3. Live(h, x) \in d.live /\ Live(h, x) # Live(h, r)
    BY <2>2, <1>2, <1>5
  <2>4. IsKnown(d, h, x)
    BY <2>3 DEF IsKnown
  <2>5. x = r
    BY <2>1, <2>4 DEF Kept, IdsOK
  <2> QED
    BY <2>3, <2>5
<1> QED
  BY <1>4, <1>5, <1>6, <1>8

\* sendReadRequest()'s "finished".
LEMMA FinishedOutcome ==
  ASSUME NEW d \in Objects, Kept(d, {}), ArmedOK(d), NEW c \in ChatStates,
         NEW h \in Chats, NEW r \in Requests, Live(h, r) \in d.live,
         r.type = "ReadInbox", NEW due \in 0 .. Len(d.armed),
         NEW w, Without(d, w, Live(h, r))
  PROVE  LET v == Finished(w, c, h, r, due)
         IN  /\ v \in Objects /\ Kept(v, {}) /\ ArmedOK(v)
             /\ \A marks \in [Chats -> Nat] :
                  marks[h] = c.read /\ Strict(d, marks) => Strict(v, marks)
             /\ ~d.sendReadMessages => NoNewReads(d, v)
<1> DEFINE e == ReadDone(w, c, h, r.till)
           f == SendReadRequests(e, due)
           v == FinishSentRequest(f, h, r.id)
<1>0. r.id \in Nat
  BY DEF Requests
<1>1. \A marks : Strict(d, marks) => Strict(w, marks)
  BY WithoutKept
<1>2. w.live \subseteq d.live
  BY DEF Without
<1>3. Finished(w, c, h, r, due) = v
  BY DEF Finished
<1>4. /\ ReadIsDone(w, c, h, e) /\ ArmedOK(e)
      /\ Proceeds(e, f) /\ ArmedOK(f) /\ NoReadHas(f, h, r.id)
  BY ReadIsOver
<1> HIDE DEF e, f
<1>5. /\ e \in Objects /\ Kept(e, {}) /\ e.live = w.live
      /\ e.sendReadMessages = d.sendReadMessages
      /\ \A marks \in [Chats -> Nat] : marks[h] = c.read /\ Strict(w, marks) => Strict(e, marks)
  BY <1>4 DEF ReadIsDone, Without
<1>6. /\ f \in Objects /\ Kept(f, {})
      /\ \A marks : Strict(e, marks) => Strict(f, marks)
      /\ ~e.sendReadMessages => f.live = e.live
  BY <1>4, <1>5 DEF Proceeds, Moves
<1>7. Keeps(f, v)
  BY <1>0, <1>4, <1>6, FinishKeeps
<1>8. NoNewReads(f, v)
  BY <1>0, <1>6, FinishAddsNoReads
<1> HIDE DEF v
<1>9. ~d.sendReadMessages => NoNewReads(d, v)
  BY <1>2, <1>5, <1>6, <1>8 DEF NoNewReads
<1> QED
  BY <1>1, <1>3, <1>4, <1>5, <1>6, <1>7, <1>9 DEF Keeps

\* A request that is known and is not a read: its id is not that of a read.
LEMMA KnownHasNoRead ==
  ASSUME NEW d \in Objects, IdsOK(d), NEW h \in Chats, NEW r \in Requests,
         IsKnown(d, h, r), r.type # "ReadInbox",
         NEW u, \A x \in Requests : Live(h, x) \in u.live /\ x.type = "ReadInbox" =>
                                      Live(h, x) \in d.live
  PROVE  NoReadHas(u, h, r.id)
<1> SUFFICES ASSUME NEW x \in Requests, Live(h, x) \in u.live, x.type = "ReadInbox",
                    x.id = r.id
             PROVE  FALSE
  BY DEF NoReadHas
<1>1. IsKnown(d, h, x)
  BY DEF IsKnown
<1>2. x = r
  BY <1>1 DEF IdsOK
<1> QED
  BY <1>2

\* One thing kept after another.
LEMMA KeepsOn ==
  ASSUME NEW d, NEW w, NEW v, Keeps(d, w), Keeps(w, v)
  PROVE  Keeps(d, v)
BY DEF Keeps

\* A request that is sent adds none to the API but itself.
LEMMA SendRequestLive ==
  ASSUME NEW d \in Objects, NEW h \in Chats,
         NEW type \in {"History", "Delete", "Send", "ReadInbox"},
         NEW till \in Nat, NEW finishes \in BOOLEAN,
         type = "History" => till = 0 /\ finishes = TRUE
  PROVE  LET v == SendRequest(d, h, type, till, finishes)
             r == Sent(d.lastId[h] + 1, type, till, finishes)
         IN  /\ \A q \in v.live : q \in d.live \/ q = Live(h, r)
             /\ \A x \in Requests : Live(h, x) \in v.live => Live(h, x) \in d.live \/ x = r
<1> DEFINE v == SendRequest(d, h, type, till, finishes)
           r == Sent(d.lastId[h] + 1, type, till, finishes)
<1>1. v \in Objects /\ r \in Requests /\ Sends(d, v, h, r)
  BY SendRequestOutcome
<1>2. /\ r.id = d.lastId[h] + 1 /\ r.type = type /\ r.finishes = finishes
      /\ r.type = "History" => r = Sent(r.id, "History", 0, TRUE)
  BY DEF Sent
<1> HIDE DEF v, r
<1>3. /\ \A g \in Chats, x \in Requests : Live(g, x) \in v.live =>
           Live(g, x) \in d.live \/ (g = h /\ x = r)
      /\ \A g \in Chats, x \in Requests : Live(g, x) \in d.live /\ x.type # "History" =>
           Live(g, x) \in v.live
      /\ \A q \in v.live : q \in d.live \/ q = Live(h, r)
      /\ IdsOK(d) => \A g \in Chats, x \in Requests :
           IsKnown(v, g, x) => IsKnown(d, g, x) \/ (g = h /\ x = r)
  BY <1>1, <1>2, SendsKnown
<1> QED
  BY <1>3 DEF v, r

\* The answer to a page, a message or a deletion.
LEMMA AnsweredKeeps ==
  ASSUME NEW d \in Objects, IdsOK(d), NEW h \in Chats, NEW r \in Requests,
         Live(h, r) \in d.live, r.type \in {"History", "Delete", "Send"},
         NEW w, Without(d, w, Live(h, r))
  PROVE  /\ Keeps(d, FinishSentRequest(w, h, r.id))
         /\ Keeps(d, FinishSentRequest(SendRequest(w, h, "Delete", 0, TRUE), h, r.id))
<1> DEFINE u == SendRequest(w, h, "Delete", 0, TRUE)
           t == Sent(w.lastId[h] + 1, "Delete", 0, TRUE)
<1>1. IsKnown(d, h, r) /\ r.type # "ReadInbox" /\ r.id \in Nat
  BY DEF IsKnown, Requests
<1>2. Keeps(d, w) /\ w \in Objects /\ w.live \subseteq d.live
  <2>1. Live(h, r).sent = r
    BY DEF Live
  <2> QED
    BY <2>1, WithoutKeeps DEF Without
<1>3. u \in Objects /\ t \in Requests /\ Sends(w, u, h, t)
  BY <1>2, SendRequestOutcome
<1>4. Keeps(w, u)
  BY <1>2, SendRequestKeeps
<1>5. t.id = w.lastId[h] + 1 /\ t.type = "Delete"
  BY DEF Sent
<1> HIDE DEF u, t
<1>6. \A x \in Requests : Live(h, x) \in u.live => Live(h, x) \in w.live \/ x = t
  BY <1>2, SendRequestLive DEF u, t
<1>7. NoReadHas(w, h, r.id)
  BY <1>1, <1>2, KnownHasNoRead
<1>8. NoReadHas(u, h, r.id)
  <2>1. \A x \in Requests : Live(h, x) \in u.live /\ x.type = "ReadInbox" => Live(h, x) \in d.live
    BY <1>2, <1>5, <1>6
  <2> QED
    BY <2>1, <1>1, KnownHasNoRead
<1>9. Keeps(w, FinishSentRequest(w, h, r.id))
  BY <1>1, <1>2, <1>7, FinishKeeps
<1>10. Keeps(u, FinishSentRequest(u, h, r.id))
  BY <1>1, <1>3, <1>8, FinishKeeps
<1>11. Keeps(d, FinishSentRequest(w, h, r.id))
  BY <1>2, <1>9, KeepsOn
<1>12. Keeps(d, FinishSentRequest(u, h, r.id))
  BY <1>2, <1>4, <1>10, KeepsOn
<1> QED
  BY <1>11, <1>12 DEF u

\* A page that is given up.
LEMMA CancelKeeps ==
  ASSUME NEW d \in Objects, IdsOK(d), NEW h \in Chats, NEW id \in Nat,
         id \in d.state[h].postponed \cup { p.id : p \in Pages(d.state[h]) }
  PROVE  Keeps(d, FinishSentRequest([d EXCEPT !.state[h].postponed = @ \ {id}], h, id))
<1> DEFINE s == d.state[h]
           postponed == s.postponed \ {id}
           t == [s EXCEPT !.postponed = postponed]
           state == [d.state EXCEPT ![h] = t]
           w == [d EXCEPT !.state = state]
<1>1. s \in States /\ d.state \in [Chats -> States]
  BY DEF Objects
<1>2. [d EXCEPT !.state[h].postponed = @ \ {id}] = w
  BY <1>1 DEF Objects
<1> HIDE DEF s
<1>3. postponed \in SUBSET Nat /\ postponed \subseteq s.postponed
  BY <1>1 DEF States
<1> HIDE DEF postponed
<1>4. /\ t \in States /\ t.sent = s.sent /\ t.postponed = postponed
      /\ t.willReadTill = s.willReadTill /\ t.sentReadTill = s.sentReadTill
      /\ t.sentReadDone = s.sentReadDone
      /\ t.postponedRequestEntry = s.postponedRequestEntry
  BY <1>1, <1>3 DEF States
<1> HIDE DEF t
<1>5. state \in [Chats -> States] /\ state[h] = t /\ \A g \in Chats \ {h} : state[g] = d.state[g]
  BY <1>1, <1>4
<1> HIDE DEF state
<1>6. /\ w \in Objects /\ w.state = state
      /\ w.armed = d.armed /\ w.timer = d.timer /\ w.live = d.live /\ w.lastId = d.lastId
      /\ w.pending = d.pending /\ w.asked = d.asked
      /\ w.sendReadMessages = d.sendReadMessages
  BY <1>5 DEF Objects
<1> HIDE DEF w
<1>7. \A g \in Chats :
        /\ w.state[g].sent = d.state[g].sent
        /\ w.state[g].postponed \subseteq d.state[g].postponed
        /\ w.state[g].willReadTill = d.state[g].willReadTill
        /\ w.state[g].sentReadTill = d.state[g].sentReadTill
        /\ w.state[g].sentReadDone = d.state[g].sentReadDone
        /\ w.state[g].postponedRequestEntry = d.state[g].postponedRequestEntry
  BY <1>3, <1>4, <1>5, <1>6 DEF s
<1>8. Keeps(d, w)
  <2>1. ASSUME NEW xs, Kept(d, xs) PROVE Kept(w, xs)
    <3>1. EntriesOK(w)
      BY <1>6, <1>7, <2>1 DEF Kept, EntriesOK
    <3>2. \A g \in Chats : \A r : IsKnown(w, g, r) => IsKnown(d, g, r)
      BY <1>6, <1>7 DEF IsKnown
    <3>3. IdsOK(w)
      BY <3>2, <1>6, IdsLess DEF IdsOK
    <3>4. Watched(w, xs)
      BY <1>6, <1>7, <2>1 DEF Kept, Watched, ReadIsOut
    <3> QED
      BY <3>1, <3>3, <3>4 DEF Kept
  <2>2. ASSUME NEW marks, Strict(d, marks) PROVE Strict(w, marks)
    <3>1. PagesOK(w)
      BY <1>6, <1>7, <2>2 DEF Strict, PagesOK, PostponeHistoryRequest, Pages
    <3>2. MarksOK(w, marks)
      BY <1>6, <1>7, <2>2 DEF Strict, MarksOK
    <3> QED
      BY <3>1, <3>2, <1>6, <2>2 DEF Strict
  <2>3. ArmedOK(d) => ArmedOK(w)
    BY <1>6, <1>7, ArmedFrame
  <2> QED
    BY <1>6, <2>1, <2>2, <2>3 DEF Keeps
<1>9. NoReadHas(w, h, id)
  <2>1. PICK r \in Requests : IsKnown(d, h, r) /\ r.type = "History" /\ r.id = id
    <3>1. CASE id \in d.state[h].postponed
      <4> DEFINE r == Sent(id, "History", 0, TRUE)
      <4>1. r \in Requests /\ r.id = id /\ r.type = "History"
        BY DEF Sent, Requests
      <4>2. IsKnown(d, h, r)
        BY <3>1, <4>1 DEF IsKnown
      <4> QED
        BY <4>1, <4>2
    <3>2. CASE \E p \in Pages(d.state[h]) : p.id = id
      BY <3>2 DEF Pages, IsKnown, Objects, States
    <3> QED
      BY <3>1, <3>2
  <2> QED
    BY <2>1, <1>6, KnownHasNoRead
<1>10. Keeps(w, FinishSentRequest(w, h, id))
  BY <1>6, <1>9, FinishKeeps
<1> QED
  BY <1>2, <1>8, <1>10, KeepsOn

(***************************************************************************)
(* What a chat shows.                                                      *)
(***************************************************************************)
\* The mark of a chat never goes down: a count that is set.
LEMMA SetUnreadCountOutcome ==
  ASSUME NEW c \in ChatStates, NEW n \in Int
  PROVE  /\ SetUnreadCount(c, n) \in ChatStates
         /\ SetUnreadCount(c, n).read >= c.read
<1> DEFINE read == IF n = 0 THEN Max2(c.read, c.top)
                   ELSE IF n = 1 THEN Max2(c.read, c.top - 1) ELSE c.read
<1>1. read \in Nat /\ read >= c.read
  BY DEF ChatStates, Max2
<1> HIDE DEF read
<1>2. SetUnreadCount(c, n) = IF n = c.unread THEN c ELSE [c EXCEPT !.unread = n, !.read = read]
  BY DEF SetUnreadCount, read
<1> DEFINE v == [c EXCEPT !.unread = n, !.read = read]
<1>3. v \in ChatStates /\ v.read = read
  BY <1>1 DEF ChatStates
<1>4. c.read \in Nat
  BY DEF ChatStates
<1> HIDE DEF v
<1> QED
  BY <1>1, <1>2, <1>3, <1>4 DEF v

\* A mark that is set.
LEMMA SetInboxReadTillOutcome ==
  ASSUME NEW c \in ChatStates, NEW till \in Nat
  PROVE  /\ SetInboxReadTill(c, till) \in ChatStates
         /\ SetInboxReadTill(c, till).read >= c.read
         /\ SetInboxReadTill(c, till).read >= till
<1>1. Max2(c.read, till) \in Nat /\ Max2(c.read, till) >= c.read /\ Max2(c.read, till) >= till
  BY DEF ChatStates, Max2
<1> QED
  BY <1>1 DEF SetInboxReadTill, ChatStates

\* What is counted is a number.
LEMMA StillType ==
  ASSUME NEW c \in ChatStates, NEW till \in Nat
  PROVE  CountStillUnreadLocal(c, till) \in Int
BY DEF CountStillUnreadLocal, ChatStates, Max2

\* The entry of a chat.
LEMMA ApplyDialogFieldsOutcome ==
  ASSUME NEW c \in ChatStates, NEW e \in Fields
  PROVE  /\ ApplyDialogFields(c, e) \in ChatStates
         /\ ApplyDialogFields(c, e).read >= c.read
<1> DEFINE u == SetUnreadCount(c, e.unread)
           v == SetInboxReadTill(u, e.read)
<1>1. e.read \in Nat /\ e.unread \in Int
  BY DEF Fields
<1>2. u \in ChatStates /\ u.read >= c.read
  BY <1>1, SetUnreadCountOutcome
<1> HIDE DEF u
<1>3. v \in ChatStates /\ v.read >= u.read
  BY <1>1, <1>2, SetInboxReadTillOutcome
<1> HIDE DEF v
<1>4. ApplyDialogFields(c, e) = IF e.read >= c.read THEN v ELSE c
  BY DEF ApplyDialogFields, u, v
<1>5. u.read \in Nat /\ v.read \in Nat /\ c.read \in Nat
  BY <1>2, <1>3 DEF ChatStates
<1> QED
  BY <1>2, <1>3, <1>4, <1>5

\* A read of the user.
LEMMA ReadLocallyOutcome ==
  ASSUME NEW d, NEW c \in ChatStates, NEW h, NEW a \in Asked
  PROVE  /\ ReadLocally(d, c, h, a) \in ChatStates
         /\ ReadLocally(d, c, h, a).read >= c.read
<1> DEFINE u == SetInboxReadTill(c, a.till)
           w == SetUnreadCount(u, Still(c, a))
           marked == IF ~IsNew(d, c, h, a) THEN c
                     ELSE IF CountUnchanged(c, a) THEN u
                     ELSE IF a.known THEN w ELSE c
           v == SetUnreadCount(marked, 0)
<1>1. a.till \in Nat /\ Still(c, a) \in Int
  BY StillType DEF Asked, Still
<1>2. u \in ChatStates /\ u.read >= c.read
  BY <1>1, SetInboxReadTillOutcome
<1> HIDE DEF u
<1>3. w \in ChatStates /\ w.read >= u.read
  BY <1>1, <1>2, SetUnreadCountOutcome
<1> HIDE DEF w
<1>4. marked \in ChatStates /\ marked.read >= c.read
  BY <1>2, <1>3 DEF ChatStates
<1> HIDE DEF marked
<1>5. v \in ChatStates /\ v.read >= marked.read
  BY <1>4, SetUnreadCountOutcome
<1>6. ReadLocally(d, c, h, a) = IF marked.unread > 0 /\ marked.top = a.till THEN v ELSE marked
  BY DEF ReadLocally, marked, u, w
<1> HIDE DEF v
<1>7. c.read \in Nat /\ marked.read \in Nat /\ v.read \in Nat
  BY <1>4, <1>5 DEF ChatStates
<1> QED
  BY <1>4, <1>5, <1>6, <1>7

\* When chats show more as read, the reads that are out still do not go past.
LEMMA StrictMore ==
  ASSUME NEW d \in Objects, NEW marks \in [Chats -> Nat], NEW more \in [Chats -> Nat],
         \A g \in Chats : more[g] >= marks[g], Strict(d, marks)
  PROVE  Strict(d, more)
<1> SUFFICES ASSUME NEW g \in Chats, NEW r \in Requests,
                    Live(g, r) \in d.live, r.type = "ReadInbox", r.finishes
             PROVE  /\ d.state[g].willReadTill # 0 => r.till <= d.state[g].willReadTill
                    /\ r.till <= IF d.state[g].sentReadTill # 0
                                 THEN d.state[g].sentReadTill ELSE more[g]
  BY DEF Strict, MarksOK
<1>1. /\ d.state[g].willReadTill # 0 => r.till <= d.state[g].willReadTill
      /\ r.till <= IF d.state[g].sentReadTill # 0
                   THEN d.state[g].sentReadTill ELSE marks[g]
  BY DEF Strict, MarksOK
<1>2. r.till \in Nat /\ marks[g] \in Nat /\ more[g] \in Nat /\ more[g] >= marks[g]
  BY DEF Requests
<1> QED
  BY <1>1, <1>2

\* The last read of h is forgotten.
LEMMA ForgetOutcome ==
  ASSUME NEW d \in Objects, NEW h \in Chats
  PROVE  DoneIs(d, [d EXCEPT !.state[h] = CheckEmptyState([@ EXCEPT !.sentReadTill = 0])], h, 0)
<1> DEFINE s == d.state[h]
           t == [s EXCEPT !.sentReadTill = 0]
           u == CheckEmptyState(t)
           state == [d.state EXCEPT ![h] = u]
           w == [d EXCEPT !.state = state]
<1>1. s \in States /\ d.state \in [Chats -> States]
  BY DEF Objects
<1>2. [d EXCEPT !.state[h] = CheckEmptyState([@ EXCEPT !.sentReadTill = 0])] = w
  BY <1>1 DEF Objects
<1> HIDE DEF s
<1>3. /\ t \in States /\ t.sent = s.sent /\ t.postponed = s.postponed
      /\ t.willReadTill = s.willReadTill /\ t.sentReadTill = 0
      /\ t.postponedRequestEntry = s.postponedRequestEntry
  BY <1>1 DEF States
<1> HIDE DEF t
<1>4. /\ u \in States /\ u.sent = s.sent /\ u.postponed = s.postponed
      /\ u.willReadTill = s.willReadTill /\ u.sentReadTill = 0
      /\ u.postponedRequestEntry = s.postponedRequestEntry
  BY <1>3, CheckEmptyStateOutcome
<1> HIDE DEF u
<1>5. state \in [Chats -> States] /\ state[h] = u /\ \A g \in Chats \ {h} : state[g] = d.state[g]
  BY <1>1, <1>4
<1> HIDE DEF state
<1>6. /\ w \in Objects /\ w.state = state
      /\ w.armed = d.armed /\ w.timer = d.timer /\ w.live = d.live /\ w.lastId = d.lastId
      /\ w.pending = d.pending /\ w.asked = d.asked /\ w.callbacks = d.callbacks
      /\ w.sendReadMessages = d.sendReadMessages
  BY <1>5 DEF Objects
<1> HIDE DEF w
<1>7. DoneIs(d, w, h, 0)
  BY <1>4, <1>5, <1>6 DEF DoneIs, s
<1> QED
  BY <1>2, <1>7

\* v is the object and the chat h after the entry of h was handled.
EntryIsApplied(d, c, h, v) ==
  /\ v[1] \in Objects /\ Kept(v[1], {}) /\ ArmedOK(v[1])
  /\ v[2] \in ChatStates /\ v[2].read >= c.read
  /\ \A marks \in [Chats -> Nat] : marks[h] = c.read /\ Strict(d, marks) =>
       Strict(v[1], [marks EXCEPT ![h] = v[2].read])
  /\ v[1].sendReadMessages = d.sendReadMessages
  /\ ~d.sendReadMessages => v[1].live = d.live

\* w is what is left of d when the entry of h is being handled.
TakenOut(d, w, h) ==
  /\ w \in Objects /\ Kept(w, {h})
  /\ w.state = d.state /\ w.live = d.live /\ w.sendReadMessages = d.sendReadMessages
  /\ ArmedOK(d) => ArmedOK(w)
  /\ \A marks : Strict(d, marks) => Strict(w, marks)

\* The entry of h is taken out of those asked for: the last read is watched
\* until it is handled.
LEMMA EntryTakenOut ==
  ASSUME NEW d \in Objects, Kept(d, {}), NEW h \in Chats,
         ~d.state[h].postponedRequestEntry,
         NEW w, w = [d EXCEPT !.pending = @ \ {h}, !.asked = @ \ {h}, !.callbacks = @ \ {h}]
  PROVE  TakenOut(d, w, h)
<1> DEFINE pending == d.pending \ {h}
           asked == d.asked \ {h}
           callbacks == d.callbacks \ {h}
<1>1. pending \in SUBSET Chats /\ asked \in SUBSET Chats /\ callbacks \in SUBSET Chats
  BY DEF Objects
<1>2. w = [d EXCEPT !.pending = pending, !.asked = asked, !.callbacks = callbacks]
  OBVIOUS
<1> HIDE DEF pending, asked, callbacks
<1>3. /\ w \in Objects /\ w.pending = pending /\ w.asked = asked
      /\ w.state = d.state /\ w.live = d.live /\ w.lastId = d.lastId
      /\ w.armed = d.armed /\ w.timer = d.timer
      /\ w.sendReadMessages = d.sendReadMessages
  BY <1>1, <1>2 DEF Objects
<1>4. EntriesOK(w)
  BY <1>3 DEF Kept, EntriesOK, pending, asked
<1>5. \A g, r : IsKnown(w, g, r) => IsKnown(d, g, r)
  BY <1>3 DEF IsKnown
<1>6. IdsOK(w)
  BY <1>3, <1>5, IdsLess DEF Kept, IdsOK
<1>7. Watched(w, {h})
  BY <1>3 DEF Kept, Watched, ReadIsOut, pending, asked
<1> QED
  BY <1>3, <1>4, <1>6, <1>7, ArmedFrame, StrictFrame DEF Kept, TakenOut

\* dialogEntryApplied().
LEMMA TakeDialogEntryOutcome ==
  ASSUME NEW d \in Objects, Kept(d, {}), ArmedOK(d), NEW c \in ChatStates,
         NEW h \in Chats, NEW known \in BOOLEAN, NEW due \in Nat,
         ~d.state[h].postponedRequestEntry
  PROVE  EntryIsApplied(d, c, h, TakeDialogEntry(d, c, h, known, due))
<1> DEFINE a == [till |-> c.top, force |-> FALSE, known |-> known]
           reads == h \in d.callbacks /\ c.top > 0
           w == [d EXCEPT !.pending = @ \ {h}, !.asked = @ \ {h}, !.callbacks = @ \ {h}]
           called == IF reads THEN ReadInboxTill(w, c, h, a, due) ELSE w
           read == IF reads THEN ReadLocally(w, c, h, a) ELSE c
           s == IF d.sendReadMessages THEN called.state[h] ELSE w.state[h]
           done == s.sentReadTill # 0 /\ s.sentReadDone
           x == [called EXCEPT !.state[h] = CheckEmptyState([@ EXCEPT !.sentReadTill = 0])]
           c2 == SetInboxReadTill(read, s.sentReadTill)
           v == TakeDialogEntry(d, c, h, known, due)
<1>1. v = <<IF done THEN x ELSE called, IF done THEN c2 ELSE read>>
  BY DEF TakeDialogEntry
<1> HIDE DEF v
<1>2. /\ w \in Objects /\ Kept(w, {h}) /\ ArmedOK(w)
      /\ w.state = d.state /\ w.live = d.live /\ w.sendReadMessages = d.sendReadMessages
      /\ \A marks : Strict(d, marks) => Strict(w, marks)
  <2>1. w = [d EXCEPT !.pending = @ \ {h}, !.asked = @ \ {h}, !.callbacks = @ \ {h}]
    OBVIOUS
  <2> HIDE DEF w, a, reads, called, read, s, done, x, c2
  <2>2. TakenOut(d, w, h)
    BY <2>1, EntryTakenOut
  <2> QED
    BY <2>2 DEF TakenOut
<1> HIDE DEF w
<1>3. /\ Moves(w, called) /\ ArmedOK(called)
      /\ \A marks : marks[h] = c.read /\ Strict(w, marks) => Strict(called, marks)
      /\ read \in ChatStates /\ read.read >= c.read
  <2>1. CASE reads
    <3>1. a \in Asked
      BY <2>1 DEF Asked, ChatStates
    <3> HIDE DEF a
    <3>2. /\ Moves(w, called) /\ ArmedOK(called)
          /\ \A marks : marks[h] = c.read /\ Strict(w, marks) => Strict(called, marks)
      BY <1>2, <2>1, <3>1, ReadInboxTillOutcome
    <3> QED
      BY <2>1, <3>1, <3>2, ReadLocallyOutcome
  <2>2. CASE ~reads
    <3>1. c.read \in Nat
      BY DEF ChatStates
    <3> QED
      BY <1>2, <2>2, <3>1, ProceedsSelf DEF Proceeds
  <2> QED
    BY <2>1, <2>2
<1> HIDE DEF called, read
<1>4. /\ called \in Objects /\ Kept(called, {h})
      /\ called.sendReadMessages = d.sendReadMessages
      /\ ~d.sendReadMessages =>
           /\ called.live = d.live
           /\ \/ called.state[h].sentReadTill = 0
              \/ /\ called.state[h].sentReadTill = w.state[h].sentReadTill
                 /\ called.state[h].sentReadDone = w.state[h].sentReadDone
  BY <1>2, <1>3 DEF Moves
<1>5. s.sentReadTill \in Nat
  BY <1>2, <1>4 DEF Objects, States
<1>6. ASSUME done PROVE EntryIsApplied(d, c, h, v)
  <2>1. DoneIs(called, x, h, 0)
    BY <1>4, ForgetOutcome
  <2> HIDE DEF x
  <2>2. v[1] = x /\ v[2] = c2
    BY <1>1, <1>6
  <2>3. /\ EntriesOK(x) /\ IdsOK(x) /\ ArmedOK(x)
    BY <2>1, <1>3, <1>4, DoneKept DEF Kept
  <2>4. \A g \in Chats : \A y : ReadIsOut(called, g, y) => ReadIsOut(x, g, y)
    BY <2>1 DEF ReadIsOut, DoneIs
  <2>5. Watched(x, {})
    BY <1>4, <2>1, <2>4 DEF Kept, Watched, DoneIs
  <2>6. c2 \in ChatStates /\ c2.read >= read.read /\ c2.read >= s.sentReadTill
    BY <1>3, <1>5, SetInboxReadTillOutcome
  <2> HIDE DEF c2
  <2>7. c.read \in Nat /\ read.read \in Nat /\ c2.read \in Nat /\ c2.read >= c.read
    BY <1>3, <2>6 DEF ChatStates
  <2>8. ASSUME NEW marks \in [Chats -> Nat], marks[h] = c.read, Strict(d, marks)
        PROVE  Strict(x, [marks EXCEPT ![h] = c2.read])
    <3> DEFINE more == [marks EXCEPT ![h] = c2.read]
    <3>1. more \in [Chats -> Nat] /\ \A g \in Chats : more[g] >= marks[g]
      BY <2>7, <2>8
    <3>2. more[h] = c2.read
      BY <2>8
    <3> HIDE DEF more
    <3>3. Strict(called, marks)
      BY <1>2, <1>3, <2>8
    <3>4. Strict(called, more)
      BY <1>4, <3>1, <3>3, StrictMore
    <3>5. s = called.state[h]
      BY <3>3, <1>4 DEF Strict
    <3>6. called.state[h].sentReadTill <= more[h]
      BY <3>2, <3>5, <2>6, <2>7, <1>5
    <3>7. Strict(x, more)
      BY <1>4, <2>1, <3>1, <3>4, <3>6, DoneStrict
    <3> QED
      BY <3>7 DEF more
  <2> QED
    BY <1>4, <2>1, <2>2, <2>3, <2>5, <2>6, <2>7, <2>8 DEF EntryIsApplied, DoneIs, Kept
<1>7. ASSUME ~done PROVE EntryIsApplied(d, c, h, v)
  <2>1. v[1] = called /\ v[2] = read
    BY <1>1, <1>7
  <2>2. Watched(called, {})
    <3>1. ~(called.state[h].sentReadTill # 0 /\ called.state[h].sentReadDone)
      BY <1>4, <1>7
    <3> QED
      BY <3>1, <1>4 DEF Kept, Watched
  <2>3. ASSUME NEW marks \in [Chats -> Nat], marks[h] = c.read, Strict(d, marks)
        PROVE  Strict(called, [marks EXCEPT ![h] = read.read])
    <3> DEFINE more == [marks EXCEPT ![h] = read.read]
    <3>1. more \in [Chats -> Nat] /\ \A g \in Chats : more[g] >= marks[g]
      BY <1>3, <2>3 DEF ChatStates
    <3> HIDE DEF more
    <3>2. Strict(called, marks)
      BY <1>2, <1>3, <2>3
    <3>3. Strict(called, more)
      BY <1>4, <3>1, <3>2, StrictMore
    <3> QED
      BY <3>3 DEF more
  <2> QED
    BY <1>3, <1>4, <2>1, <2>2, <2>3 DEF EntryIsApplied, Kept
<1> QED
  BY <1>6, <1>7 DEF v

\* But not when the entry will be asked for again.
LEMMA DialogEntryAppliedOutcome ==
  ASSUME NEW d \in Objects, Kept(d, {}), ArmedOK(d), NEW c \in ChatStates,
         NEW h \in Chats, NEW known \in BOOLEAN, NEW due \in Nat
  PROVE  EntryIsApplied(d, c, h, DialogEntryApplied(d, c, h, known, due))
<1>1. CASE d.state[h].postponedRequestEntry
  <2>1. DialogEntryApplied(d, c, h, known, due) = <<d, c>>
    BY <1>1 DEF DialogEntryApplied
  <2>2. \A marks \in [Chats -> Nat] : marks[h] = c.read => [marks EXCEPT ![h] = c.read] = marks
    OBVIOUS
  <2>3. c.read \in Nat
    BY DEF ChatStates
  <2> QED
    BY <2>1, <2>2, <2>3 DEF EntryIsApplied
<1>2. CASE ~d.state[h].postponedRequestEntry
  BY <1>2, TakeDialogEntryOutcome DEF DialogEntryApplied
<1> QED
  BY <1>1, <1>2

(***************************************************************************)
(* The invariant.                                                          *)
(***************************************************************************)
\* The part of the invariant about the Histories object.
ClientOK ==
  /\ histories \in Objects /\ Kept(histories, {}) /\ ArmedOK(histories)
  /\ Untoggled => Strict(histories, Marks)

\* Each chat shows as read at least what it showed.
ChatGrows ==
  /\ chat' \in [Chats -> ChatStates]
  /\ \A g \in Chats : chat'[g].read >= chat[g].read

\* It is so when one chat changes.
LEMMA OneChatGrows ==
  ASSUME chat \in [Chats -> ChatStates], NEW h \in Chats, NEW c \in ChatStates,
         c.read >= chat[h].read, chat' = [chat EXCEPT ![h] = c]
  PROVE  ChatGrows
<1>1. \A g \in Chats : chat[g].read \in Nat
  BY DEF ChatStates
<1> QED
  BY <1>1 DEF ChatGrows

\* And when none does.
LEMMA NoChatGrows ==
  ASSUME chat \in [Chats -> ChatStates], chat' = chat
  PROVE  ChatGrows
<1>1. \A g \in Chats : chat[g].read \in Nat
  BY DEF ChatStates
<1> QED
  BY <1>1 DEF ChatGrows

\* A step that keeps what holds of the object, whatever chats then show.
LEMMA ClientMoves ==
  ASSUME IInv, histories' \in Objects, Kept(histories', {}), ArmedOK(histories'),
         Strict(histories, Marks) => Strict(histories', Marks),
         ChatGrows, Untoggled' => Untoggled
  PROVE  ClientOK'
<1>1. ASSUME Untoggled' PROVE Strict(histories', Marks')
  <2>1. Strict(histories', Marks)
    BY <1>1 DEF IInv
  <2>2. /\ Marks \in [Chats -> Nat] /\ Marks' \in [Chats -> Nat]
        /\ \A g \in Chats : Marks'[g] >= Marks[g]
    BY DEF Marks, ChatGrows, ChatStates, IInv, TypeOK, TypeClient
  <2> QED
    BY <2>1, <2>2, StrictMore
<1> QED
  BY <1>1 DEF ClientOK

\* In particular one that keeps all of it.
LEMMA ClientStep ==
  ASSUME IInv, Keeps(histories, histories'), ChatGrows, Untoggled' => Untoggled
  PROVE  ClientOK'
<1>1. /\ histories' \in Objects /\ Kept(histories', {}) /\ ArmedOK(histories')
      /\ \A marks : Strict(histories, marks) => Strict(histories', marks)
  BY DEF IInv, Keeps
<1>2. Strict(histories, Marks) => Strict(histories', Marks)
  BY <1>1
<1> QED
  BY <1>1, <1>2, ClientMoves

\* The object that stays is kept.
LEMMA KeepsSame == ASSUME NEW d \in Objects PROVE Keeps(d, d)
BY DEF Keeps

\* How much of each bound is used.
Spents == [ requests : Nat, entries : Nat, failures : Nat, unended : Nat, toggles : Nat ]

\* A bound that is used.
LEMMA SpendOutcome ==
  ASSUME spent \in Spents,
         NEW what \in {"requests", "entries", "failures", "unended", "toggles"},
         NEW bound, Spend(what, bound)
  PROVE  /\ spent' \in Spents
         /\ Untoggled' => Untoggled /\ what # "toggles"
<1> DEFINE n == spent[what] + 1
<1>1. spent' = [spent EXCEPT ![what] = n]
  BY DEF Spend
<1>2. n \in Nat /\ n # 0
  BY DEF Spents
<1> HIDE DEF n
<1>3. CASE what = "requests"
  <2>1. spent' = [spent EXCEPT !.requests = n]
    BY <1>1, <1>3
  <2> QED
    BY <2>1, <1>2, <1>3 DEF Spents, Untoggled
<1>4. CASE what = "entries"
  <2>1. spent' = [spent EXCEPT !.entries = n]
    BY <1>1, <1>4
  <2> QED
    BY <2>1, <1>2, <1>4 DEF Spents, Untoggled
<1>5. CASE what = "failures"
  <2>1. spent' = [spent EXCEPT !.failures = n]
    BY <1>1, <1>5
  <2> QED
    BY <2>1, <1>2, <1>5 DEF Spents, Untoggled
<1>6. CASE what = "unended"
  <2>1. spent' = [spent EXCEPT !.unended = n]
    BY <1>1, <1>6
  <2> QED
    BY <2>1, <1>2, <1>6 DEF Spents, Untoggled
<1>7. CASE what = "toggles"
  <2>1. spent' = [spent EXCEPT !.toggles = n]
    BY <1>1, <1>7
  <2>2. spent' \in Spents /\ spent'.toggles = n
    BY <2>1, <1>2 DEF Spents
  <2> QED
    BY <2>2, <1>2 DEF Untoggled
<1> QED
  BY <1>3, <1>4, <1>5, <1>6, <1>7

\* What is sent is put at the end.
LEMMA SaysOutcome ==
  ASSUME inbox \in Seq(Pushes \cup Answers), NEW m \in Pushes \cup Answers, Says(m)
  PROVE  inbox' \in Seq(Pushes \cup Answers)
BY DEF Says

\* And taken from the front.
LEMMA ReceiveOutcome ==
  ASSUME inbox \in Seq(Pushes \cup Answers), Receive
  PROVE  /\ inbox' \in Seq(Pushes \cup Answers)
         /\ Head(inbox) \in Pushes \cup Answers
         /\ Head(inbox).kind = "answer" => Head(inbox) \in Answers
         /\ Head(inbox).kind # "answer" => Head(inbox) \in Pushes
<1>1. inbox' \in Seq(Pushes \cup Answers) /\ Head(inbox) \in Pushes \cup Answers
  BY DEF Receive
<1>2. \A m \in Pushes : m.kind # "answer"
  BY DEF Pushes
<1>3. \A m \in Answers : m.kind = "answer"
  BY DEF Answers
<1> QED
  BY <1>1, <1>2, <1>3

\* What the entries still to be handled look like.
ApplyingOK == \A e \in applying : e.chat \in Chats /\ (e.ok => e.entry \in Fields)

\* The parts of the invariant.
LEMMA IInvParts ==
  /\ IInv <=> /\ TypeServer /\ chat \in [Chats -> ChatStates]
              /\ ApplyingOK /\ stale \subseteq Chats /\ ClientOK
  /\ IInv' <=> /\ TypeServer' /\ chat' \in [Chats -> ChatStates]
               /\ ApplyingOK' /\ stale' \subseteq Chats /\ ClientOK'
BY DEF IInv, TypeOK, TypeClient, ApplyingOK, ClientOK

\* A step of the server.
LEMMA ServerStep ==
  ASSUME IInv, TypeServer', Untoggled' => Untoggled,
         UNCHANGED <<histories, chat, applying, stale>>
  PROVE  IInv'
<1>1. Keeps(histories, histories')
  BY KeepsSame DEF IInv, TypeOK, TypeClient
<1>2. ChatGrows
  BY NoChatGrows DEF IInv, TypeOK, TypeClient
<1>3. ClientOK'
  BY <1>1, <1>2, ClientStep
<1>4. chat' \in [Chats -> ChatStates] /\ ApplyingOK' /\ stale' \subseteq Chats
  BY IInvParts DEF ApplyingOK
<1> QED
  BY <1>3, <1>4, IInvParts

\* A message of somebody else, or a read on another device.
LEMMA PushStep ==
  ASSUME IInv, NEW h \in Chats,
         NewMessage(h) \/ \E till \in Tops : ReadElsewhere(h, till)
  PROVE  IInv'
<1>1. /\ inbox \in Seq(Pushes \cup Answers) /\ refused \in [Chats -> Nat]
      /\ server \in [Chats -> [top : Nat, read : Nat]]
  BY DEF IInv, TypeOK, TypeServer
<1>2. server[h].top \in Nat /\ server[h].read \in Nat
  BY <1>1
<1>3. CASE NewMessage(h)
  <2> DEFINE s == [server[h] EXCEPT !.top = @ + 1]
             m == Push("message", h, server'[h].top, 0)
  <2>1. s \in [top : Nat, read : Nat]
    BY <1>1, <1>2
  <2>2. server' = [server EXCEPT ![h] = s] /\ Says(m)
    BY <1>1, <1>3 DEF NewMessage
  <2> HIDE DEF s
  <2>3. server' \in [Chats -> [top : Nat, read : Nat]] /\ server'[h].top \in Nat
    BY <1>1, <2>1, <2>2
  <2>4. m \in Pushes
    BY <2>3 DEF Push, Pushes
  <2> HIDE DEF m
  <2>5. inbox' \in Seq(Pushes \cup Answers)
    BY <1>1, <2>2, <2>4, SaysOutcome
  <2>6. UNCHANGED <<histories, chat, applying, refused, stale, spent>>
    BY <1>3 DEF NewMessage
  <2>7. TypeServer'
    BY <2>3, <2>5, <2>6 DEF IInv, TypeOK, TypeServer
  <2> QED
    BY <2>6, <2>7, ServerStep DEF Untoggled
<1>4. ASSUME NEW till \in Tops, ReadElsewhere(h, till) PROVE IInv'
  <2> DEFINE s == [server[h] EXCEPT !.read = till]
             m == Push("read", h, till, server[h].top - till)
  <2>0. till \in Nat
    BY BoundsAssumption DEF Tops
  <2>1. s \in [top : Nat, read : Nat]
    BY <1>1, <1>2, <2>0
  <2>2. server' = [server EXCEPT ![h] = s] /\ Says(m)
    BY <1>1, <1>4 DEF ReadElsewhere
  <2> HIDE DEF s
  <2>3. server' \in [Chats -> [top : Nat, read : Nat]]
    BY <1>1, <2>1, <2>2
  <2>4. m \in Pushes
    BY <1>2, <2>0 DEF Push, Pushes
  <2> HIDE DEF m
  <2>5. inbox' \in Seq(Pushes \cup Answers)
    BY <1>1, <2>2, <2>4, SaysOutcome
  <2>6. UNCHANGED <<histories, chat, applying, refused, stale, spent>>
    BY <1>4 DEF ReadElsewhere
  <2>7. TypeServer'
    BY <2>3, <2>5, <2>6 DEF IInv, TypeOK, TypeServer
  <2> QED
    BY <2>6, <2>7, ServerStep DEF Untoggled
<1> QED
  BY <1>3, <1>4

\* What the server answers.
LEMMA AnswerType ==
  ASSUME server \in [Chats -> [top : Nat, read : Nat]],
         NEW q \in [of : SUBSET Chats, sent : Requests], NEW ok \in BOOLEAN
  PROVE  Answer(q, ok) \in Answers
<1> DEFINE entries == IF ok /\ q.sent.type = "Entries" THEN Served(q.of) ELSE <<>>
           m == [kind |-> "answer", of |-> q.of, sent |-> q.sent, ok |-> ok, entries |-> entries]
           All == UNION { [hs -> Fields] : hs \in SUBSET Chats }
<1>1. q.of \in SUBSET Chats /\ q.sent \in Requests
  OBVIOUS
<1>2. \A h \in q.of : [read |-> server[h].read, unread |-> server[h].top - server[h].read] \in Fields
  BY <1>1 DEF Fields
<1>3. Served(q.of) \in [q.of -> Fields]
  BY <1>2 DEF Served
<1>4. <<>> \in [{} -> Fields]
  OBVIOUS
<1>5. entries \in All /\ (ok /\ q.sent.type = "Entries" => entries \in [q.of -> Fields])
  <2>1. \A f, hs : hs \in SUBSET Chats /\ f \in [hs -> Fields] => f \in All
    OBVIOUS
  <2> HIDE DEF All
  <2> QED
    BY <2>1, <1>1, <1>3, <1>4
<1>6. Answer(q, ok) = m
  BY DEF Answer
<1> HIDE DEF entries, All
<1>7. m \in [kind : {"answer"}, of : SUBSET Chats, sent : Requests, ok : BOOLEAN, entries : All]
  BY <1>1, <1>5
<1>8. m.ok = ok /\ m.sent = q.sent /\ m.of = q.of /\ m.entries = entries
  OBVIOUS
<1> HIDE DEF m
<1> QED
  BY <1>5, <1>6, <1>7, <1>8 DEF Answers, All

\* An answer or a refusal.
LEMMA AnswerStep ==
  ASSUME IInv, NEW q \in histories.live, Serve(q) \/ Refuse(q)
  PROVE  IInv'
<1>1. /\ inbox \in Seq(Pushes \cup Answers) /\ refused \in [Chats -> Nat]
      /\ server \in [Chats -> [top : Nat, read : Nat]] /\ spent \in Spents
      /\ q \in [of : SUBSET Chats, sent : Requests]
  BY DEF IInv, TypeOK, TypeServer, TypeClient, Objects, Spents
<1>2. q.sent.till \in Nat
  BY <1>1 DEF Requests
<1>3. /\ \A h \in Chats : [server[h] EXCEPT !.read = Max2(@, q.sent.till)] \in [top : Nat, read : Nat]
      /\ \A h \in Chats : Max2(refused[h], q.sent.till) \in Nat
  BY <1>1, <1>2 DEF Max2
<1>4. CASE Serve(q)
  <2>1. inbox' \in Seq(Pushes \cup Answers)
    BY <1>1, <1>4, AnswerType, SaysOutcome DEF Serve
  <2>2. server' \in [Chats -> [top : Nat, read : Nat]]
    BY <1>1, <1>3, <1>4 DEF Serve
  <2>3. UNCHANGED <<histories, chat, applying, refused, stale, spent>>
    BY <1>4 DEF Serve
  <2>4. TypeServer'
    BY <2>1, <2>2, <2>3 DEF IInv, TypeOK, TypeServer
  <2> QED
    BY <2>3, <2>4, ServerStep DEF Untoggled
<1>5. CASE Refuse(q)
  <2>1. inbox' \in Seq(Pushes \cup Answers)
    BY <1>1, <1>5, AnswerType, SaysOutcome DEF Refuse
  <2>2. refused' \in [Chats -> Nat]
    BY <1>1, <1>3, <1>5 DEF Refuse
  <2>3. UNCHANGED <<histories, chat, applying, server, stale>>
    BY <1>5 DEF Refuse
  <2>4. spent' \in Spents /\ (Untoggled' => Untoggled)
    BY <1>1, <1>5, SpendOutcome DEF Refuse
  <2>5. TypeServer'
    BY <2>1, <2>2, <2>3, <2>4 DEF IInv, TypeOK, TypeServer, Spents
  <2> QED
    BY <2>3, <2>4, <2>5, ServerStep
<1> QED
  BY <1>4, <1>5

\* A step of the user, the timer or the application.
LEMMA UiStep ==
  ASSUME IInv, ClientOK', ChatGrows, spent' \in Spents,
         UNCHANGED <<applying, inbox, serverVars>>
  PROVE  IInv'
<1>1. TypeServer' /\ ApplyingOK' /\ stale' \subseteq Chats
  BY IInvParts DEF TypeServer, Spents, ApplyingOK, serverVars
<1>2. chat' \in [Chats -> ChatStates]
  BY DEF ChatGrows
<1> QED
  BY <1>1, <1>2, IInvParts

\* What goes on and is watched is kept.
LEMMA ProceedsKeeps ==
  ASSUME NEW d, NEW v, Proceeds(d, v), ArmedOK(v)
  PROVE  Keeps(d, v)
BY DEF Proceeds, Moves, Keeps

\* A page, a deletion, a message or AyuGram's own read is asked for.
LEMMA AskStep ==
  ASSUME IInv, NEW h \in Chats,
         \/ \E type \in {"History", "Delete"} : Ask(h, type)
         \/ Send(h)
         \/ \E type \in {"ReadInbox", "Delete"} : AskUnended(h, type)
  PROVE  IInv'
<1>1. /\ histories \in Objects /\ spent \in Spents /\ chat \in [Chats -> ChatStates]
      /\ chat[h].top \in Nat
  BY DEF IInv, TypeOK, TypeServer, TypeClient, Spents, ChatStates
<1>2. /\ chat' = chat /\ UNCHANGED <<applying, inbox, serverVars>>
      /\ \E what \in {"requests", "unended"} : \E bound : Spend(what, bound)
  BY DEF Ask, Send, AskUnended, Ui
<1>3. spent' \in Spents /\ (Untoggled' => Untoggled)
  <2>1. PICK what \in {"requests", "unended"} : \E bound : Spend(what, bound)
    BY <1>2
  <2>2. PICK bound : Spend(what, bound)
    BY <2>1
  <2> QED
    BY <1>1, <2>2, SpendOutcome
<1>4. ChatGrows
  BY <1>1, <1>2, NoChatGrows
<1>5. Keeps(histories, histories')
  <2>1. ASSUME NEW type \in {"History", "Delete"}, Ask(h, type)
        PROVE  Keeps(histories, histories')
    <3>1. histories' = SendRequest(histories, h, type, 0, TRUE)
      BY <2>1 DEF Ask
    <3> QED
      BY <1>1, <3>1, SendRequestKeeps
  <2>2. CASE Send(h)
    <3> DEFINE w == SendRequest(histories, h, "ReadInbox", chat[h].top, FALSE)
    <3>1. \/ histories' = SendRequest(histories, h, "Send", 0, TRUE)
          \/ histories' = SendRequest(w, h, "Send", 0, TRUE)
      BY <2>2 DEF Send
    <3>2. Keeps(histories, w)
      BY <1>1, SendRequestKeeps
    <3>3. w \in Objects
      BY <3>2 DEF Keeps
    <3> HIDE DEF w
    <3>4. Keeps(histories, SendRequest(histories, h, "Send", 0, TRUE))
      BY <1>1, SendRequestKeeps
    <3>5. Keeps(w, SendRequest(w, h, "Send", 0, TRUE))
      BY <3>3, SendRequestKeeps
    <3>6. Keeps(histories, SendRequest(w, h, "Send", 0, TRUE))
      BY <3>2, <3>5, KeepsOn
    <3> QED
      BY <3>1, <3>4, <3>6
  <2>3. ASSUME NEW type \in {"ReadInbox", "Delete"}, AskUnended(h, type)
        PROVE  Keeps(histories, histories')
    <3> DEFINE till == IF type = "ReadInbox" THEN chat[h].top ELSE 0
    <3>1. histories' = SendRequest(histories, h, type, till, FALSE)
      BY <2>3 DEF AskUnended
    <3>2. till \in Nat
      BY <1>1
    <3> HIDE DEF till
    <3> QED
      BY <1>1, <3>1, <3>2, SendRequestKeeps
  <2> QED
    BY <2>1, <2>2, <2>3
<1>6. ClientOK'
  BY <1>3, <1>4, <1>5, ClientStep
<1> QED
  BY <1>2, <1>3, <1>4, <1>6, UiStep

\* A page is given up, an entry is asked for, or the user leaves a chat.
LEMMA CallStep ==
  ASSUME IInv, NEW h \in Chats,
         \/ \E id \in 1 .. histories.lastId[h] : CancelPage(h, id)
         \/ \E callback \in BOOLEAN : AskEntry(h, callback)
         \/ \E due \in Due : LeaveChat(h, due)
  PROVE  IInv'
<1>1. /\ histories \in Objects /\ spent \in Spents /\ chat \in [Chats -> ChatStates]
      /\ histories.lastId[h] \in Nat /\ ArmedOK(histories) /\ IdsOK(histories)
  BY DEF IInv, TypeOK, TypeServer, TypeClient, Spents, Kept, Objects
<1>2. chat' = chat /\ UNCHANGED <<applying, inbox, serverVars>>
  BY DEF CancelPage, AskEntry, LeaveChat, Ui
<1>3. spent' \in Spents /\ (Untoggled' => Untoggled)
  <2>1. spent' = spent \/ Spend("entries", MaxEntries)
    BY DEF CancelPage, AskEntry, LeaveChat
  <2> QED
    BY <1>1, <2>1, SpendOutcome DEF Untoggled
<1>4. ChatGrows
  BY <1>1, <1>2, NoChatGrows
<1>5. Keeps(histories, histories')
  <2>1. ASSUME NEW id \in 1 .. histories.lastId[h], CancelPage(h, id)
        PROVE  Keeps(histories, histories')
    <3>1. /\ id \in histories.state[h].postponed
                      \cup { p.id : p \in Pages(histories.state[h]) }
          /\ histories' = FinishSentRequest(
               [histories EXCEPT !.state[h].postponed = @ \ {id}], h, id)
      BY <2>1 DEF CancelPage
    <3>2. id \in Nat
      BY <1>1
    <3> QED
      BY <1>1, <3>1, <3>2, CancelKeeps
  <2>2. ASSUME NEW callback \in BOOLEAN, AskEntry(h, callback)
        PROVE  Keeps(histories, histories')
    <3>1. histories' = RequestDialogEntry(histories, h, callback)
      BY <2>2 DEF AskEntry
    <3> QED
      BY <1>1, <3>1, RequestEntryKeeps
  <2>3. ASSUME NEW due \in Due, LeaveChat(h, due)
        PROVE  Keeps(histories, histories')
    <3>1. histories' = SendPendingReadInbox(histories, h, due) /\ due \in Nat
      BY <2>3 DEF LeaveChat, Due
    <3>2. Proceeds(histories, histories') /\ ArmedOK(histories')
      BY <1>1, <3>1, SendPendingOutcome
    <3> QED
      BY <3>2, ProceedsKeeps
  <2> QED
    BY <2>1, <2>2, <2>3
<1>6. ClientOK'
  BY <1>3, <1>4, <1>5, ClientStep
<1> QED
  BY <1>2, <1>3, <1>4, <1>6, UiStep

\* The user reads a chat.
LEMMA ReadInboxStep ==
  ASSUME IInv, NEW h \in Chats, NEW till \in Tops, NEW force \in BOOLEAN,
         NEW known \in BOOLEAN, NEW due \in Due, ReadInbox(h, till, force, known, due)
  PROVE  IInv'
<1> DEFINE a == [till |-> till, force |-> force, known |-> known]
           c == chat[h]
<1>1. /\ histories \in Objects /\ spent \in Spents /\ chat \in [Chats -> ChatStates]
      /\ ArmedOK(histories) /\ Kept(histories, {}) /\ c \in ChatStates /\ due \in Nat
  BY DEF IInv, TypeOK, TypeServer, TypeClient, Spents, Due
<1>2. a \in Asked
  BY DEF ReadInbox, Asked
<1> HIDE DEF a
<1>3. /\ histories' = ReadInboxTill(histories, c, h, a, due)
      /\ chat' = [chat EXCEPT ![h] = ReadLocally(histories, c, h, a)]
      /\ spent' = spent /\ UNCHANGED <<applying, inbox, serverVars>>
  BY DEF ReadInbox, Ui, a
<1>4. /\ Moves(histories, histories') /\ ArmedOK(histories')
      /\ \A marks : marks[h] = c.read /\ Strict(histories, marks) => Strict(histories', marks)
  BY <1>1, <1>2, <1>3, ReadInboxTillOutcome
<1>5. ChatGrows
  <2>1. /\ ReadLocally(histories, c, h, a) \in ChatStates
        /\ ReadLocally(histories, c, h, a).read >= c.read
    BY <1>1, <1>2, ReadLocallyOutcome
  <2> QED
    BY <2>1, <1>1, <1>3, OneChatGrows
<1>6. ClientOK'
  <2>1. histories' \in Objects /\ Kept(histories', {})
    BY <1>1, <1>4 DEF Moves
  <2>2. Marks[h] = c.read
    BY DEF Marks
  <2>3. Strict(histories, Marks) => Strict(histories', Marks)
    BY <1>4, <2>2
  <2>4. Untoggled' => Untoggled
    BY <1>3 DEF Untoggled
  <2> QED
    BY <1>4, <1>5, <2>1, <2>3, <2>4, ClientMoves
<1> QED
  BY <1>1, <1>3, <1>5, <1>6, UiStep

\* "Send read messages" is switched: nothing strict is promised any more.
LEMMA ToggleStep ==
  ASSUME IInv, ToggleSendReadMessages
  PROVE  IInv'
<1>1. /\ histories \in Objects /\ spent \in Spents /\ chat \in [Chats -> ChatStates]
      /\ ArmedOK(histories) /\ Kept(histories, {})
  BY DEF IInv, TypeOK, TypeServer, TypeClient, Spents
<1>2. /\ histories' = [histories EXCEPT !.sendReadMessages = ~@]
      /\ chat' = chat /\ UNCHANGED <<applying, inbox, serverVars>>
      /\ Spend("toggles", MaxToggles)
  BY DEF ToggleSendReadMessages, Ui
<1>3. spent' \in Spents /\ ~Untoggled'
  BY <1>1, <1>2, SpendOutcome
<1>4. /\ histories' \in Objects
      /\ histories'.state = histories.state /\ histories'.live = histories.live
      /\ histories'.lastId = histories.lastId /\ histories'.pending = histories.pending
      /\ histories'.asked = histories.asked
      /\ histories'.armed = histories.armed /\ histories'.timer = histories.timer
  BY <1>1, <1>2 DEF Objects
<1>5. Kept(histories', {})
  BY <1>1, <1>4, KeptFrame
<1>6. ArmedOK(histories')
  BY <1>1, <1>4, ArmedFrame
<1>7. ClientOK'
  BY <1>3, <1>4, <1>5, <1>6 DEF ClientOK
<1>8. ChatGrows
  BY <1>1, <1>2, NoChatGrows
<1> QED
  BY <1>2, <1>3, <1>7, <1>8, UiStep

\* The timer fires, or the application calls back.
LEMMA TimerStep ==
  ASSUME IInv, PostponedCall \/ \E due \in Due : TimerFires(due)
  PROVE  IInv'
<1>1. /\ histories \in Objects /\ spent \in Spents /\ chat \in [Chats -> ChatStates]
      /\ ArmedOK(histories)
  BY DEF IInv, TypeOK, TypeServer, TypeClient, Spents
<1>2. chat' = chat /\ UNCHANGED <<applying, inbox, serverVars>> /\ spent' = spent
  BY DEF PostponedCall, TimerFires
<1>3. ChatGrows
  BY <1>1, <1>2, NoChatGrows
<1>4. Keeps(histories, histories')
  <2>1. CASE PostponedCall
    <3>1. histories' = [SendDialogRequests(histories) EXCEPT !.posted = FALSE]
      BY <2>1 DEF PostponedCall
    <3> QED
      BY <1>1, <3>1, SendEntriesKeeps
  <2>2. ASSUME NEW due \in Due, TimerFires(due) PROVE Keeps(histories, histories')
    <3> DEFINE w == [histories EXCEPT !.timer = "off"]
    <3>1. histories' = SendReadRequests(w, due)
      BY <2>2 DEF TimerFires
    <3>2. /\ w \in Objects /\ w.state = histories.state /\ w.live = histories.live
          /\ w.lastId = histories.lastId /\ w.pending = histories.pending
          /\ w.asked = histories.asked /\ w.armed = histories.armed
          /\ w.sendReadMessages = histories.sendReadMessages
      BY <1>1 DEF Objects
    <3> HIDE DEF w
    <3>3. OnlyReadsWait(w) /\ due \in 0 .. Len(w.armed)
      BY <1>1, <3>2 DEF ArmedOK, OnlyReadsWait, Waits, Due
    <3>4. Proceeds(w, histories') /\ ArmedOK(histories')
      BY <3>1, <3>2, <3>3, SendReadRequestsOutcome
    <3>5. \A xs : Kept(histories, xs) => Kept(w, xs)
      BY <3>2, KeptFrame
    <3>6. \A marks : Strict(histories, marks) => Strict(w, marks)
      BY <3>2, StrictFrame
    <3> QED
      BY <3>4, <3>5, <3>6 DEF Proceeds, Moves, Keeps
  <2> QED
    BY <2>1, <2>2
<1>5. Untoggled' => Untoggled
  BY <1>2 DEF Untoggled
<1>6. ClientOK'
  BY <1>3, <1>4, <1>5, ClientStep
<1> QED
  BY <1>1, <1>2, <1>3, <1>6, UiStep

\* Something from the server is handled.
LEMMA ReceiveStep ==
  ASSUME IInv, Receive, ClientOK', ChatGrows, ApplyingOK', stale' \subseteq Chats,
         UNCHANGED <<server, refused>>, spent' \in Spents
  PROVE  IInv'
<1>1. inbox' \in Seq(Pushes \cup Answers)
  BY ReceiveOutcome DEF IInv, TypeOK, TypeServer
<1>2. TypeServer'
  BY <1>1 DEF IInv, TypeOK, TypeServer, Spents
<1>3. chat' \in [Chats -> ChatStates]
  BY DEF ChatGrows
<1> QED
  BY <1>2, <1>3, IInvParts

\* A new message, a read on another device, or an answer nobody waits for.
LEMMA ReceivePushStep ==
  ASSUME IInv, ReceiveMessage \/ ReceiveRead \/ ReceiveCancelled
  PROVE  IInv'
<1> DEFINE m == Head(inbox)
           c == chat[m.chat]
           h == m.chat
<1>1. /\ histories \in Objects /\ spent \in Spents /\ chat \in [Chats -> ChatStates]
      /\ inbox \in Seq(Pushes \cup Answers) /\ stale \subseteq Chats
      /\ ApplyingOK
  BY DEF IInv, TypeOK, TypeServer, TypeClient, Spents, ApplyingOK
<1>2. /\ Receive /\ UNCHANGED <<server, refused>> /\ spent' = spent /\ applying' = applying
  BY DEF ReceiveMessage, ReceiveRead, ReceiveCancelled, serverVars
<1>3. m.kind # "answer" => m \in Pushes
  BY <1>1, <1>2, ReceiveOutcome
<1>4. m.kind # "answer" => h \in Chats /\ m.till \in Nat /\ m.unread \in Int /\ c \in ChatStates
  BY <1>1, <1>3 DEF Pushes
<1>5. Untoggled' => Untoggled
  BY <1>2 DEF Untoggled
<1>6. ChatGrows /\ Keeps(histories, histories') /\ stale' \subseteq Chats
  <2>1. CASE ReceiveMessage
    <3> DEFINE c1 == [c EXCEPT !.top = m.till]
               c2 == IF c1.read < m.till THEN SetUnreadCount(c1, c1.unread + 1) ELSE c1
    <3>1. h \in Chats /\ m.till \in Nat /\ c \in ChatStates
      BY <1>4, <2>1 DEF ReceiveMessage
    <3>2. c1 \in ChatStates /\ c1.read = c.read /\ c1.unread + 1 \in Int /\ c.read \in Nat
      BY <3>1 DEF ChatStates
    <3>3. chat' = [chat EXCEPT ![h] = c2]
      BY <2>1 DEF ReceiveMessage
    <3> HIDE DEF c1, c
    <3>4. SetUnreadCount(c1, c1.unread + 1) \in ChatStates
          /\ SetUnreadCount(c1, c1.unread + 1).read >= c1.read
      BY <3>2, SetUnreadCountOutcome
    <3>5. c2 \in ChatStates /\ c2.read >= c.read
      BY <3>2, <3>4
    <3> HIDE DEF c2
    <3>6. ChatGrows
      BY <1>1, <3>1, <3>3, <3>5, OneChatGrows DEF c
    <3>7. histories' = histories /\ stale' = stale
      BY <2>1 DEF ReceiveMessage, serverVars
    <3> QED
      BY <1>1, <3>6, <3>7, KeepsSame
  <2>2. CASE ReceiveRead
    <3>1. h \in Chats /\ m.till \in Nat /\ m.unread \in Int /\ c \in ChatStates
      BY <1>4, <2>2 DEF ReceiveRead
    <3>2. c.read \in Nat /\ CountStillUnreadLocal(c, m.till) \in Int
      BY <3>1, StillType DEF ChatStates
    <3>3. ASSUME NEW n \in Int
          PROVE  /\ SetInboxReadTill(SetUnreadCount(c, n), m.till) \in ChatStates
                 /\ SetInboxReadTill(SetUnreadCount(c, n), m.till).read >= c.read
      <4> DEFINE u == SetUnreadCount(c, n)
                 v == SetInboxReadTill(u, m.till)
      <4>1. u \in ChatStates /\ u.read >= c.read
        BY <3>1, SetUnreadCountOutcome
      <4> HIDE DEF u
      <4>2. v \in ChatStates /\ v.read >= u.read
        BY <3>1, <4>1, SetInboxReadTillOutcome
      <4> HIDE DEF v
      <4>3. v.read \in Nat /\ u.read \in Nat
        BY <4>1, <4>2 DEF ChatStates
      <4> QED
        BY <4>1, <4>2, <4>3, <3>2 DEF u, v
    <3>4. SetInboxReadTill(c, m.till) \in ChatStates /\ SetInboxReadTill(c, m.till).read >= c.read
      BY <3>1, SetInboxReadTillOutcome
    <3>5. \/ /\ histories' = histories /\ chat' = chat /\ stale' = stale
          \/ /\ histories' = histories /\ stale' = stale
             /\ \E n \in Int :
                  chat' = [chat EXCEPT ![h] = SetInboxReadTill(SetUnreadCount(c, n), m.till)]
          \/ /\ histories' = RequestDialogEntry(histories, h, FALSE)
             /\ chat' = [chat EXCEPT ![h] = SetInboxReadTill(c, m.till)]
             /\ stale' = stale \cup {h}
      BY <2>2, <3>1, <3>2 DEF ReceiveRead
    <3>6. CASE histories' = histories /\ chat' = chat /\ stale' = stale
      BY <1>1, <3>6, KeepsSame, NoChatGrows
    <3>7. ASSUME histories' = histories, stale' = stale, NEW n \in Int,
                 chat' = [chat EXCEPT ![h] = SetInboxReadTill(SetUnreadCount(c, n), m.till)]
          PROVE  ChatGrows /\ Keeps(histories, histories') /\ stale' \subseteq Chats
      BY <1>1, <3>1, <3>3, <3>7, KeepsSame, OneChatGrows
    <3>8. CASE /\ histories' = RequestDialogEntry(histories, h, FALSE)
               /\ chat' = [chat EXCEPT ![h] = SetInboxReadTill(c, m.till)]
               /\ stale' = stale \cup {h}
      BY <1>1, <3>1, <3>4, <3>8, RequestEntryKeeps, OneChatGrows
    <3> QED
      BY <3>5, <3>6, <3>7, <3>8
  <2>3. CASE ReceiveCancelled
    BY <1>1, <2>3, KeepsSame, NoChatGrows DEF ReceiveCancelled, serverVars
  <2> QED
    BY <2>1, <2>2, <2>3
<1>7. ClientOK'
  BY <1>5, <1>6, ClientStep
<1>8. ApplyingOK'
  BY <1>1, <1>2 DEF ApplyingOK
<1> QED
  BY <1>1, <1>2, <1>6, <1>7, <1>8, ReceiveStep

\* An answer that comes first is that to a live request.
LEMMA AnswerIsTo ==
  ASSUME IInv, NEW m \in Answers, NEW q \in histories.live, IsAnswer(m, q)
  PROVE  /\ q.sent = m.sent /\ m.sent \in Requests
         /\ m.sent.type # "Entries" => \A h \in m.of : h \in Chats /\ q = Live(h, m.sent)
         /\ Without(histories, [histories EXCEPT !.live = @ \ {q}], q)
<1>1. histories \in Objects /\ IdsOK(histories)
  BY DEF IInv, TypeOK, TypeClient, Kept
<1>2. q.sent = m.sent /\ q.of = m.of /\ m.sent \in Requests
  BY DEF IsAnswer, Answers
<1>3. ASSUME m.sent.type # "Entries", NEW h \in m.of PROVE h \in Chats /\ q = Live(h, m.sent)
  <2>1. PICK g \in Chats : q = Live(g, q.sent)
    BY <1>1, <1>2, <1>3 DEF IdsOK
  <2>2. Live(g, q.sent).of = {g}
    BY DEF Live
  <2> QED
    BY <2>1, <2>2, <1>2
<1> QED
  BY <1>1, <1>2, <1>3, AnswerTakesOut

\* A step that handles an answer and keeps the object.
LEMMA AnswerKept ==
  ASSUME IInv, Receive, Keeps(histories, histories'), ApplyingOK', chat' = chat,
         UNCHANGED serverVars, spent' \in Spents, Untoggled' => Untoggled
  PROVE  IInv'
<1>1. ChatGrows
  BY NoChatGrows DEF IInv, TypeOK, TypeClient
<1>2. ClientOK'
  BY <1>1, ClientStep
<1>3. stale' \subseteq Chats /\ UNCHANGED <<server, refused>>
  BY DEF IInv, TypeOK, TypeClient, serverVars
<1> QED
  BY <1>1, <1>2, <1>3, ReceiveStep

\* A page, a message, a deletion, or a request that does not end.
LEMMA ReceiveAnswerStep ==
  ASSUME IInv, ReceivePage \/ ReceiveDeleted \/ ReceiveUnended
  PROVE  IInv'
<1> DEFINE m == Head(inbox)
<1>1. /\ histories \in Objects /\ spent \in Spents /\ chat \in [Chats -> ChatStates]
      /\ inbox \in Seq(Pushes \cup Answers) /\ ApplyingOK /\ IdsOK(histories)
  BY DEF IInv, TypeOK, TypeServer, TypeClient, Spents, ApplyingOK, Kept
<1>2. /\ Receive /\ m.kind = "answer" /\ UNCHANGED serverVars /\ chat' = chat
      /\ applying' = applying
  BY DEF ReceivePage, ReceiveDeleted, ReceiveUnended, ReceiveAnswer
<1>3. m \in Answers
  BY <1>1, <1>2, ReceiveOutcome
<1>4. spent' \in Spents /\ (Untoggled' => Untoggled)
  <2>1. spent' = spent \/ Spend("requests", MaxRequests)
    BY DEF ReceivePage, ReceiveDeleted, ReceiveUnended, ReceiveAnswer
  <2> QED
    BY <1>1, <2>1, SpendOutcome DEF Untoggled
<1>5. PICK q \in histories.live :
        LET w == [histories EXCEPT !.live = @ \ {q}] IN
        /\ IsAnswer(m, q)
        /\ \/ /\ m.sent.type \in {"History", "Send", "Delete"}
              /\ \E h \in m.of :
                   \/ histories' = FinishSentRequest(w, h, m.sent.id)
                   \/ histories' = FinishSentRequest(
                        SendRequest(w, h, "Delete", 0, TRUE), h, m.sent.id)
           \/ /\ m.sent.type \in {"Delete", "ReadInbox"} /\ ~m.sent.finishes
              /\ histories' = w
  <2>1. CASE ReceivePage
    BY <2>1 DEF ReceivePage, ReceiveAnswer
  <2>2. CASE ReceiveDeleted
    BY <2>2 DEF ReceiveDeleted, ReceiveAnswer
  <2>3. CASE ReceiveUnended
    BY <2>3 DEF ReceiveUnended, ReceiveAnswer
  <2> QED
    BY <2>1, <2>2, <2>3
<1> DEFINE w == [histories EXCEPT !.live = @ \ {q}]
           r == m.sent
<1>6. /\ q.sent = r /\ r \in Requests /\ Without(histories, w, q)
      /\ r.type # "Entries" => \A h \in m.of : h \in Chats /\ q = Live(h, r)
  BY <1>3, <1>5, AnswerIsTo
<1>7. Keeps(histories, histories')
  <2>1. ASSUME r.type \in {"History", "Send", "Delete"}, NEW h \in m.of,
               \/ histories' = FinishSentRequest(w, h, r.id)
               \/ histories' = FinishSentRequest(SendRequest(w, h, "Delete", 0, TRUE), h, r.id)
        PROVE  Keeps(histories, histories')
    <3>1. h \in Chats /\ q = Live(h, r)
      BY <1>6, <2>1
    <3> HIDE DEF w, r
    <3>2. /\ Keeps(histories, FinishSentRequest(w, h, r.id))
          /\ Keeps(histories, FinishSentRequest(SendRequest(w, h, "Delete", 0, TRUE), h, r.id))
      BY <1>1, <1>6, <2>1, <3>1, AnsweredKeeps
    <3> QED
      BY <2>1, <3>2
  <2>2. ASSUME ~r.finishes, histories' = w PROVE Keeps(histories, histories')
    <3> HIDE DEF w, r
    <3>1. Keeps(histories, w)
      BY <1>1, <1>6, <2>2, WithoutKeeps
    <3> QED
      BY <2>2, <3>1
  <2> QED
    BY <1>5, <2>1, <2>2
<1>8. ApplyingOK'
  BY <1>1, <1>2 DEF ApplyingOK
<1> QED
  BY <1>2, <1>4, <1>7, <1>8, AnswerKept

\* The answer to sendDialogRequests().
LEMMA ReceiveEntriesStep ==
  ASSUME IInv, ReceiveEntries
  PROVE  IInv'
<1> DEFINE m == Head(inbox)
           entry(h) == IF m.ok THEN m.entries[h] ELSE <<>>
<1>1. /\ histories \in Objects /\ spent \in Spents /\ inbox \in Seq(Pushes \cup Answers)
  BY DEF IInv, TypeOK, TypeServer, TypeClient, Spents
<1>2. /\ Receive /\ m.kind = "answer" /\ UNCHANGED serverVars /\ chat' = chat
      /\ spent' = spent /\ m.sent.type = "Entries"
      /\ applying' = { [chat |-> h, ok |-> m.ok, entry |-> entry(h)] : h \in m.of }
  BY DEF ReceiveEntries, ReceiveAnswer
<1>3. m \in Answers
  BY <1>1, <1>2, ReceiveOutcome
<1>4. PICK q \in histories.live :
        IsAnswer(m, q) /\ histories' = [histories EXCEPT !.live = @ \ {q}]
  BY DEF ReceiveEntries, ReceiveAnswer
<1>5. q.sent = m.sent /\ Without(histories, histories', q)
  BY <1>3, <1>4, AnswerIsTo
<1>6. Keeps(histories, histories')
  BY <1>1, <1>2, <1>5, WithoutKeeps
<1>7. m.of \in SUBSET Chats /\ (m.ok => m.entries \in [m.of -> Fields])
  BY <1>2, <1>3 DEF Answers
<1>8. ApplyingOK'
  <2> SUFFICES ASSUME NEW e \in applying' PROVE e.chat \in Chats /\ (e.ok => e.entry \in Fields)
    BY DEF ApplyingOK
  <2>1. PICK h \in m.of : e = [chat |-> h, ok |-> m.ok, entry |-> entry(h)]
    BY <1>2
  <2>2. e.chat = h /\ e.ok = m.ok /\ e.entry = entry(h)
    BY <2>1
  <2> QED
    BY <2>2, <1>7
<1>9. Untoggled' => Untoggled
  BY <1>2 DEF Untoggled
<1> QED
  BY <1>1, <1>2, <1>6, <1>8, <1>9, AnswerKept

\* The answer to a read of the user.
LEMMA ReceiveReadDoneStep ==
  ASSUME IInv, ReceiveReadDone
  PROVE  IInv'
<1> DEFINE m == Head(inbox)
           r == m.sent
<1>1. /\ histories \in Objects /\ spent \in Spents /\ chat \in [Chats -> ChatStates]
      /\ inbox \in Seq(Pushes \cup Answers) /\ ApplyingOK
      /\ Kept(histories, {}) /\ ArmedOK(histories) /\ stale \subseteq Chats
  BY DEF IInv, TypeOK, TypeServer, TypeClient, Spents, ApplyingOK
<1>2. /\ Receive /\ m.kind = "answer" /\ UNCHANGED serverVars /\ chat' = chat
      /\ applying' = applying /\ spent' = spent
  BY DEF ReceiveReadDone, ReceiveAnswer
<1>3. m \in Answers
  BY <1>1, <1>2, ReceiveOutcome
<1>4. PICK q \in histories.live :
        /\ IsAnswer(m, q) /\ m.sent.type = "ReadInbox"
        /\ \E h \in m.of, due \in Due :
             histories' = Finished([histories EXCEPT !.live = @ \ {q}], chat[h], h, m.sent, due)
  BY DEF ReceiveReadDone, ReceiveAnswer
<1> DEFINE w == [histories EXCEPT !.live = @ \ {q}]
<1>5. PICK h \in m.of, due \in Due : histories' = Finished(w, chat[h], h, r, due)
  BY <1>4
<1>6. /\ r \in Requests /\ Without(histories, w, q) /\ h \in Chats /\ q = Live(h, r)
      /\ r.type = "ReadInbox"
  BY <1>3, <1>4, AnswerIsTo
<1>7. due \in 0 .. Len(histories.armed) /\ chat[h] \in ChatStates /\ Live(h, r) \in histories.live
  BY <1>1, <1>6 DEF Due
<1> HIDE DEF w, r
<1>8. /\ histories' \in Objects /\ Kept(histories', {}) /\ ArmedOK(histories')
      /\ \A marks \in [Chats -> Nat] :
           marks[h] = chat[h].read /\ Strict(histories, marks) => Strict(histories', marks)
  BY <1>1, <1>5, <1>6, <1>7, FinishedOutcome
<1>9. Strict(histories, Marks) => Strict(histories', Marks)
  <2>1. Marks \in [Chats -> Nat] /\ Marks[h] = chat[h].read
    BY <1>1, <1>6 DEF Marks, ChatStates
  <2> QED
    BY <1>8, <2>1
<1>10. ChatGrows
  BY <1>1, <1>2, NoChatGrows
<1>11. Untoggled' => Untoggled
  BY <1>2 DEF Untoggled
<1>12. ClientOK'
  BY <1>8, <1>9, <1>10, <1>11, ClientMoves
<1>13. ApplyingOK' /\ stale' \subseteq Chats /\ UNCHANGED <<server, refused>>
  BY <1>1, <1>2 DEF ApplyingOK, serverVars
<1> QED
  BY <1>1, <1>2, <1>10, <1>12, <1>13, ReceiveStep

\* One entry of an answer is handled.
LEMMA ApplyEntryStep ==
  ASSUME IInv, NEW e \in applying, NEW known \in BOOLEAN, NEW due \in Due,
         ApplyEntry(e, known, due)
  PROVE  IInv'
<1> DEFINE h == e.chat
           c == IF e.ok THEN ApplyDialogFields(chat[h], e.entry) ELSE chat[h]
           v == DialogEntryApplied(histories, c, h, known, due)
<1>1. /\ histories \in Objects /\ chat \in [Chats -> ChatStates]
      /\ ApplyingOK /\ Kept(histories, {}) /\ ArmedOK(histories)
      /\ stale \subseteq Chats /\ due \in Nat /\ TypeServer
  BY DEF IInv, TypeOK, TypeClient, ApplyingOK, Due
<1>2. h \in Chats /\ (e.ok => e.entry \in Fields)
  BY <1>1 DEF ApplyingOK
<1>3. c \in ChatStates /\ c.read >= chat[h].read /\ chat[h].read \in Nat
  <2>1. chat[h] \in ChatStates
    BY <1>1, <1>2
  <2>2. chat[h].read \in Nat
    BY <2>1 DEF ChatStates
  <2> QED
    BY <2>1, <2>2, <1>2, ApplyDialogFieldsOutcome
<1>4. /\ histories' = v[1] /\ chat' = [chat EXCEPT ![h] = v[2]]
      /\ applying' = applying \ {e} /\ UNCHANGED <<inbox, server, refused, spent>>
      /\ stale' \subseteq stale \cup {h}
  BY DEF ApplyEntry
<1> HIDE DEF c, h
<1>5. EntryIsApplied(histories, c, h, v)
  BY <1>1, <1>2, <1>3, DialogEntryAppliedOutcome
<1> HIDE DEF v
<1>6. /\ histories' \in Objects /\ Kept(histories', {}) /\ ArmedOK(histories')
      /\ v[2] \in ChatStates /\ v[2].read >= c.read
      /\ \A marks \in [Chats -> Nat] : marks[h] = c.read /\ Strict(histories, marks) =>
           Strict(histories', [marks EXCEPT ![h] = v[2].read])
  BY <1>4, <1>5 DEF EntryIsApplied
<1>7. c.read \in Nat /\ v[2].read \in Nat
  BY <1>3, <1>6 DEF ChatStates
<1>8. ChatGrows
  <2>1. v[2].read >= chat[h].read
    BY <1>3, <1>6, <1>7
  <2> QED
    BY <1>1, <1>2, <1>4, <1>6, <2>1, OneChatGrows
<1>9. ASSUME Untoggled' PROVE Strict(histories', Marks')
  <2> DEFINE marks == [Marks EXCEPT ![h] = c.read]
  <2>1. Strict(histories, Marks)
    BY <1>4, <1>9 DEF IInv, Untoggled
  <2>2. Marks \in [Chats -> Nat]
    BY <1>1 DEF Marks, ChatStates
  <2>3. Marks[h] = chat[h].read
    BY <1>2 DEF Marks
  <2>4. marks \in [Chats -> Nat] /\ marks[h] = c.read /\ \A g \in Chats : marks[g] >= Marks[g]
    BY <1>2, <1>3, <1>7, <2>2, <2>3
  <2>5. Marks' = [marks EXCEPT ![h] = v[2].read]
    BY <1>1, <1>2, <1>4, <1>6 DEF Marks
  <2> HIDE DEF marks
  <2>6. Strict(histories, marks)
    BY <1>1, <2>1, <2>2, <2>4, StrictMore
  <2> QED
    BY <1>6, <2>4, <2>5, <2>6
<1>10. ClientOK'
  BY <1>6, <1>9 DEF ClientOK
<1>11. TypeServer' /\ ApplyingOK' /\ stale' \subseteq Chats
  BY <1>1, <1>2, <1>4 DEF TypeServer, ApplyingOK
<1>12. chat' \in [Chats -> ChatStates]
  BY <1>8 DEF ChatGrows
<1> QED
  BY <1>10, <1>11, <1>12, IInvParts

\* The invariant holds at first.
LEMMA InitIInv == Init => IInv
<1> SUFFICES ASSUME Init PROVE IInv
  OBVIOUS
<1>1. /\ Fresh \in States /\ Fresh.sent = {} /\ Fresh.postponed = {}
      /\ Fresh.willReadTill = 0 /\ Fresh.sentReadTill = 0
      /\ Fresh.postponedRequestEntry = FALSE
  BY DEF Fresh, States
<1>2. \A h \in Chats : histories.state[h] = Fresh
  BY DEF Init
<1>3. /\ histories.live = {} /\ histories.armed = <<>> /\ histories.asked = {}
      /\ histories.pending = {} /\ histories.sendReadMessages = TRUE
  BY DEF Init
<1>4. histories \in Objects
  <2> DEFINE state == [h \in Chats |-> Fresh]
             lastId == [h \in Chats |-> 0]
             armed == <<>>
  <2>1. state \in [Chats -> States] /\ lastId \in [Chats -> Nat] /\ armed \in Seq(Chats)
    BY <1>1
  <2>2. histories = [ state |-> state, armed |-> armed, timer |-> "off",
                      pending |-> {}, asked |-> {}, callbacks |-> {},
                      posted |-> FALSE, live |-> {},
                      lastId |-> lastId, lastEntries |-> 0, sendReadMessages |-> TRUE ]
    BY DEF Init
  <2> HIDE DEF state, lastId, armed
  <2> QED
    BY <2>1, <2>2 DEF Objects
<1>5. Kept(histories, {})
  <2>1. EntriesOK(histories)
    BY <1>1, <1>2, <1>3 DEF EntriesOK
  <2>2. \A h \in Chats, r \in Requests : ~IsKnown(histories, h, r)
    BY <1>1, <1>2, <1>3 DEF IsKnown
  <2>3. IdsOK(histories)
    BY <2>2, <1>3 DEF IdsOK
  <2>4. Watched(histories, {})
    BY <1>1, <1>2 DEF Watched
  <2> QED
    BY <2>1, <2>3, <2>4 DEF Kept
<1>6. ArmedOK(histories)
  BY <1>1, <1>2, <1>3 DEF ArmedOK, OnlyReadsWait, Waits
<1>7. Strict(histories, Marks)
  BY <1>1, <1>2, <1>3 DEF Strict, PagesOK, MarksOK, PostponeHistoryRequest, Pages
<1>8. ClientOK
  BY <1>4, <1>5, <1>6, <1>7 DEF ClientOK
<1>9. TypeServer
  BY DEF Init, TypeServer
<1>10. chat \in [Chats -> ChatStates] /\ ApplyingOK /\ stale \subseteq Chats
  BY DEF Init, ChatStates, ApplyingOK
<1> QED
  BY <1>8, <1>9, <1>10, IInvParts

\* Every step keeps it.
LEMMA NextIInv == IInv /\ [Next]_vars => IInv'
<1> SUFFICES ASSUME IInv, [Next]_vars PROVE IInv'
  OBVIOUS
<1>1. CASE Server
  <2>1. ASSUME NEW h \in Chats, NewMessage(h) PROVE IInv'
    BY <2>1, PushStep
  <2>2. ASSUME NEW h \in Elsewhere, NEW till \in Tops, ReadElsewhere(h, till) PROVE IInv'
    BY <2>2, PushStep, ChatsAssumption
  <2>3. ASSUME NEW q \in histories.live, Serve(q) \/ Refuse(q) PROVE IInv'
    BY <2>3, AnswerStep
  <2> QED
    BY <1>1, <2>1, <2>2, <2>3 DEF Server
<1>2. CASE Handle
  <2>1. ASSUME NEW e \in applying, NEW known \in BOOLEAN, NEW due \in Due,
               ApplyEntry(e, known, due)
        PROVE  IInv'
    BY <2>1, ApplyEntryStep
  <2> QED
    BY <1>2, <2>1, ReceivePushStep, ReceiveAnswerStep, ReceiveReadDoneStep,
       ReceiveEntriesStep, TimerStep DEF Handle
<1>3. CASE User
  <2>1. ASSUME NEW h \in Chats, NEW till \in Tops, NEW force \in BOOLEAN,
               NEW known \in BOOLEAN, NEW due \in Due, ReadInbox(h, till, force, known, due)
        PROVE  IInv'
    BY <2>1, ReadInboxStep
  <2>2. ASSUME NEW h \in Chats,
               \/ \E type \in {"History", "Delete"} : Ask(h, type)
               \/ Send(h)
               \/ \E type \in {"ReadInbox", "Delete"} : AskUnended(h, type)
        PROVE  IInv'
    BY <2>2, AskStep
  <2>3. ASSUME NEW h \in Chats,
               \/ \E id \in 1 .. histories.lastId[h] : CancelPage(h, id)
               \/ \E callback \in BOOLEAN : AskEntry(h, callback)
               \/ \E due \in Due : LeaveChat(h, due)
        PROVE  IInv'
    BY <2>3, CallStep
  <2> QED
    BY <1>3, <2>1, <2>2, <2>3, ToggleStep DEF User
<1>4. CASE UNCHANGED vars
  BY <1>4 DEF vars, IInv, TypeOK, TypeServer, TypeClient, Untoggled, Marks
<1> QED
  BY <1>1, <1>2, <1>3, <1>4 DEF Next

\* The invariant of Histories holds at every moment, of every chat.
THEOREM InvariantHolds == Spec => []IInv
BY InitIInv, NextIInv, PTL DEF Spec

\* Every variable has its type.
THEOREM TypeCorrect == Spec => []TypeOK
<1>1. IInv => TypeOK
  BY DEF IInv
<1> QED
  BY <1>1, InvariantHolds, PTL

\* finishSentRequest() never finds an entry that is to be asked for again and is
\* not in _dialogRequests, or is about to be asked for: its two assertions.
THEOREM EntriesAreAskedAgainOnce == Spec => []EntryAsserts
<1>1. IInv => EntryAsserts
  BY DEF IInv, Kept, EntriesOK, EntryAsserts
<1> QED
  BY <1>1, InvariantHolds, PTL

\* No read is forgotten: one that is to be sent waits for a timer that runs, one
\* that was sent waits for its answer or for the entry of its chat.
THEOREM ReadsAreWatched == Spec => []ReadsWatched
<1>1. ASSUME IInv, NEW h \in Chats
      PROVE  LET s == histories.state[h] IN
             /\ s.willReadTill # 0 => Waits(histories, h) /\ histories.timer # "off"
             /\ s.sentReadTill # 0 =>
                  \/ \E q \in LiveOf(h, "ReadInbox") : q.sent.till = s.sentReadTill
                  \/ /\ s.sentReadDone
                     /\ \/ h \in histories.pending \cup histories.asked
                        \/ \E e \in applying : e.chat = h
  <2> DEFINE s == histories.state[h]
  <2>1. ASSUME s.willReadTill # 0 PROVE Waits(histories, h) /\ histories.timer # "off"
    <3>1. Waits(histories, h)
      BY <1>1, <2>1 DEF IInv, ArmedOK
    <3>2. histories.armed # <<>>
      BY <3>1 DEF Waits
    <3> QED
      BY <1>1, <3>1, <3>2 DEF IInv, ArmedOK
  <2>2. ASSUME ReadIsOut(histories, h, s.sentReadTill)
        PROVE  \E q \in LiveOf(h, "ReadInbox") : q.sent.till = s.sentReadTill
    <3>1. PICK r \in Requests : /\ Live(h, r) \in histories.live
                                /\ r.type = "ReadInbox" /\ r.till = s.sentReadTill
      BY <2>2 DEF ReadIsOut
    <3>2. Live(h, r).of = {h} /\ Live(h, r).sent = r
      BY DEF Live
    <3>3. Live(h, r) \in LiveOf(h, "ReadInbox")
      BY <3>1, <3>2 DEF LiveOf
    <3> QED
      BY <3>1, <3>2, <3>3
  <2>3. s.sentReadTill # 0 =>
          \/ ReadIsOut(histories, h, s.sentReadTill)
          \/ s.sentReadDone /\ h \in histories.pending \cup histories.asked
    BY <1>1 DEF IInv, Kept, Watched
  <2> QED
    BY <2>1, <2>2, <2>3
<1>2. IInv => ReadsWatched
  BY <1>1 DEF ReadsWatched
<1> QED
  BY <1>2, InvariantHolds, PTL

\* While the switch was not touched, no page of a chat is under way together
\* with a deletion of its messages.
THEOREM PagesStayApart == Spec => [](Untoggled => NoPageWithDelete)
<1>1. ASSUME IInv, Untoggled PROVE NoPageWithDelete
  <2> SUFFICES ASSUME NEW h \in Chats, NEW q \in LiveOf(h, "Delete"),
                      NEW p \in LiveOf(h, "History")
               PROVE  FALSE
    BY DEF NoPageWithDelete
  <2>0. histories \in Objects /\ IdsOK(histories) /\ PagesOK(histories)
    BY <1>1 DEF IInv, TypeOK, TypeClient, Kept, Strict
  <2>1. ASSUME NEW x \in histories.live, h \in x.of, x.sent.type # "Entries"
        PROVE  x = Live(h, x.sent) /\ x.sent \in Requests
    <3>1. PICK g \in Chats : x = Live(g, x.sent)
      BY <2>0, <2>1 DEF IdsOK
    <3>2. Live(g, x.sent).of = {g}
      BY DEF Live
    <3>3. x.sent \in Requests
      BY <2>0 DEF Objects
    <3> QED
      BY <2>1, <3>1, <3>2, <3>3
  <2>2. /\ q \in histories.live /\ h \in q.of /\ q.sent.type = "Delete"
        /\ p \in histories.live /\ h \in p.of /\ p.sent.type = "History"
    BY DEF LiveOf
  <2>3. q.sent \in histories.state[h].sent /\ p.sent \in histories.state[h].sent
    BY <2>0, <2>1, <2>2 DEF PagesOK
  <2>4. PostponeHistoryRequest(histories.state[h]) /\ p.sent \in Pages(histories.state[h])
    BY <2>2, <2>3 DEF PostponeHistoryRequest, Pages
  <2> QED
    BY <2>0, <2>4 DEF PagesOK
<1>2. IInv => (Untoggled => NoPageWithDelete)
  BY <1>1
<1> QED
  BY <1>2, InvariantHolds, PTL

\* While the switch was not touched, sendReadRequest()'s "finished" never finds
\* that its read goes past the last one sent: its assertion.
THEOREM ReadsEndInOrder == Spec => []ReadsInOrder
<1>1. ASSUME IInv, Untoggled PROVE FinishedAssert
  <2> SUFFICES ASSUME NEW h \in Head(inbox).of, NEW q \in histories.live,
                      IsAnswer(Head(inbox), q), inbox # <<>>,
                      q.sent.type = "ReadInbox", q.sent.finishes,
                      histories.state[h].sentReadTill # 0
               PROVE  histories.state[h].sentReadTill >= q.sent.till
    BY DEF FinishedAssert
  <2>0. histories \in Objects /\ IdsOK(histories) /\ MarksOK(histories, Marks)
    BY <1>1 DEF IInv, TypeOK, TypeClient, Kept, Strict
  <2>1. PICK g \in Chats : q = Live(g, q.sent)
    BY <2>0 DEF IdsOK
  <2>2. g = h
    <3>1. Live(g, q.sent).of = {g} /\ Head(inbox).of = q.of
      BY DEF Live, IsAnswer
    <3> QED
      BY <2>1, <3>1
  <2>3. q.sent \in Requests /\ q.sent.till \in Nat /\ histories.state[h].sentReadTill \in Nat
    BY <2>0, <2>2 DEF Objects, States, Requests
  <2>4. q.sent.till <= histories.state[h].sentReadTill
    BY <2>0, <2>1, <2>2, <2>3 DEF MarksOK
  <2> QED
    BY <2>3, <2>4
<1>2. IInv => ReadsInOrder
  BY <1>1 DEF ReadsInOrder
<1> QED
  BY <1>2, InvariantHolds, PTL

(***************************************************************************)
(* Reads and the switch.                                                   *)
(***************************************************************************)
\* A request that is not a read of the user adds none.
LEMMA SendAddsNoReads ==
  ASSUME NEW d \in Objects, NEW h \in Chats,
         NEW type \in {"History", "Delete", "Send", "ReadInbox"},
         NEW till \in Nat, NEW finishes \in BOOLEAN,
         type = "History" => till = 0 /\ finishes = TRUE,
         type = "ReadInbox" => finishes = FALSE
  PROVE  /\ SendRequest(d, h, type, till, finishes) \in Objects
         /\ NoNewReads(d, SendRequest(d, h, type, till, finishes))
<1> DEFINE v == SendRequest(d, h, type, till, finishes)
           r == Sent(d.lastId[h] + 1, type, till, finishes)
<1>1. \A q \in v.live : q \in d.live \/ q = Live(h, r)
  BY SendRequestLive
<1>2. Live(h, r).sent.type = type /\ Live(h, r).sent.finishes = finishes
  BY DEF Live, Sent
<1>3. v \in Objects
  BY SendRequestOutcome
<1> QED
  BY <1>1, <1>2, <1>3 DEF NoNewReads

\* None added after none.
LEMMA NoNewReadsOn ==
  ASSUME NEW d, NEW w, NEW v, NoNewReads(d, w), NoNewReads(w, v)
  PROVE  NoNewReads(d, v)
BY DEF NoNewReads

\* No read of the user is sent by a step of the user or the timer.
LEMMA UserHides ==
  ASSUME IInv, User, ~histories.sendReadMessages
  PROVE  NoNewReads(histories, histories')
<1>1. /\ histories \in Objects /\ ArmedOK(histories) /\ chat \in [Chats -> ChatStates]
      /\ \A h \in Chats : chat[h].top \in Nat /\ histories.lastId[h] \in Nat
  BY DEF IInv, TypeOK, TypeClient, ChatStates, Objects
<1>2. ASSUME NEW h \in Chats, NEW type \in {"History", "Delete"}, Ask(h, type)
      PROVE  NoNewReads(histories, histories')
  <2>1. histories' = SendRequest(histories, h, type, 0, TRUE)
    BY <1>2 DEF Ask
  <2> QED
    BY <1>1, <2>1, SendAddsNoReads
<1>3. ASSUME NEW h \in Chats, Send(h) PROVE NoNewReads(histories, histories')
  <2> DEFINE w == SendRequest(histories, h, "ReadInbox", chat[h].top, FALSE)
  <2>1. \/ histories' = SendRequest(histories, h, "Send", 0, TRUE)
        \/ histories' = SendRequest(w, h, "Send", 0, TRUE)
    BY <1>3 DEF Send
  <2>2. w \in Objects /\ NoNewReads(histories, w)
    BY <1>1, SendAddsNoReads
  <2> HIDE DEF w
  <2>3. NoNewReads(histories, SendRequest(histories, h, "Send", 0, TRUE))
    BY <1>1, SendAddsNoReads
  <2>4. NoNewReads(w, SendRequest(w, h, "Send", 0, TRUE))
    BY <2>2, SendAddsNoReads
  <2>5. NoNewReads(histories, SendRequest(w, h, "Send", 0, TRUE))
    BY <2>2, <2>4, NoNewReadsOn
  <2> QED
    BY <2>1, <2>3, <2>5
<1>4. ASSUME NEW h \in Chats, NEW type \in {"ReadInbox", "Delete"}, AskUnended(h, type)
      PROVE  NoNewReads(histories, histories')
  <2> DEFINE till == IF type = "ReadInbox" THEN chat[h].top ELSE 0
  <2>1. histories' = SendRequest(histories, h, type, till, FALSE)
    BY <1>4 DEF AskUnended
  <2>2. till \in Nat
    BY <1>1
  <2> HIDE DEF till
  <2> QED
    BY <1>1, <2>1, <2>2, SendAddsNoReads
<1>5. ASSUME NEW h \in Chats, NEW id \in 1 .. histories.lastId[h], CancelPage(h, id)
      PROVE  NoNewReads(histories, histories')
  <2> DEFINE s == histories.state[h]
             t == [s EXCEPT !.postponed = s.postponed \ {id}]
             state == [histories.state EXCEPT ![h] = t]
             w == [histories EXCEPT !.state = state]
  <2>1. id \in Nat /\ s \in States
    BY <1>1 DEF Objects
  <2>2. histories' = FinishSentRequest(w, h, id)
    BY <1>1, <1>5 DEF CancelPage, Objects
  <2> HIDE DEF s
  <2>3. t \in States
    BY <2>1 DEF States
  <2> HIDE DEF t
  <2>4. state \in [Chats -> States]
    BY <1>1, <2>3 DEF Objects
  <2> HIDE DEF state
  <2>5. w \in Objects /\ w.live = histories.live
    BY <1>1, <2>4 DEF Objects
  <2> HIDE DEF w
  <2>6. NoNewReads(w, histories')
    BY <2>1, <2>2, <2>5, FinishAddsNoReads
  <2> QED
    BY <2>5, <2>6 DEF NoNewReads
<1>6. ASSUME NEW h \in Chats, NEW callback \in BOOLEAN, AskEntry(h, callback)
      PROVE  NoNewReads(histories, histories')
  <2>1. histories' = RequestDialogEntry(histories, h, callback)
    BY <1>6 DEF AskEntry
  <2>2. histories'.live = histories.live
    BY <1>1, <2>1, RequestEntryOutcome
  <2> QED
    BY <2>2 DEF NoNewReads
<1>7. ASSUME NEW h \in Chats, NEW till \in Tops, NEW force \in BOOLEAN,
             NEW known \in BOOLEAN, NEW due \in Due, ReadInbox(h, till, force, known, due)
      PROVE  NoNewReads(histories, histories')
  <2> DEFINE a == [till |-> till, force |-> force, known |-> known]
  <2>1. histories' = ReadInboxTill(histories, chat[h], h, a, due)
    BY <1>7 DEF ReadInbox
  <2>2. a \in Asked /\ due \in Nat /\ chat[h] \in ChatStates
    BY <1>1, <1>7 DEF ReadInbox, Asked, Due
  <2> HIDE DEF a
  <2>3. Moves(histories, histories')
    BY <1>1, <2>1, <2>2, ReadInboxTillOutcome
  <2> QED
    BY <2>3 DEF Moves, NoNewReads
<1>8. ASSUME NEW h \in Chats, NEW due \in Due, LeaveChat(h, due)
      PROVE  NoNewReads(histories, histories')
  <2>1. histories' = SendPendingReadInbox(histories, h, due) /\ due \in Nat
    BY <1>8 DEF LeaveChat, Due
  <2>2. Proceeds(histories, histories')
    BY <1>1, <2>1, SendPendingOutcome
  <2> QED
    BY <2>2 DEF Proceeds, Moves, NoNewReads
<1>9. ASSUME ToggleSendReadMessages PROVE NoNewReads(histories, histories')
  <2>1. histories'.live = histories.live
    BY <1>1, <1>9 DEF ToggleSendReadMessages, Objects
  <2> QED
    BY <2>1 DEF NoNewReads
<1> QED
  BY <1>2, <1>3, <1>4, <1>5, <1>6, <1>7, <1>8, <1>9 DEF User

\* Nor by the handler of an answer.
LEMMA AnswerHides ==
  ASSUME IInv, ReceivePage \/ ReceiveDeleted \/ ReceiveUnended \/ ReceiveEntries,
         ~histories.sendReadMessages
  PROVE  NoNewReads(histories, histories')
<1> DEFINE m == Head(inbox)
           r == m.sent
<1>1. histories \in Objects /\ inbox \in Seq(Pushes \cup Answers)
  BY DEF IInv, TypeOK, TypeServer, TypeClient
<1>2. Receive /\ m.kind = "answer"
  BY DEF ReceivePage, ReceiveDeleted, ReceiveUnended, ReceiveEntries, ReceiveAnswer
<1>3. m \in Answers
  BY <1>1, <1>2, ReceiveOutcome
<1>4. PICK q \in histories.live :
        LET w == [histories EXCEPT !.live = @ \ {q}] IN
        /\ IsAnswer(m, q)
        /\ \/ /\ m.sent.type # "Entries"
              /\ \E h \in m.of :
                   \/ histories' = FinishSentRequest(w, h, m.sent.id)
                   \/ histories' = FinishSentRequest(
                        SendRequest(w, h, "Delete", 0, TRUE), h, m.sent.id)
           \/ histories' = w
  <2>1. CASE ReceivePage
    BY <2>1 DEF ReceivePage, ReceiveAnswer
  <2>2. CASE ReceiveDeleted
    BY <2>2 DEF ReceiveDeleted, ReceiveAnswer
  <2>3. CASE ReceiveUnended
    BY <2>3 DEF ReceiveUnended, ReceiveAnswer
  <2>4. CASE ReceiveEntries
    BY <2>4 DEF ReceiveEntries, ReceiveAnswer
  <2> QED
    BY <2>1, <2>2, <2>3, <2>4
<1> DEFINE w == [histories EXCEPT !.live = @ \ {q}]
<1>5. /\ r \in Requests /\ Without(histories, w, q)
      /\ r.type # "Entries" => \A h \in m.of : h \in Chats
  BY <1>3, <1>4, AnswerIsTo
<1> HIDE DEF w, r
<1>6. w \in Objects /\ NoNewReads(histories, w) /\ r.id \in Nat
  BY <1>5 DEF Without, NoNewReads, Requests
<1>7. ASSUME r.type # "Entries", NEW h \in m.of,
             \/ histories' = FinishSentRequest(w, h, r.id)
             \/ histories' = FinishSentRequest(SendRequest(w, h, "Delete", 0, TRUE), h, r.id)
      PROVE  NoNewReads(histories, histories')
  <2> DEFINE u == SendRequest(w, h, "Delete", 0, TRUE)
  <2>1. h \in Chats
    BY <1>5, <1>7
  <2>2. u \in Objects /\ NoNewReads(w, u)
    BY <1>6, <2>1, SendAddsNoReads
  <2> HIDE DEF u
  <2>3. NoNewReads(w, FinishSentRequest(w, h, r.id))
    BY <1>6, <2>1, FinishAddsNoReads
  <2>4. NoNewReads(u, FinishSentRequest(u, h, r.id))
    BY <1>6, <2>1, <2>2, FinishAddsNoReads
  <2>5. NoNewReads(histories, FinishSentRequest(w, h, r.id))
    BY <1>6, <2>3, NoNewReadsOn
  <2>6. NoNewReads(histories, u)
    BY <1>6, <2>2, NoNewReadsOn
  <2>7. NoNewReads(histories, FinishSentRequest(u, h, r.id))
    BY <2>4, <2>6, NoNewReadsOn
  <2> QED
    BY <1>7, <2>5, <2>7 DEF u
<1> QED
  BY <1>4, <1>6, <1>7 DEF w, r

\* Nor by any other handler, or the timer.
LEMMA HandleHides ==
  ASSUME IInv, Handle, ~histories.sendReadMessages
  PROVE  NoNewReads(histories, histories')
<1>1. /\ histories \in Objects /\ ArmedOK(histories) /\ chat \in [Chats -> ChatStates]
      /\ inbox \in Seq(Pushes \cup Answers) /\ Kept(histories, {}) /\ ApplyingOK
  BY DEF IInv, TypeOK, TypeServer, TypeClient, ApplyingOK
<1>2. NoNewReads(histories, histories)
  BY DEF NoNewReads
<1>3. ASSUME ReceiveMessage \/ ReceiveRead \/ ReceiveCancelled
      PROVE  NoNewReads(histories, histories')
  <2> DEFINE h == Head(inbox).chat
  <2>1. \/ histories' = histories
        \/ h \in Chats /\ histories' = RequestDialogEntry(histories, h, FALSE)
    <3>1. Receive
      BY <1>3 DEF ReceiveMessage, ReceiveRead, ReceiveCancelled
    <3>2. Head(inbox).kind = "read" => h \in Chats
      BY <1>1, <3>1, ReceiveOutcome DEF Pushes
    <3> QED
      BY <1>3, <3>2 DEF ReceiveMessage, ReceiveRead, ReceiveCancelled
  <2> HIDE DEF h
  <2>2. h \in Chats => RequestDialogEntry(histories, h, FALSE).live = histories.live
    BY <1>1, RequestEntryOutcome
  <2> QED
    BY <2>1, <2>2 DEF NoNewReads
<1>4. ASSUME ReceiveReadDone PROVE NoNewReads(histories, histories')
  <2> DEFINE m == Head(inbox)
             r == m.sent
  <2>1. Receive /\ m.kind = "answer"
    BY <1>4 DEF ReceiveReadDone, ReceiveAnswer
  <2>2. m \in Answers
    BY <1>1, <2>1, ReceiveOutcome
  <2>3. PICK q \in histories.live :
          /\ IsAnswer(m, q) /\ m.sent.type = "ReadInbox"
          /\ \E h \in m.of, due \in Due :
               histories' = Finished([histories EXCEPT !.live = @ \ {q}], chat[h], h, m.sent, due)
    BY <1>4 DEF ReceiveReadDone, ReceiveAnswer
  <2> DEFINE w == [histories EXCEPT !.live = @ \ {q}]
  <2>4. PICK h \in m.of, due \in Due : histories' = Finished(w, chat[h], h, r, due)
    BY <2>3
  <2>5. /\ r \in Requests /\ Without(histories, w, q) /\ h \in Chats /\ q = Live(h, r)
        /\ r.type = "ReadInbox"
    BY <2>2, <2>3, AnswerIsTo
  <2>6. due \in 0 .. Len(histories.armed) /\ chat[h] \in ChatStates /\ Live(h, r) \in histories.live
    BY <1>1, <2>5 DEF Due
  <2> HIDE DEF w, r
  <2> QED
    BY <1>1, <2>4, <2>5, <2>6, FinishedOutcome
<1>5. ASSUME NEW e \in applying, NEW known \in BOOLEAN, NEW due \in Due,
             ApplyEntry(e, known, due)
      PROVE  NoNewReads(histories, histories')
  <2> DEFINE h == e.chat
             c == IF e.ok THEN ApplyDialogFields(chat[h], e.entry) ELSE chat[h]
             v == DialogEntryApplied(histories, c, h, known, due)
  <2>1. h \in Chats /\ (e.ok => e.entry \in Fields) /\ due \in Nat
    BY <1>1 DEF ApplyingOK, Due
  <2>2. c \in ChatStates
    BY <1>1, <2>1, ApplyDialogFieldsOutcome
  <2>3. histories' = v[1]
    BY <1>5 DEF ApplyEntry
  <2> HIDE DEF c, h
  <2>4. EntryIsApplied(histories, c, h, v)
    BY <1>1, <2>1, <2>2, DialogEntryAppliedOutcome
  <2> HIDE DEF v
  <2> QED
    BY <2>3, <2>4 DEF EntryIsApplied, NoNewReads
<1>6. ASSUME PostponedCall PROVE NoNewReads(histories, histories')
  <2> DEFINE d == histories
             held == { h \in d.pending : PostponeEntryRequest(d.state[h]) }
             new == Entries(d.pending \ held, d.lastEntries + 1)
  <2>1. histories'.live \subseteq d.live \cup {new}
    BY <1>1, <1>6 DEF PostponedCall, SendDialogRequests, Objects
  <2>2. new.sent.type = "Entries"
    BY DEF Entries, Sent
  <2> QED
    BY <2>1, <2>2 DEF NoNewReads
<1>7. ASSUME NEW due \in Due, TimerFires(due) PROVE NoNewReads(histories, histories')
  <2> DEFINE w == [histories EXCEPT !.timer = "off"]
  <2>1. histories' = SendReadRequests(w, due)
    BY <1>7 DEF TimerFires
  <2>2. /\ w \in Objects /\ w.state = histories.state /\ w.live = histories.live
        /\ w.armed = histories.armed /\ w.sendReadMessages = histories.sendReadMessages
    BY <1>1 DEF Objects
  <2> HIDE DEF w
  <2>3. OnlyReadsWait(w) /\ due \in 0 .. Len(w.armed)
    BY <1>1, <2>2 DEF ArmedOK, OnlyReadsWait, Waits, Due
  <2>4. Proceeds(w, histories')
    BY <2>1, <2>2, <2>3, SendReadRequestsOutcome
  <2> QED
    BY <2>2, <2>4 DEF Proceeds, Moves, NoNewReads
<1> QED
  BY <1>3, <1>4, <1>5, <1>6, <1>7, AnswerHides DEF Handle

\* With "send read messages" off no step sends a read of the user, whatever was
\* taken, armed or asked for before the switch.
THEOREM ReadsStayHidden == Spec => ReadsHidden
<1>1. ASSUME IInv, [Next]_vars, ~histories.sendReadMessages PROVE Reads' \subseteq Reads
  <2>1. NoNewReads(histories, histories')
    <3>1. CASE Server \/ UNCHANGED vars
      <4>1. histories' = histories
        BY <3>1 DEF Server, NewMessage, ReadElsewhere, Serve, Refuse, vars
      <4> QED
        BY <4>1 DEF NoNewReads
    <3> QED
      BY <1>1, <3>1, UserHides, HandleHides DEF Next
  <2> QED
    BY <2>1 DEF NoNewReads, Reads
<1>2. IInv /\ [Next]_vars => [~histories.sendReadMessages => Reads' \subseteq Reads]_histories
  BY <1>1
<1> QED
  BY <1>2, InvariantHolds, PTL DEF Spec, ReadsHidden

-----------------------------------------------------------------------------
(***************************************************************************)
(* What chats show as read and as unread, while the switch "send read      *)
(* messages" was not touched.                                              *)
(***************************************************************************)

(***************************************************************************)
(* The mark and the count of a chat.                                       *)
(***************************************************************************)
\* v is the chat c, read up to "till", with n unread messages.
ReadUpTo(c, v, till, n) ==
  v \in ChatStates /\ v.top = c.top /\ v.read = till /\ v.unread = n

\* The count and the mark of a chat are set.
LEMMA ChatSet ==
  ASSUME NEW c \in ChatStates, NEW n \in Int, NEW read \in Nat
  PROVE  ReadUpTo(c, [c EXCEPT !.unread = n, !.read = read], read, n)
BY DEF ReadUpTo, ChatStates

\* A count that is set, when it is not below what the mark leaves unread, does
\* not move the mark.
LEMMA CountedAtMark ==
  ASSUME NEW c \in ChatStates, NEW n \in Int, c.read <= c.top, n >= c.top - c.read
  PROVE  ReadUpTo(c, SetUnreadCount(c, n), c.read, n)
<1>0. c.top \in Nat /\ c.read \in Nat /\ c.unread \in Int
  BY DEF ChatStates
<1> DEFINE read == IF n = 0 THEN Max2(c.read, c.top)
                   ELSE IF n = 1 THEN Max2(c.read, c.top - 1) ELSE c.read
           v == [c EXCEPT !.unread = n, !.read = read]
<1>1. read = c.read
  BY <1>0 DEF Max2
<1>2. SetUnreadCount(c, n) = IF n = c.unread THEN c ELSE v
  BY DEF SetUnreadCount
<1> HIDE DEF read
<1>3. v \in ChatStates /\ v.top = c.top /\ v.read = read /\ v.unread = n
  BY <1>0, <1>1 DEF ChatStates
<1> HIDE DEF v
<1> QED
  BY <1>1, <1>2, <1>3 DEF ReadUpTo

\* A mark that is set.
LEMMA MarkedUpTo ==
  ASSUME NEW c \in ChatStates, NEW till \in Nat
  PROVE  ReadUpTo(c, SetInboxReadTill(c, till), Max2(c.read, till), c.unread)
<1>0. c.top \in Nat /\ c.read \in Nat /\ c.unread \in Int
  BY DEF ChatStates
<1>1. Max2(c.read, till) \in Nat
  BY <1>0 DEF Max2
<1> QED
  BY <1>1 DEF SetInboxReadTill, ReadUpTo, ChatStates

\* A count and a mark that are set together, in either order: the mark ends
\* where it was to be.
LEMMA BothSet ==
  ASSUME NEW c \in ChatStates, NEW till \in Nat, NEW n \in Int,
         c.read <= till, till <= c.top, n >= c.top - till
  PROVE  /\ ReadUpTo(c, SetInboxReadTill(SetUnreadCount(c, n), till), till, n)
         /\ ReadUpTo(c, SetUnreadCount(SetInboxReadTill(c, till), n), till, n)
<1>0. c.top \in Nat /\ c.read \in Nat /\ c.unread \in Int
  BY DEF ChatStates
<1>1. ReadUpTo(c, SetUnreadCount(SetInboxReadTill(c, till), n), till, n)
  <2> DEFINE u == SetInboxReadTill(c, till)
  <2>1. ReadUpTo(c, u, till, c.unread)
    <3>1. Max2(c.read, till) = till
      BY <1>0 DEF Max2
    <3> QED
      BY <3>1, MarkedUpTo
  <2> HIDE DEF u
  <2>2. ReadUpTo(u, SetUnreadCount(u, n), u.read, n)
    BY <2>1, CountedAtMark DEF ReadUpTo
  <2> QED
    BY <2>1, <2>2 DEF ReadUpTo, u
<1>2. ReadUpTo(c, SetInboxReadTill(SetUnreadCount(c, n), till), till, n)
  <2> DEFINE read == IF n = 0 THEN Max2(c.read, c.top)
                     ELSE IF n = 1 THEN Max2(c.read, c.top - 1) ELSE c.read
             v == [c EXCEPT !.unread = n, !.read = read]
             u == SetUnreadCount(c, n)
  <2>1. read \in Nat /\ read <= till
    BY <1>0 DEF Max2
  <2>2. u = IF n = c.unread THEN c ELSE v
    BY DEF SetUnreadCount
  <2> HIDE DEF read
  <2>3. v \in ChatStates /\ v.top = c.top /\ v.read = read /\ v.unread = n
    BY <1>0, <2>1 DEF ChatStates
  <2> HIDE DEF v
  <2>4. u \in ChatStates /\ u.top = c.top /\ u.read <= till /\ u.unread = n
    BY <2>1, <2>2, <2>3
  <2> HIDE DEF u
  <2>5. ReadUpTo(u, SetInboxReadTill(u, till), Max2(u.read, till), u.unread)
    BY <2>4, MarkedUpTo
  <2>6. Max2(u.read, till) = till
    BY <2>4 DEF Max2, ChatStates
  <2> QED
    BY <2>4, <2>5, <2>6 DEF ReadUpTo, u
<1> QED
  BY <1>1, <1>2

\* A message that comes is unread, and the mark stays.
LEMMA MessageCounted ==
  ASSUME NEW c \in ChatStates, ShownOK(c), NEW till, till = c.top + 1
  PROVE  LET b == [c EXCEPT !.top = till]
             v == IF b.read < till THEN SetUnreadCount(b, b.unread + 1) ELSE b
         IN  /\ v \in ChatStates /\ v.top = till
             /\ v.read = c.read /\ v.unread = c.unread + 1
<1> DEFINE b == [c EXCEPT !.top = till]
           v == IF b.read < till THEN SetUnreadCount(b, b.unread + 1) ELSE b
<1>0. /\ c.top \in Nat /\ c.read \in Nat /\ c.unread \in Int
      /\ c.read <= c.top /\ c.unread >= c.top - c.read
  BY DEF ChatStates, ShownOK
<1>1. b \in ChatStates /\ b.top = till /\ b.read = c.read /\ b.unread = c.unread
  BY <1>0 DEF ChatStates
<1> HIDE DEF b
<1>2. v = SetUnreadCount(b, b.unread + 1)
  BY <1>0, <1>1
<1>3. b.unread + 1 \in Int /\ b.read <= b.top /\ b.unread + 1 >= b.top - b.read
  BY <1>0, <1>1
<1>4. ReadUpTo(b, SetUnreadCount(b, b.unread + 1), b.read, b.unread + 1)
  BY <1>1, <1>3, CountedAtMark
<1> QED
  BY <1>1, <1>2, <1>4 DEF ReadUpTo, b

\* What is counted as unread, when a read goes on.
LEMMA StillIs ==
  ASSUME NEW c \in ChatStates, ShownOK(c), NEW till \in Nat, till <= c.top
  PROVE  LET n == CountStillUnreadLocal(c, till) IN
         /\ n \in Int /\ n >= 0 /\ (c.read <= till => n >= c.top - till)
         /\ c.read < till => n < c.unread
         /\ c.read < till /\ Exact(c) => n = c.top - till
         /\ c.read >= till => n = c.unread
<1>0. /\ c.top \in Nat /\ c.read \in Nat /\ c.unread \in Int
      /\ c.read <= c.top /\ c.unread >= c.top - c.read
  BY DEF ChatStates, ShownOK
<1> DEFINE n == CountStillUnreadLocal(c, till)
<1>1. CASE c.read < till
  <2>1. n = IF c.unread - (till - c.read) > 0 THEN c.unread - (till - c.read) ELSE 0
    BY <1>0, <1>1 DEF CountStillUnreadLocal, Max2
  <2> HIDE DEF n
  <2> QED
    BY <1>0, <1>1, <2>1 DEF Exact, n
<1>2. CASE ~(c.read < till)
  <2>1. n = c.unread
    BY <1>0, <1>2 DEF CountStillUnreadLocal, Max2
  <2> HIDE DEF n
  <2> QED
    BY <1>0, <1>2, <2>1 DEF Exact, n
<1> QED
  BY <1>1, <1>2

\* History::applyDialogFields(): an entry that is up to date with the chat.
LEMMA EntryCounted ==
  ASSUME NEW c \in ChatStates, NEW e \in Fields, ShownOK(c),
         e.read + e.unread = c.top, e.unread >= 0
  PROVE  LET v == ApplyDialogFields(c, e) IN
         /\ c.read <= e.read => v.read = e.read /\ Exact(v)
         /\ ~(c.read <= e.read) => v = c
         /\ v \in ChatStates /\ v.top = c.top /\ ShownOK(v)
<1>0. /\ c.top \in Nat /\ c.read \in Nat /\ c.unread \in Int
      /\ e.read \in Nat /\ e.unread \in Int
  BY DEF ChatStates, Fields
<1> DEFINE u == SetInboxReadTill(SetUnreadCount(c, e.unread), e.read)
<1>1. ApplyDialogFields(c, e) = IF e.read >= c.read THEN u ELSE c
  BY DEF ApplyDialogFields
<1>2. CASE c.read <= e.read
  <2>1. e.read <= c.top /\ e.unread >= c.top - e.read
    BY <1>0
  <2>2. ReadUpTo(c, u, e.read, e.unread)
    BY <1>0, <1>2, <2>1, BothSet
  <2> HIDE DEF u
  <2>3. ApplyDialogFields(c, e) = u
    BY <1>0, <1>1, <1>2
  <2> QED
    BY <1>0, <1>2, <2>1, <2>2, <2>3 DEF ReadUpTo, ShownOK, Exact
<1>3. CASE ~(c.read <= e.read)
  BY <1>0, <1>1, <1>3
<1> QED
  BY <1>2, <1>3

\* What readInboxTill() makes of the chat: nothing new, or it is read up to
\* "till", and counted no worse than it was.
LocallyRead(c, v, till) ==
  /\ v \in ChatStates /\ v.top = c.top /\ ShownOK(v) /\ v.read >= c.read
  /\ v.read = c.read \/ (c.read < till /\ v.read = till)
  /\ Exact(c) => Exact(v)

\* A read that is taken always changes the count.
LEMMA CountChanges ==
  ASSUME NEW c \in ChatStates, ShownOK(c), NEW d, NEW h, NEW a \in Asked,
         a.till <= c.top, IsNew(d, c, h, a)
  PROVE  ~CountUnchanged(c, a)
<1>1. a.till \in Nat /\ a.force \in BOOLEAN
  BY DEF Asked
<1>2. c.read < a.till => Still(c, a) < c.unread
  BY <1>1, StillIs DEF Still
<1>3. Still(c, a) \in Int /\ c.unread \in Int
  BY <1>1, StillIs DEF Still, ChatStates
<1> QED
  BY <1>2, <1>3 DEF CountUnchanged, IsNew, NeedsRequest

\* A read of the user, as the chat shows it.
LEMMA ReadLocallyCounted ==
  ASSUME NEW c \in ChatStates, ShownOK(c), NEW d, NEW h, NEW a \in Asked,
         a.till <= c.top
  PROVE  LocallyRead(c, ReadLocally(d, c, h, a), a.till)
<1> DEFINE w == SetUnreadCount(SetInboxReadTill(c, a.till), Still(c, a))
           marked == IF ~IsNew(d, c, h, a) THEN c ELSE IF a.known THEN w ELSE c
           v == SetUnreadCount(marked, 0)
<1>0. /\ c.top \in Nat /\ c.read \in Nat /\ c.unread \in Int /\ a.till \in Nat
      /\ c.read <= c.top /\ c.unread >= c.top - c.read
  BY DEF ChatStates, Asked, ShownOK
<1>1. /\ Still(c, a) \in Int /\ Still(c, a) >= 0
      /\ c.read <= a.till => Still(c, a) >= c.top - a.till
      /\ c.read < a.till /\ Exact(c) => Still(c, a) = c.top - a.till
      /\ c.read >= a.till => Still(c, a) = c.unread
  BY <1>0, StillIs DEF Still
<1>2. ReadLocally(d, c, h, a) = IF marked.unread > 0 /\ marked.top = a.till THEN v ELSE marked
  BY CountChanges DEF ReadLocally
<1>3. LocallyRead(c, w, a.till)
  <2>1. CASE c.read < a.till
    <3>1. ReadUpTo(c, w, a.till, Still(c, a))
      BY <1>0, <1>1, <2>1, BothSet
    <3> HIDE DEF w
    <3> QED
      BY <1>0, <1>1, <2>1, <3>1 DEF ReadUpTo, LocallyRead, ShownOK, Exact
  <2>2. CASE ~(c.read < a.till)
    <3> DEFINE u == SetInboxReadTill(c, a.till)
    <3>1. ReadUpTo(c, u, c.read, c.unread)
      <4>1. Max2(c.read, a.till) = c.read
        BY <1>0, <2>2 DEF Max2
      <4> QED
        BY <1>0, <4>1, MarkedUpTo
    <3> HIDE DEF u
    <3>2. SetUnreadCount(u, c.unread) = u
      BY <3>1 DEF SetUnreadCount, ReadUpTo
    <3>3. w = u
      BY <1>0, <1>1, <2>2, <3>2 DEF u
    <3> HIDE DEF w
    <3> QED
      BY <1>0, <3>1, <3>3 DEF ReadUpTo, LocallyRead, ShownOK, Exact
  <2> QED
    BY <2>1, <2>2
<1>4. LocallyRead(c, c, a.till)
  BY <1>0 DEF LocallyRead, ShownOK
<1> HIDE DEF w
<1>5. LocallyRead(c, marked, a.till)
  BY <1>3, <1>4
<1> HIDE DEF marked
<1>6. CASE marked.unread > 0 /\ marked.top = a.till
  <2>1. /\ marked \in ChatStates /\ marked.top = c.top /\ marked.top = a.till
        /\ marked.read <= marked.top /\ marked.read \in Nat /\ marked.unread \in Int
    BY <1>5, <1>6 DEF LocallyRead, ChatStates, ShownOK
  <2> DEFINE read == Max2(marked.read, marked.top)
             u == [marked EXCEPT !.unread = 0, !.read = read]
  <2>2. v = u
    BY <1>6, <2>1 DEF SetUnreadCount
  <2> HIDE DEF v
  <2>3. read = a.till
    BY <1>0, <2>1 DEF Max2
  <2> HIDE DEF read
  <2>4. u \in ChatStates /\ u.top = marked.top /\ u.read = a.till /\ u.unread = 0
    <3>1. read \in Nat /\ 0 \in Int
      BY <1>0, <2>3
    <3>2. ReadUpTo(marked, [marked EXCEPT !.unread = 0, !.read = read], read, 0)
      BY <2>1, <3>1, ChatSet
    <3> QED
      BY <2>3, <3>2 DEF ReadUpTo
  <2> HIDE DEF u
  <2>5. LocallyRead(c, v, a.till)
    BY <1>0, <2>1, <2>2, <2>4 DEF LocallyRead, ShownOK, Exact
  <2> QED
    BY <1>2, <1>6, <2>5
<1>7. CASE ~(marked.unread > 0 /\ marked.top = a.till)
  BY <1>2, <1>5, <1>7
<1> QED
  BY <1>6, <1>7

(***************************************************************************)
(* Reads that go on.                                                       *)
(***************************************************************************)
\* The reads of h stay as they are, but for a flag without a meaning.
Stays(d, v, h) ==
  /\ v.state[h].willReadTill = d.state[h].willReadTill
  /\ v.state[h].sentReadTill = d.state[h].sentReadTill
  /\ IsDone(v, h) => IsDone(d, h)

\* The read of h that was to be sent is sent.
IsSent(d, v, h) ==
  /\ d.state[h].willReadTill # 0 /\ v.state[h].willReadTill = 0
  /\ v.state[h].sentReadTill = d.state[h].willReadTill
  /\ ~v.state[h].sentReadDone
  /\ ReadBeyond(v, h, d.state[h].willReadTill)

\* From d to v no read of h that is out is dropped, and none is added but the
\* one that was to be sent.
Passes(d, v, h) ==
  /\ \A r \in Requests :
       Live(h, r) \in d.live /\ r.type = "ReadInbox" => Live(h, r) \in v.live
  /\ \A r \in Requests : Live(h, r) \in v.live /\ r.type = "ReadInbox" =>
       \/ Live(h, r) \in d.live
       \/ r.till = d.state[h].willReadTill /\ r.till # 0 /\ r.finishes
  /\ Stays(d, v, h) \/ IsSent(d, v, h)

AllPass(d, v) == v \in Objects /\ \A g \in Chats : Passes(d, v, g)

\* The same states and the same requests.
LEMMA PassesSame ==
  ASSUME NEW d, NEW v \in Objects, v.live = d.live,
         \A g \in Chats : Stays(d, v, g)
  PROVE  AllPass(d, v)
BY DEF AllPass, Passes

\* One thing after another, for one chat.
LEMMA PassesAfter ==
  ASSUME NEW d, NEW w, NEW v, NEW h, Passes(d, w, h), Passes(w, v, h)
  PROVE  Passes(d, v, h)
<1>1. Passes(d, w, h) /\ Passes(w, v, h)
  OBVIOUS
<1>2. \A r \in Requests :
        Live(h, r) \in d.live /\ r.type = "ReadInbox" => Live(h, r) \in v.live
  BY <1>1 DEF Passes
<1>3. CASE Stays(d, w, h)
  <2>1. \A r \in Requests : Live(h, r) \in v.live /\ r.type = "ReadInbox" =>
          \/ Live(h, r) \in d.live
          \/ r.till = d.state[h].willReadTill /\ r.till # 0 /\ r.finishes
    BY <1>1, <1>3 DEF Passes, Stays
  <2>2. Stays(d, v, h) \/ IsSent(d, v, h)
    BY <1>1, <1>3 DEF Passes, Stays, IsSent
  <2> QED
    BY <1>2, <2>1, <2>2 DEF Passes
<1>4. CASE IsSent(d, w, h)
  <2>1. w.state[h].willReadTill = 0 /\ Stays(w, v, h)
    BY <1>1, <1>4 DEF Passes, IsSent
  <2>2. \A r \in Requests : Live(h, r) \in v.live /\ r.type = "ReadInbox" =>
          \/ Live(h, r) \in d.live
          \/ r.till = d.state[h].willReadTill /\ r.till # 0 /\ r.finishes
    BY <1>1, <2>1 DEF Passes
  <2>3. ReadBeyond(v, h, d.state[h].willReadTill)
    BY <1>1, <1>4 DEF Passes, IsSent, ReadBeyond
  <2>4. IsSent(d, v, h)
    BY <1>4, <2>1, <2>3 DEF Stays, IsSent, IsDone
  <2> QED
    BY <1>2, <2>2, <2>4 DEF Passes
<1> QED
  BY <1>1, <1>3, <1>4 DEF Passes

\* And for all of them.
LEMMA PassesOn ==
  ASSUME NEW d, NEW w, NEW v, AllPass(d, w), AllPass(w, v)
  PROVE  AllPass(d, v)
BY PassesAfter DEF AllPass

\* sendRequest(), for anything but a read.
LEMMA SendRequestPasses ==
  ASSUME NEW d \in Objects, NEW h \in Chats, NEW type \in {"History", "Delete", "Send"},
         NEW finishes \in BOOLEAN, type = "History" => finishes = TRUE
  PROVE  AllPass(d, SendRequest(d, h, type, 0, finishes))
<1> DEFINE v == SendRequest(d, h, type, 0, finishes)
           r == Sent(d.lastId[h] + 1, type, 0, finishes)
<1>1. v \in Objects /\ r \in Requests /\ Sends(d, v, h, r)
  BY SendRequestOutcome
<1>2. /\ r.id = d.lastId[h] + 1 /\ r.type = type
      /\ r.type = "History" => r = Sent(r.id, "History", 0, TRUE)
  BY DEF Sent
<1> HIDE DEF v, r
<1>3. /\ \A g \in Chats, x \in Requests : Live(g, x) \in v.live =>
           Live(g, x) \in d.live \/ (g = h /\ x = r)
      /\ \A g \in Chats, x \in Requests : Live(g, x) \in d.live /\ x.type # "History" =>
           Live(g, x) \in v.live
      /\ \A q \in v.live : q \in d.live \/ q = Live(h, r)
      /\ IdsOK(d) => \A g \in Chats, x \in Requests :
           IsKnown(v, g, x) => IsKnown(d, g, x) \/ (g = h /\ x = r)
  BY <1>1, <1>2, SendsKnown
<1>4. \A g \in Chats : Stays(d, v, g)
  BY <1>1 DEF Sends, Stays, IsDone
<1>5. ASSUME NEW g \in Chats PROVE Passes(d, v, g)
  BY <1>2, <1>3, <1>4 DEF Passes
<1> QED
  BY <1>1, <1>5 DEF AllPass, v

\* finishSentRequest(), when no read that is out has this id.
LEMMA FinishPasses ==
  ASSUME NEW d \in Objects, NEW h \in Chats, NEW id \in Nat, NoReadHas(d, h, id)
  PROVE  AllPass(d, FinishSentRequest(d, h, id))
<1> DEFINE v == FinishSentRequest(d, h, id)
<1>1. v \in Objects /\ Ends(d, v, h, id)
  BY FinishOutcome
<1> HIDE DEF v
<1>2. /\ \A g \in Chats, x \in Requests : Live(g, x) \in v.live =>
           Live(g, x) \in d.live \/ (g = h /\ x.type = "History" /\ x \in v.state[h].sent)
      /\ \A g \in Chats, x \in Requests :
           Live(g, x) \in d.live /\ (g # h \/ x.id # id) => Live(g, x) \in v.live
  BY <1>1, EndsKnown
<1>3. \A g \in Chats : Stays(d, v, g)
  BY <1>1 DEF Ends, Stays, IsDone
<1>4. ASSUME NEW g \in Chats PROVE Passes(d, v, g)
  BY <1>2, <1>3 DEF Passes, NoReadHas
<1> QED
  BY <1>1, <1>4 DEF AllPass, v

\* requestDialogEntry().
LEMMA RequestEntryPasses ==
  ASSUME NEW d \in Objects, NEW h \in Chats, NEW callback \in BOOLEAN
  PROVE  AllPass(d, RequestDialogEntry(d, h, callback))
<1> DEFINE v == RequestDialogEntry(d, h, callback)
<1>1. v \in Objects /\ v.state = d.state /\ v.live = d.live
  BY RequestEntryOutcome
<1> HIDE DEF v
<1>2. \A g \in Chats : Stays(d, v, g)
  BY <1>1 DEF Stays, IsDone
<1> QED
  BY <1>1, <1>2, PassesSame DEF v

\* sendReadRequests(), with the setting on.
LEMMA SendReadRequestsPasses ==
  ASSUME NEW d \in Objects, d.sendReadMessages, NEW due \in 0 .. Len(d.armed),
         OnlyReadsWait(d)
  PROVE  AllPass(d, SendReadRequests(d, due))
<1> DEFINE later == SubSeq(d.armed, due + 1, Len(d.armed))
           now == { h \in Chats : /\ d.state[h].willReadTill # 0
                                  /\ \A i \in DOMAIN later : later[i] # h }
           w == SendReads(d, now)
           v == [w EXCEPT !.armed = later, !.timer = Deadline(later)]
           u == SendReadRequests(d, due)
<1>1. u \in Objects
  BY SendReadRequestsOutcome DEF Proceeds, Moves
<1>2. u = SendDueReads(d, due)
  BY DEF SendReadRequests
<1>3. u = IF \A h \in Chats : d.state[h] = Fresh THEN d ELSE v
  BY <1>2 DEF SendDueReads
<1> HIDE DEF u
<1>4. now \in SUBSET Chats /\ \A h \in now : d.state[h].willReadTill # 0
  OBVIOUS
<1> HIDE DEF now
<1>5. w \in Objects /\ ReadsSent(d, w, now) /\ \A h \in now : ~w.state[h].sentReadDone
  <2>1. w \in Objects /\ ReadsSent(d, w, now)
    BY <1>4, SendReadsOutcome
  <2>2. ASSUME NEW h \in now PROVE w.state[h].sentReadDone = FALSE
    <3> DEFINE r == [g \in now |-> Sent(d.lastId[g] + 1, "ReadInbox",
                                        d.state[g].willReadTill, TRUE)]
    <3>1. /\ d.state \in [Chats -> States] /\ d.state[h] \in States /\ h \in Chats
      BY <1>4 DEF Objects
    <3>2. w.state[h] = [d.state[h] EXCEPT
            !.sent = @ \cup {r[h]}, !.sentReadTill = r[h].till, !.willReadTill = 0,
            !.sentReadDone = FALSE, !.postponedRequestEntry = @ \/ h \in d.asked]
      BY <3>1, <1>4 DEF SendReads, Objects
    <3> HIDE DEF r, w
    <3> QED
      BY <3>1, <3>2 DEF States
  <2> QED
    BY <2>1, <2>2
<1> HIDE DEF w
<1>6. v.state = w.state /\ v.live = w.live
  BY <1>5 DEF Objects
<1> HIDE DEF v
<1>7. CASE \A h \in Chats : d.state[h] = Fresh
  <2>1. \A g \in Chats : Stays(d, d, g)
    BY DEF Stays
  <2> QED
    BY <1>3, <1>7, <2>1, PassesSame DEF u
<1>8. CASE ~(\A h \in Chats : d.state[h] = Fresh)
  <2>0. u = v
    BY <1>3, <1>8
  <2> SUFFICES ASSUME NEW h \in Chats PROVE Passes(d, v, h)
    BY <1>1, <2>0 DEF AllPass, u
  <2>1. /\ v.live = d.live \cup { Live(g, NewRead(d)[g]) : g \in now }
        /\ \A g \in Chats \ now : v.state[g] = d.state[g]
        /\ \A g \in now : /\ v.state[g].willReadTill = 0
                          /\ v.state[g].sentReadTill = d.state[g].willReadTill
                          /\ ~v.state[g].sentReadDone
    BY <1>5, <1>6 DEF ReadsSent
  <2>2. /\ NewRead(d)[h] \in Requests /\ NewRead(d)[h].type = "ReadInbox"
        /\ NewRead(d)[h].till = d.state[h].willReadTill /\ NewRead(d)[h].finishes
        /\ d.state[h].willReadTill \in Nat
    BY NewReadIs
  <2>3. ASSUME NEW r \in Requests, Live(h, r) \in v.live
        PROVE  Live(h, r) \in d.live \/ (h \in now /\ r = NewRead(d)[h])
    BY <2>1, <2>3, LiveIsOne
  <2>4. Stays(d, v, h) \/ IsSent(d, v, h)
    <3>1. CASE h \in now
      <4>1. Live(h, NewRead(d)[h]) \in v.live
        BY <2>1, <3>1
      <4>2. ReadBeyond(v, h, d.state[h].willReadTill)
        BY <2>2, <4>1 DEF ReadBeyond
      <4> QED
        BY <1>4, <2>1, <3>1, <4>2 DEF IsSent
    <3>2. CASE h \notin now
      BY <2>1, <3>2 DEF Stays, IsDone
    <3> QED
      BY <3>1, <3>2
  <2> QED
    BY <1>4, <2>1, <2>2, <2>3, <2>4 DEF Passes
<1> QED
  BY <1>7, <1>8

\* sendDialogRequests().
LEMMA SendEntriesPasses ==
  ASSUME NEW d \in Objects
  PROVE  AllPass(d, [SendDialogRequests(d) EXCEPT !.posted = FALSE])
<1> DEFINE held == { h \in d.pending : PostponeEntryRequest(d.state[h]) }
           state == [h \in Chats |->
                       IF h \in held THEN [d.state[h] EXCEPT !.postponedRequestEntry = TRUE]
                       ELSE d.state[h]]
           q == Entries(d.pending \ held, d.lastEntries + 1)
           v == [SendDialogRequests(d) EXCEPT !.posted = FALSE]
<1>1. v \in Objects
  BY SendEntriesKeeps DEF Keeps
<1>2. CASE d.pending = {}
  <2>1. v.state = d.state /\ v.live = d.live
    BY <1>2 DEF SendDialogRequests, Objects
  <2> HIDE DEF v
  <2> QED
    BY <1>1, <2>1, PassesSame DEF Stays, IsDone, v
<1>3. CASE d.pending # {}
  <2>1. v.state = state /\ v.live = d.live \cup {q}
    BY <1>3 DEF SendDialogRequests, Objects
  <2>2. q.sent.type = "Entries"
    BY DEF Entries, Sent
  <2> HIDE DEF v, q, held
  <2>3. ASSUME NEW h \in Chats
        PROVE  /\ state[h].willReadTill = d.state[h].willReadTill
               /\ state[h].sentReadTill = d.state[h].sentReadTill
               /\ state[h].sentReadDone = d.state[h].sentReadDone
    <3>1. d.state[h] \in States
      BY DEF Objects
    <3> QED
      BY <3>1 DEF States
  <2> HIDE DEF state
  <2>4. ASSUME NEW h \in Chats, NEW r \in Requests, r.type = "ReadInbox"
        PROVE  Live(h, r) \in v.live <=> Live(h, r) \in d.live
    <3>1. Live(h, r).sent = r
      BY DEF Live
    <3> QED
      BY <2>1, <2>2, <2>4, <3>1
  <2>5. \A g \in Chats : Stays(d, v, g)
    BY <2>1, <2>3 DEF Stays, IsDone
  <2>6. ASSUME NEW g \in Chats PROVE Passes(d, v, g)
    BY <2>4, <2>5 DEF Passes
  <2> QED
    BY <1>1, <2>6 DEF AllPass, v
<1> QED
  BY <1>2, <1>3

\* w is d but for what waits and the timer.
LEMMA ArmedPasses ==
  ASSUME NEW d, NEW w \in Objects, w.state = d.state, w.live = d.live
  PROVE  AllPass(d, w)
<1>1. \A g \in Chats : Stays(d, w, g)
  BY DEF Stays, IsDone
<1> QED
  BY <1>1, PassesSame

\* A chat that need not wait any more.
LEMMA SendNowPasses ==
  ASSUME NEW d \in Objects, d.sendReadMessages, NEW h \in Chats, NEW due \in Nat,
         OnlyReadsWait(d)
  PROVE  AllPass(d, SendNow(d, h, due))
<1> DEFINE rest == WaitBut(d, h)
           w == [d EXCEPT !.armed = rest]
           n == IF due > Len(rest) THEN Len(rest) ELSE due
           v == SendReadRequests(w, n)
<1>1. /\ rest \in Seq(Chats)
      /\ \A i \in DOMAIN rest : \E j \in DOMAIN d.armed : rest[i] = d.armed[j]
  BY WaitButProperties
<1>2. SendNow(d, h, due) = v
  BY DEF SendNow
<1> HIDE DEF rest
<1>3. /\ w \in Objects /\ w.armed = rest /\ w.state = d.state /\ w.live = d.live
      /\ w.sendReadMessages = d.sendReadMessages
  BY <1>1 DEF Objects
<1> HIDE DEF w
<1>4. OnlyReadsWait(w)
  BY <1>1, <1>3 DEF OnlyReadsWait, Waits
<1>5. n \in 0 .. Len(w.armed)
  BY <1>1, <1>3, LenProperties
<1> HIDE DEF n
<1>6. AllPass(w, v)
  BY <1>3, <1>4, <1>5, SendReadRequestsPasses
<1>7. AllPass(d, w)
  BY <1>3, ArmedPasses
<1> QED
  BY <1>2, <1>6, <1>7, PassesOn

\* sendPendingReadInbox().
LEMMA SendPendingPasses ==
  ASSUME NEW d \in Objects, d.sendReadMessages, NEW h \in Chats, NEW due \in Nat,
         OnlyReadsWait(d)
  PROVE  AllPass(d, SendPendingReadInbox(d, h, due))
<1>1. AllPass(d, d)
  BY ArmedPasses
<1> QED
  BY <1>1, SendNowPasses DEF SendPendingReadInbox

\* An answer to anything but a read.
LEMMA WithoutPasses ==
  ASSUME NEW d \in Objects, NEW q, NEW w, Without(d, w, q), q.sent.type # "ReadInbox"
  PROVE  AllPass(d, w)
<1>1. \A g \in Chats : Stays(d, w, g)
  BY DEF Without, Stays, IsDone
<1>2. \A g \in Chats, r \in Requests : r.type = "ReadInbox" =>
        (Live(g, r) \in w.live <=> Live(g, r) \in d.live)
  BY DEF Without, Live
<1>3. ASSUME NEW g \in Chats PROVE Passes(d, w, g)
  BY <1>1, <1>2 DEF Passes
<1> QED
  BY <1>3 DEF AllPass, Without

\* A page that is given up.
LEMMA CancelPasses ==
  ASSUME NEW d \in Objects, IdsOK(d), NEW h \in Chats, NEW id \in Nat,
         id \in d.state[h].postponed \cup { p.id : p \in Pages(d.state[h]) }
  PROVE  AllPass(d, FinishSentRequest([d EXCEPT !.state[h].postponed = @ \ {id}], h, id))
<1> DEFINE s == d.state[h]
           postponed == s.postponed \ {id}
           t == [s EXCEPT !.postponed = postponed]
           state == [d.state EXCEPT ![h] = t]
           w == [d EXCEPT !.state = state]
<1>1. s \in States /\ d.state \in [Chats -> States]
  BY DEF Objects
<1>2. [d EXCEPT !.state[h].postponed = @ \ {id}] = w
  BY <1>1 DEF Objects
<1> HIDE DEF s
<1>3. postponed \in SUBSET Nat
  BY <1>1 DEF States
<1> HIDE DEF postponed
<1>4. /\ t \in States
      /\ t.willReadTill = s.willReadTill /\ t.sentReadTill = s.sentReadTill
      /\ t.sentReadDone = s.sentReadDone
  BY <1>1, <1>3 DEF States
<1> HIDE DEF t
<1>5. state \in [Chats -> States] /\ state[h] = t /\ \A g \in Chats \ {h} : state[g] = d.state[g]
  BY <1>1, <1>4
<1> HIDE DEF state
<1>6. w \in Objects /\ w.state = state /\ w.live = d.live
  BY <1>5 DEF Objects
<1> HIDE DEF w
<1>7. \A g \in Chats : Stays(d, w, g)
  BY <1>4, <1>5, <1>6 DEF s, Stays, IsDone
<1>8. AllPass(d, w)
  BY <1>6, <1>7, PassesSame
<1>9. NoReadHas(d, h, id)
  <2>1. PICK r \in Requests : IsKnown(d, h, r) /\ r.type = "History" /\ r.id = id
    <3>1. CASE id \in d.state[h].postponed
      <4> DEFINE r == Sent(id, "History", 0, TRUE)
      <4>1. r \in Requests /\ r.id = id /\ r.type = "History"
        BY DEF Sent, Requests
      <4>2. IsKnown(d, h, r)
        BY <3>1, <4>1 DEF IsKnown
      <4> QED
        BY <4>1, <4>2
    <3>2. CASE \E p \in Pages(d.state[h]) : p.id = id
      BY <3>2 DEF Pages, IsKnown, Objects, States
    <3> QED
      BY <3>1, <3>2
  <2> QED
    BY <2>1, KnownHasNoRead
<1>10. NoReadHas(w, h, id)
  BY <1>6, <1>9 DEF NoReadHas
<1>11. AllPass(w, FinishSentRequest(w, h, id))
  BY <1>6, <1>10, FinishPasses
<1> QED
  BY <1>2, <1>8, <1>11, PassesOn

\* The answer to a page, a message or a deletion.
LEMMA AnsweredPasses ==
  ASSUME NEW d \in Objects, IdsOK(d), NEW h \in Chats, NEW r \in Requests,
         Live(h, r) \in d.live, r.type \in {"History", "Delete", "Send"},
         NEW w, Without(d, w, Live(h, r))
  PROVE  /\ AllPass(d, w)
         /\ AllPass(d, FinishSentRequest(w, h, r.id))
         /\ AllPass(d, FinishSentRequest(SendRequest(w, h, "Delete", 0, TRUE), h, r.id))
<1> DEFINE u == SendRequest(w, h, "Delete", 0, TRUE)
<1>1. IsKnown(d, h, r) /\ r.type # "ReadInbox" /\ r.id \in Nat
  BY DEF IsKnown, Requests
<1>2. AllPass(d, w) /\ w \in Objects /\ w.live \subseteq d.live
  <2>1. Live(h, r).sent = r
    BY DEF Live
  <2> QED
    BY <1>1, <2>1, WithoutPasses DEF Without
<1>3. NoReadHas(d, h, r.id)
  BY <1>1, KnownHasNoRead
<1>4. NoReadHas(w, h, r.id)
  BY <1>2, <1>3 DEF NoReadHas
<1>5. AllPass(w, FinishSentRequest(w, h, r.id))
  BY <1>1, <1>2, <1>4, FinishPasses
<1>6. AllPass(w, u) /\ u \in Objects
  BY <1>2, SendRequestPasses DEF AllPass
<1>7. NoReadHas(u, h, r.id)
  <2> DEFINE t == Sent(w.lastId[h] + 1, "Delete", 0, TRUE)
  <2>1. \A x \in Requests : Live(h, x) \in u.live => Live(h, x) \in w.live \/ x = t
    BY <1>2, SendRequestLive
  <2>2. t.type = "Delete"
    BY DEF Sent
  <2> HIDE DEF t, u
  <2> QED
    BY <1>4, <2>1, <2>2 DEF NoReadHas
<1> HIDE DEF u
<1>8. AllPass(u, FinishSentRequest(u, h, r.id))
  BY <1>1, <1>6, <1>7, FinishPasses
<1>9. AllPass(w, FinishSentRequest(u, h, r.id))
  BY <1>6, <1>8, PassesOn
<1> QED
  BY <1>2, <1>5, <1>9, PassesOn DEF u

(***************************************************************************)
(* What the chat shows, and the reads that go on.                          *)
(***************************************************************************)
\* A read that is done was done before.
KeepsDone(d, v, h) ==
  IsDone(v, h) => IsDone(d, h) /\ v.state[h].sentReadTill = d.state[h].sentReadTill

\* What is said of the reads of a chat holds on when they go on.
LEMMA PassesKeep ==
  ASSUME NEW d \in Objects, NEW v \in Objects, NEW h \in Chats, Passes(d, v, h),
         NEW top \in Nat, ReadsFit(d, h, top)
  PROVE  /\ ReadsFit(v, h, top) /\ KeepsDone(d, v, h)
         /\ \A n \in Nat : Remembers(d, h, n) => Remembers(v, h, n)
         /\ \A mark \in Nat, known \in Nat : Told(d, h, mark, known) => Told(v, h, mark, known)
<1> DEFINE s == d.state[h]
           t == v.state[h]
<1>0. /\ s.willReadTill \in Nat /\ s.sentReadTill \in Nat
      /\ t.willReadTill \in Nat /\ t.sentReadTill \in Nat
  BY DEF Objects, States
<1>1. \A r \in Requests : r.till \in Nat
  BY DEF Requests
<1>2. /\ s.willReadTill <= top /\ s.sentReadTill <= top
      /\ s.willReadTill # 0 => s.sentReadTill < s.willReadTill
  BY DEF ReadsFit
<1>3. \A n \in Nat : ReadBeyond(d, h, n) => ReadBeyond(v, h, n)
  BY DEF Passes, ReadBeyond
<1>4. \A r \in Requests : Live(h, r) \in v.live /\ r.type = "ReadInbox" =>
        r.till \in 1 .. top /\ r.finishes
  BY <1>0, <1>1, <1>2 DEF Passes, ReadsFit
<1>5. \A m \in Nat, n \in Nat : m <= n /\ ReadBeyond(v, h, n) => ReadBeyond(v, h, m)
  BY <1>1 DEF ReadBeyond
<1>6. CASE Stays(d, v, h)
  <2>1. t.willReadTill = s.willReadTill /\ t.sentReadTill = s.sentReadTill
    BY <1>6 DEF Stays
  <2>2. ReadsFit(v, h, top)
    BY <1>2, <1>4, <2>1 DEF ReadsFit
  <2>3. \A n \in Nat : Remembers(d, h, n) => Remembers(v, h, n)
    BY <1>3, <2>1 DEF Remembers
  <2>4. \A mark \in Nat, known \in Nat : Told(d, h, mark, known) => Told(v, h, mark, known)
    BY <1>0, <1>3, <2>1 DEF Told
  <2>5. KeepsDone(d, v, h)
    BY <1>6 DEF Stays, KeepsDone
  <2> QED
    BY <2>2, <2>3, <2>4, <2>5
<1>7. CASE IsSent(d, v, h)
  <2>1. /\ s.willReadTill # 0 /\ t.willReadTill = 0 /\ t.sentReadTill = s.willReadTill
        /\ ~t.sentReadDone /\ ReadBeyond(v, h, s.willReadTill)
    BY <1>7 DEF IsSent
  <2>2. ReadsFit(v, h, top)
    BY <1>0, <1>2, <1>4, <2>1 DEF ReadsFit
  <2>3. \A n \in Nat : Remembers(d, h, n) => Remembers(v, h, n)
    BY <1>0, <1>2, <1>3, <2>1 DEF Remembers
  <2>4. \A mark \in Nat, known \in Nat : Told(d, h, mark, known) => Told(v, h, mark, known)
    BY <1>0, <1>3, <1>5, <2>1 DEF Told
  <2>5. KeepsDone(d, v, h)
    BY <2>1 DEF IsDone, KeepsDone
  <2> QED
    BY <2>2, <2>3, <2>4, <2>5
<1> QED
  BY <1>6, <1>7 DEF Passes

\* The same, with the chat.
LEMMA PassesFit ==
  ASSUME NEW d \in Objects, NEW v \in Objects, NEW h \in Chats, Passes(d, v, h),
         NEW c \in ChatStates, NEW known \in Nat, ClientFits(d, c, h, known)
  PROVE  /\ ClientFits(v, c, h, known) /\ KeepsDone(d, v, h)
         /\ \A n \in Nat : Remembers(d, h, n) => Remembers(v, h, n)
<1>1. c.top \in Nat /\ c.read \in Nat /\ ReadsFit(d, h, c.top)
  BY DEF ChatStates, ClientFits
<1>2. /\ ReadsFit(v, h, c.top) /\ KeepsDone(d, v, h)
      /\ \A n \in Nat : Remembers(d, h, n) => Remembers(v, h, n)
      /\ \A mark \in Nat, kn \in Nat : Told(d, h, mark, kn) => Told(v, h, mark, kn)
  BY <1>1, PassesKeep
<1> QED
  BY <1>1, <1>2 DEF ClientFits

\* What is to be read, or was sent to be read, may be shown as read.
LEMMA ShownFits ==
  ASSUME NEW d \in Objects, NEW h \in Chats, NEW c \in ChatStates, NEW known \in Nat,
         ClientFits(d, c, h, known), NEW v \in ChatStates, v.top = c.top, ShownOK(v),
         \/ v.read <= c.read \/ v.read <= known
         \/ v.read <= d.state[h].willReadTill \/ v.read <= d.state[h].sentReadTill
  PROVE  ClientFits(d, v, h, known)
<1> DEFINE s == d.state[h]
<1>0. /\ s.willReadTill \in Nat /\ s.sentReadTill \in Nat
      /\ c.read \in Nat /\ v.read \in Nat
  BY DEF Objects, States, ChatStates
<1>1. /\ c.read <= known \/ c.read <= s.willReadTill \/ ReadBeyond(d, h, c.read)
      /\ s.sentReadTill <= known \/ ReadBeyond(d, h, s.sentReadTill)
  BY DEF ClientFits, Told
<1>2. \A m \in Nat, n \in Nat : m <= n /\ ReadBeyond(d, h, n) => ReadBeyond(d, h, m)
  BY DEF ReadBeyond, Requests
<1>3. v.read <= known \/ v.read <= s.willReadTill \/ ReadBeyond(d, h, v.read)
  BY <1>0, <1>1, <1>2
<1> QED
  BY <1>1, <1>3 DEF ClientFits, Told

\* v and y are d and the chat c after a read, or after what waited for it.
ReadFits(d, c, h, v, y, known) ==
  /\ ClientFits(v, y, h, known) /\ KeepsDone(d, v, h)
  /\ \A n \in Nat : Remembers(d, h, n) => Remembers(v, h, n)
  /\ \A g \in Chats \ {h} : Passes(d, v, g)
  /\ y \in ChatStates /\ y.top = c.top /\ y.read >= c.read
  /\ Exact(c) => Exact(y)

\* A read that is new: it is kept in mind, and goes on from there.
LEMMA NewReadFits ==
  ASSUME NEW d \in Objects, NEW c \in ChatStates, NEW h \in Chats, NEW a \in Asked,
         a.till <= c.top, d.sendReadMessages, NEW known \in Nat,
         ClientFits(d, c, h, known), IsNew(d, c, h, a),
         NEW w, ReadTaken(d, c, h, a.till, w),
         NEW y, LocallyRead(c, y, a.till)
  PROVE  /\ w \in Objects /\ w.sendReadMessages /\ OnlyReadsWait(w)
         /\ ReadFits(d, c, h, w, y, known)
<1> DEFINE s == d.state[h]
<1>1. /\ w \in Objects /\ w.sendReadMessages /\ OnlyReadsWait(w)
      /\ w.live = d.live /\ w.state[h].willReadTill = a.till
      /\ w.state[h].sentReadTill = s.sentReadTill
      /\ w.state[h].sentReadDone = s.sentReadDone
      /\ \A g \in Chats \ {h} : w.state[g] = d.state[g]
  BY DEF ReadTaken, Moves
<1>2. /\ a.till \in Nat /\ a.till # 0 /\ s.willReadTill \in Nat /\ s.sentReadTill \in Nat
      /\ c.read \in Nat /\ c.top \in Nat /\ y.read \in Nat
  BY DEF Asked, Objects, States, ChatStates, LocallyRead
<1>3. s.sentReadTill < a.till /\ s.willReadTill < a.till
  BY DEF IsNew
<1>4. /\ y \in ChatStates /\ y.top = c.top /\ ShownOK(y) /\ y.read >= c.read
      /\ y.read = c.read \/ y.read = a.till
      /\ Exact(c) => Exact(y)
  BY DEF LocallyRead
<1>5. ReadsFit(w, h, y.top)
  BY <1>1, <1>2, <1>3, <1>4 DEF ClientFits, ReadsFit
<1>6. Told(w, h, y.read, known)
  <2>1. \A n : ReadBeyond(d, h, n) <=> ReadBeyond(w, h, n)
    BY <1>1 DEF ReadBeyond
  <2> QED
    BY <1>1, <1>2, <1>3, <1>4, <2>1 DEF ClientFits, Told
<1>7. KeepsDone(d, w, h) /\ \A n \in Nat : Remembers(d, h, n) => Remembers(w, h, n)
  BY <1>1 DEF KeepsDone, IsDone, Remembers, ReadBeyond
<1>8. \A g \in Chats \ {h} : Passes(d, w, g)
  BY <1>1 DEF Passes, Stays, IsDone
<1> QED
  BY <1>1, <1>4, <1>5, <1>6, <1>7, <1>8 DEF ReadFits, ClientFits

\* And what happens after it.
LEMMA ReadFitsOn ==
  ASSUME NEW d \in Objects, NEW c \in ChatStates, NEW h \in Chats, NEW known \in Nat,
         NEW w \in Objects, NEW v, NEW y,
         ReadFits(d, c, h, w, y, known), AllPass(w, v)
  PROVE  ReadFits(d, c, h, v, y, known)
<1>1. v \in Objects /\ \A g \in Chats : Passes(w, v, g)
  BY DEF AllPass
<1>2. /\ y \in ChatStates /\ ClientFits(w, y, h, known) /\ KeepsDone(d, w, h)
      /\ \A n \in Nat : Remembers(d, h, n) => Remembers(w, h, n)
      /\ \A g \in Chats \ {h} : Passes(d, w, g)
  BY DEF ReadFits
<1>3. /\ ClientFits(v, y, h, known) /\ KeepsDone(w, v, h)
      /\ \A n \in Nat : Remembers(w, h, n) => Remembers(v, h, n)
  BY <1>1, <1>2, PassesFit
<1>4. KeepsDone(d, v, h)
  BY <1>2, <1>3 DEF KeepsDone
<1>5. \A g \in Chats \ {h} : Passes(d, v, g)
  BY <1>1, <1>2, PassesAfter
<1> QED
  BY <1>2, <1>3, <1>4, <1>5 DEF ReadFits

\* A read that is not new is shown when it was sent or will be.
LEMMA OldReadFits ==
  ASSUME NEW d \in Objects, NEW c \in ChatStates, NEW h \in Chats, NEW a \in Asked,
         a.till <= c.top, NEW known \in Nat,
         ClientFits(d, c, h, known), ~IsNew(d, c, h, a),
         NEW y, LocallyRead(c, y, a.till)
  PROVE  ReadFits(d, c, h, d, y, known)
<1> DEFINE s == d.state[h]
<1>1. /\ a.till \in Nat /\ s.willReadTill \in Nat /\ s.sentReadTill \in Nat
      /\ c.read \in Nat
  BY DEF Asked, Objects, States, ChatStates
<1>2. /\ y \in ChatStates /\ y.top = c.top /\ ShownOK(y) /\ y.read >= c.read
      /\ y.read = c.read \/ (c.read < a.till /\ y.read = a.till)
      /\ Exact(c) => Exact(y)
  BY DEF LocallyRead
<1>3. \/ y.read <= c.read \/ y.read <= s.willReadTill \/ y.read <= s.sentReadTill
  BY <1>1, <1>2 DEF IsNew, NeedsRequest
<1>4. ClientFits(d, y, h, known)
  BY <1>2, <1>3, ShownFits
<1>5. \A g \in Chats \ {h} : Passes(d, d, g)
  BY DEF Passes, Stays
<1> QED
  BY <1>2, <1>4, <1>5 DEF ReadFits, KeepsDone

\* readInboxTill().
LEMMA ReadInboxTillFits ==
  ASSUME NEW d \in Objects, NEW c \in ChatStates, NEW h \in Chats, NEW a \in Asked,
         NEW due \in Nat, ArmedOK(d), a.till <= c.top, d.sendReadMessages,
         NEW known \in Nat, ClientFits(d, c, h, known)
  PROVE  ReadFits(d, c, h, ReadInboxTill(d, c, h, a, due), ReadLocally(d, c, h, a), known)
<1> DEFINE w == [d EXCEPT !.state[h].willReadTill = a.till]
           v == ReadInboxTill(d, c, h, a, due)
           y == ReadLocally(d, c, h, a)
           q == [w EXCEPT !.armed = Append(d.armed, h),
                          !.timer = IF d.timer = "off" THEN h ELSE d.timer]
<1> SUFFICES ReadFits(d, c, h, v, y, known)
  OBVIOUS
<1>0. LocallyRead(c, y, a.till) /\ OnlyReadsWait(d)
  BY ReadLocallyCounted DEF ClientFits, ArmedOK
<1>3. v \in Objects
  <2>1. Moves(d, v)
    BY ReadInboxTillOutcome
  <2> QED
    BY <2>1 DEF Moves
<1> HIDE DEF y
<1>1. CASE IsNew(d, c, h, a)
  <2>0. w = [d EXCEPT !.state[h].willReadTill = a.till]
    OBVIOUS
  <2>1. ~CountUnchanged(c, a)
    BY <1>1, CountChanges DEF ClientFits
  <2> HIDE DEF w
  <2>2. ReadTaken(d, c, h, a.till, w)
    BY <1>1, <2>0, TakeReadOutcome
  <2>3. w.armed = d.armed /\ w.timer = d.timer
    BY <2>2 DEF ReadTaken
  <2>4. /\ w \in Objects /\ w.sendReadMessages /\ OnlyReadsWait(w)
        /\ ReadFits(d, c, h, w, y, known)
    BY <1>0, <1>1, <2>2, NewReadFits
  <2>5. \/ CountUnchanged(c, a) /\ v = d
        \/ v = SendNow(w, h, due)
        \/ Waits(d, h) /\ v = w
        \/ ~Waits(d, h) /\ v = q
    BY <1>1, <2>0 DEF ReadInboxTill
  <2> HIDE DEF v
  <2>7. CASE v = SendNow(w, h, due)
    BY <2>4, <2>7, SendNowPasses, ReadFitsOn
  <2>8. CASE v = w
    BY <2>4, <2>8
  <2>9. CASE v = q
    <3>1. v.state = w.state /\ v.live = w.live
      BY <2>4, <2>9 DEF Objects
    <3>2. AllPass(w, v)
      BY <1>3, <3>1, ArmedPasses
    <3> QED
      BY <2>4, <3>2, ReadFitsOn
  <2> QED
    BY <2>1, <2>5, <2>7, <2>8, <2>9
<1>2. CASE ~IsNew(d, c, h, a)
  <2>1. ReadFits(d, c, h, d, y, known)
    BY <1>0, <1>2, OldReadFits
  <2>2. v = d \/ v = SendPendingReadInbox(d, h, due)
    BY <1>2 DEF ReadInboxTill
  <2>3. AllPass(d, SendPendingReadInbox(d, h, due))
    BY <1>0, SendPendingPasses
  <2> HIDE DEF v
  <2> QED
    BY <2>1, <2>2, <2>3, ReadFitsOn
<1> QED
  BY <1>1, <1>2

\* The mark of a read that is done goes to the chat, and the read is forgotten.
LEMMA ForgottenFits ==
  ASSUME NEW d \in Objects, NEW c \in ChatStates, NEW h \in Chats, NEW known \in Nat,
         ClientFits(d, c, h, known), NEW w, DoneIs(d, w, h, 0),
         NEW y, y = SetInboxReadTill(c, d.state[h].sentReadTill)
  PROVE  /\ ClientFits(w, y, h, known) /\ ~IsDone(w, h)
         /\ \A n \in Nat : Remembers(d, h, n) => Remembers(w, h, n) \/ n <= y.read
         /\ \A g \in Chats \ {h} : Passes(d, w, g)
         /\ y \in ChatStates /\ y.top = c.top /\ y.read >= c.read
         /\ Exact(c) /\ d.state[h].sentReadTill <= c.read => Exact(y)
<1> DEFINE s == d.state[h]
<1>1. /\ w \in Objects /\ w.live = d.live
      /\ \A g \in Chats \ {h} : w.state[g] = d.state[g]
      /\ w.state[h].willReadTill = s.willReadTill /\ w.state[h].sentReadTill = 0
  BY DEF DoneIs
<1>2. /\ s.willReadTill \in Nat /\ s.sentReadTill \in Nat
      /\ c.read \in Nat /\ c.top \in Nat /\ c.unread \in Int
  BY DEF Objects, States, ChatStates
<1>3. ReadUpTo(c, y, Max2(c.read, s.sentReadTill), c.unread)
  BY <1>2, MarkedUpTo
<1>4. /\ y \in ChatStates /\ y.top = c.top /\ y.unread = c.unread
      /\ y.read = c.read \/ y.read = s.sentReadTill
      /\ y.read >= c.read /\ y.read >= s.sentReadTill
      /\ s.sentReadTill <= c.read => y.read = c.read
  BY <1>2, <1>3 DEF ReadUpTo, Max2
<1>5. c.read <= c.top /\ c.unread >= c.top - c.read /\ s.sentReadTill <= c.top
  BY DEF ClientFits, ShownOK, ReadsFit
<1>6. ShownOK(y)
  BY <1>2, <1>4, <1>5 DEF ShownOK
<1>7. ClientFits(d, y, h, known)
  BY <1>2, <1>4, <1>6, ShownFits
<1>8. ReadsFit(w, h, y.top)
  BY <1>1, <1>2, <1>4, <1>7 DEF ClientFits, ReadsFit
<1>9. Told(w, h, y.read, known)
  <2>1. \A n : ReadBeyond(d, h, n) <=> ReadBeyond(w, h, n)
    BY <1>1 DEF ReadBeyond
  <2> QED
    BY <1>1, <1>2, <1>7, <2>1 DEF ClientFits, Told
<1>10. ~IsDone(w, h)
  BY <1>1 DEF IsDone
<1>11. ASSUME NEW n \in Nat, Remembers(d, h, n) PROVE Remembers(w, h, n) \/ n <= y.read
  <2>1. y.read \in Nat
    BY <1>4 DEF ChatStates
  <2> QED
    BY <1>1, <1>2, <1>4, <1>11, <2>1 DEF Remembers, ReadBeyond
<1>12. \A g \in Chats \ {h} : Passes(d, w, g)
  BY <1>1 DEF Passes, Stays, IsDone
<1>13. Exact(c) /\ s.sentReadTill <= c.read => Exact(y)
  BY <1>4 DEF Exact
<1> QED
  BY <1>4, <1>6, <1>8, <1>9, <1>10, <1>11, <1>12, <1>13 DEF ClientFits

\* v and y are d and the chat c after the entry of h was handled.
EntryFits(d, c, h, v, y, known) ==
  /\ ClientFits(v, y, h, known) /\ KeepsDone(d, v, h)
  /\ \A n \in Nat : Remembers(d, h, n) => Remembers(v, h, n) \/ n <= y.read
  /\ \A g \in Chats \ {h} : Passes(d, v, g)
  /\ y \in ChatStates /\ y.top = c.top /\ y.read >= c.read
  /\ Exact(c) /\ (IsDone(d, h) => d.state[h].sentReadTill <= c.read) => Exact(y)

\* dialogEntryApplied().
LEMMA TakeDialogEntryFits ==
  ASSUME NEW d \in Objects, Kept(d, {}), ArmedOK(d), NEW c \in ChatStates,
         NEW h \in Chats, NEW known \in BOOLEAN, NEW due \in Nat,
         ~d.state[h].postponedRequestEntry, d.sendReadMessages,
         NEW kn \in Nat, ClientFits(d, c, h, kn),
         NEW v, v = TakeDialogEntry(d, c, h, known, due)
  PROVE  EntryFits(d, c, h, v[1], v[2], kn)
<1> DEFINE a == [till |-> c.top, force |-> FALSE, known |-> known]
           reads == h \in d.callbacks /\ c.top > 0
           w == [d EXCEPT !.pending = @ \ {h}, !.asked = @ \ {h}, !.callbacks = @ \ {h}]
           called == IF reads THEN ReadInboxTill(w, c, h, a, due) ELSE w
           read == IF reads THEN ReadLocally(w, c, h, a) ELSE c
           s == IF d.sendReadMessages THEN called.state[h] ELSE w.state[h]
           done == s.sentReadTill # 0 /\ s.sentReadDone
           x == [called EXCEPT !.state[h] = CheckEmptyState([@ EXCEPT !.sentReadTill = 0])]
           y == SetInboxReadTill(read, s.sentReadTill)
<1>1. v = <<IF done THEN x ELSE called, IF done THEN y ELSE read>>
  BY DEF TakeDialogEntry
<1>2. /\ w \in Objects /\ ArmedOK(w) /\ w.state = d.state /\ w.live = d.live
      /\ w.sendReadMessages
  <2>1. w = [d EXCEPT !.pending = @ \ {h}, !.asked = @ \ {h}, !.callbacks = @ \ {h}]
    OBVIOUS
  <2> HIDE DEF w, a, reads, called, read, s, done, x, y
  <2>2. TakenOut(d, w, h)
    BY <2>1, EntryTakenOut
  <2> QED
    BY <2>2 DEF TakenOut
<1> HIDE DEF w
<1>3. ReadFits(d, c, h, w, c, kn)
  <2>1. AllPass(d, w)
    BY <1>2, ArmedPasses
  <2>2. ReadFits(d, c, h, d, c, kn)
    <3>1. \A g \in Chats : Passes(d, d, g)
      BY DEF Passes, Stays
    <3>2. c.read \in Nat
      BY DEF ChatStates
    <3> QED
      BY <3>1, <3>2 DEF ReadFits, KeepsDone
  <2> QED
    BY <1>2, <2>1, <2>2, ReadFitsOn
<1>4. called \in Objects /\ ReadFits(d, c, h, called, read, kn)
  <2>1. CASE reads
    <3>1. a \in Asked /\ a.till <= c.top
      BY <2>1 DEF Asked, ChatStates
    <3> HIDE DEF a
    <3>2. called \in Objects
      <4>1. Moves(w, ReadInboxTill(w, c, h, a, due))
        BY <1>2, <3>1, ReadInboxTillOutcome
      <4> QED
        BY <2>1, <4>1 DEF Moves
    <3>3. ReadFits(w, c, h, called, read, kn)
      <4>1. ClientFits(w, c, h, kn)
        BY <1>3 DEF ReadFits
      <4>2. ReadFits(w, c, h, ReadInboxTill(w, c, h, a, due), ReadLocally(w, c, h, a), kn)
        BY <1>2, <3>1, <4>1, ReadInboxTillFits
      <4> QED
        BY <2>1, <4>2
    <3> HIDE DEF called, read
    <3>4. \A g \in Chats \ {h} : Passes(d, called, g)
      BY <1>3, <3>3, PassesAfter DEF ReadFits
    <3> QED
      BY <1>3, <3>2, <3>3, <3>4 DEF ReadFits, KeepsDone
  <2>2. CASE ~reads
    BY <1>2, <1>3, <2>2
  <2> QED
    BY <2>1, <2>2
<1>5. s = called.state[h] /\ (done <=> IsDone(called, h))
  BY DEF IsDone
<1> HIDE DEF called, read, reads, a
<1>6. ASSUME done PROVE EntryFits(d, c, h, v[1], v[2], kn)
  <2>1. DoneIs(called, x, h, 0)
    BY <1>4, ForgetOutcome
  <2>2. v[1] = x /\ v[2] = y
    BY <1>1, <1>6
  <2>3. y = SetInboxReadTill(read, called.state[h].sentReadTill)
    BY <1>5
  <2>4. /\ read \in ChatStates /\ ClientFits(called, read, h, kn)
        /\ KeepsDone(d, called, h)
        /\ \A n \in Nat : Remembers(d, h, n) => Remembers(called, h, n)
        /\ \A g \in Chats \ {h} : Passes(d, called, g)
        /\ read.top = c.top /\ read.read >= c.read
        /\ Exact(c) => Exact(read)
    BY <1>4 DEF ReadFits
  <2>5. IsDone(called, h)
    BY <1>5, <1>6
  <2> HIDE DEF x, y, s
  <2>6. /\ ClientFits(x, y, h, kn) /\ ~IsDone(x, h)
        /\ \A n \in Nat : Remembers(called, h, n) => Remembers(x, h, n) \/ n <= y.read
        /\ \A g \in Chats \ {h} : Passes(called, x, g)
        /\ y \in ChatStates /\ y.top = read.top /\ y.read >= read.read
        /\ Exact(read) /\ called.state[h].sentReadTill <= read.read => Exact(y)
    BY <1>4, <2>1, <2>3, <2>4, ForgottenFits
  <2>7. \A g \in Chats \ {h} : Passes(d, x, g)
    BY <2>4, <2>6, PassesAfter
  <2>8. y.top = c.top /\ y.read >= c.read
    BY <2>4, <2>6 DEF ChatStates
  <2>9. ASSUME Exact(c), IsDone(d, h) => d.state[h].sentReadTill <= c.read PROVE Exact(y)
    <3>1. called.state[h].sentReadTill = d.state[h].sentReadTill /\ IsDone(d, h)
      BY <2>4, <2>5 DEF KeepsDone
    <3>2. called.state[h].sentReadTill <= read.read
      BY <1>4, <2>4, <2>9, <3>1 DEF ChatStates, Objects, States
    <3> QED
      BY <2>4, <2>6, <2>9, <3>2
  <2> QED
    BY <2>2, <2>4, <2>6, <2>7, <2>8, <2>9 DEF EntryFits, KeepsDone
<1>7. ASSUME ~done PROVE EntryFits(d, c, h, v[1], v[2], kn)
  <2>1. v[1] = called /\ v[2] = read
    BY <1>1, <1>7
  <2> QED
    BY <1>4, <2>1 DEF ReadFits, EntryFits
<1> QED
  BY <1>6, <1>7

\* And when the entry will be asked for again.
LEMMA DialogEntryFits ==
  ASSUME NEW d \in Objects, Kept(d, {}), ArmedOK(d), NEW c \in ChatStates,
         NEW h \in Chats, NEW known \in BOOLEAN, NEW due \in Nat, d.sendReadMessages,
         NEW kn \in Nat, ClientFits(d, c, h, kn),
         NEW v, v = DialogEntryApplied(d, c, h, known, due)
  PROVE  EntryFits(d, c, h, v[1], v[2], kn)
<1>1. CASE d.state[h].postponedRequestEntry
  <2>1. v[1] = d /\ v[2] = c
    BY <1>1 DEF DialogEntryApplied
  <2>2. \A g \in Chats : Passes(d, d, g)
    BY DEF Passes, Stays
  <2>3. c.read \in Nat
    BY DEF ChatStates
  <2> QED
    BY <2>1, <2>2, <2>3 DEF EntryFits, KeepsDone
<1>2. CASE ~d.state[h].postponedRequestEntry
  <2>1. v = TakeDialogEntry(d, c, h, known, due)
    BY <1>2 DEF DialogEntryApplied
  <2> QED
    BY <1>2, <2>1, TakeDialogEntryFits
<1> QED
  BY <1>1, <1>2

\* The answer to a read that the server knows of, or refused: nothing that is
\* shown rests on it.
LEMMA AnsweredFits ==
  ASSUME NEW d \in Objects, NEW c \in ChatStates, NEW h \in Chats, NEW r \in Requests,
         NEW known \in Nat, ClientFits(d, c, h, known), r.till <= known,
         r.till <= IF d.state[h].sentReadTill # 0 THEN d.state[h].sentReadTill ELSE c.read,
         NEW w, Without(d, w, Live(h, r))
  PROVE  /\ ClientFits(w, c, h, known) /\ KeepsDone(d, w, h)
         /\ \A n \in Nat : Remembers(d, h, n) => Remembers(w, h, n) \/ n <= c.read
         /\ \A g \in Chats \ {h} : Passes(d, w, g)
<1> DEFINE s == d.state[h]
<1>1. w \in Objects /\ w.state = d.state /\ w.live = d.live \ {Live(h, r)}
  BY DEF Without
<1>2. /\ s.willReadTill \in Nat /\ s.sentReadTill \in Nat /\ c.read \in Nat /\ r.till \in Nat
      /\ \A x \in Requests : x.till \in Nat
  BY DEF Objects, States, ChatStates, Requests
<1>3. ASSUME NEW x \in Requests, Live(h, x) \in d.live, x # r PROVE Live(h, x) \in w.live
  BY <1>1, <1>3, LiveIsOne
<1>4. \A n \in Nat : ReadBeyond(d, h, n) => ReadBeyond(w, h, n) \/ n <= r.till
  BY <1>2, <1>3 DEF ReadBeyond
<1>5. Told(w, h, c.read, known)
  BY <1>1, <1>2, <1>4 DEF ClientFits, Told
<1>6. ReadsFit(w, h, c.top)
  BY <1>1 DEF ClientFits, ReadsFit
<1>7. \A n \in Nat : Remembers(d, h, n) => Remembers(w, h, n) \/ n <= c.read
  BY <1>1, <1>2, <1>4 DEF Remembers
<1>8. ASSUME NEW g \in Chats \ {h} PROVE Passes(d, w, g)
  <2>1. \A x : Live(g, x) # Live(h, r)
    BY <1>8, LiveIsOne
  <2> QED
    BY <1>1, <2>1 DEF Passes, Stays, IsDone
<1> QED
  BY <1>1, <1>5, <1>6, <1>7, <1>8 DEF ClientFits, KeepsDone, IsDone

\* The last read sent is done: it waits for the entry of the chat, or the chat
\* shows it already.
LEMMA ReadDoneFits ==
  ASSUME NEW d \in Objects, NEW c \in ChatStates, NEW h \in Chats, NEW till \in Nat,
         NEW known \in Nat, ClientFits(d, c, h, known),
         NEW e \in Objects, e = ReadDone(d, c, h, till)
  PROVE  /\ ClientFits(e, c, h, known)
         /\ IsDone(e, h) =>
              \/ IsDone(d, h) /\ e.state[h].sentReadTill = d.state[h].sentReadTill
              \/ e.state[h].sentReadTill = till
         /\ \A n \in Nat : Remembers(d, h, n) => Remembers(e, h, n) \/ n <= c.read
         /\ \A g \in Chats \ {h} : Passes(d, e, g)
<1> DEFINE s == d.state[h]
           w == [d EXCEPT !.state[h].sentReadDone = TRUE]
           f == [d EXCEPT !.state[h].sentReadDone = TRUE, !.state[h].sentReadTill = 0]
<1>0. /\ s.willReadTill \in Nat /\ s.sentReadTill \in Nat /\ c.read \in Nat
  BY DEF Objects, States, ChatStates
<1>1. CASE s.sentReadTill # till
  <2>1. e = d
    BY <1>1 DEF ReadDone
  <2>2. \A g \in Chats : Passes(d, d, g)
    BY DEF Passes, Stays
  <2> QED
    BY <2>1, <2>2
<1>2. CASE s.sentReadTill = till /\ c.read < till
  <2>1. e = RequestDialogEntry(w, h, FALSE)
    BY <1>2 DEF ReadDone
  <2>2. DoneIs(d, w, h, s.sentReadTill)
    BY DoneSet
  <2> HIDE DEF w
  <2>3. w \in Objects
    BY <2>2 DEF DoneIs
  <2>4. e.state = w.state /\ e.live = w.live
    <3>1. /\ RequestDialogEntry(w, h, FALSE).state = w.state
          /\ RequestDialogEntry(w, h, FALSE).live = w.live
      BY <2>3, RequestEntryOutcome
    <3> QED
      BY <2>1, <3>1
  <2>5. /\ e.live = d.live /\ \A g \in Chats \ {h} : e.state[g] = d.state[g]
        /\ e.state[h].willReadTill = s.willReadTill
        /\ e.state[h].sentReadTill = s.sentReadTill
    BY <2>2, <2>4 DEF DoneIs
  <2>6. ReadsFit(e, h, c.top) /\ Told(e, h, c.read, known)
    BY <2>5 DEF ClientFits, ReadsFit, Told, ReadBeyond
  <2>7. \A n \in Nat : Remembers(d, h, n) => Remembers(e, h, n)
    BY <2>5 DEF Remembers, ReadBeyond
  <2>8. \A g \in Chats \ {h} : Passes(d, e, g)
    BY <2>5 DEF Passes, Stays, IsDone
  <2> QED
    BY <1>2, <2>5, <2>6, <2>7, <2>8 DEF ClientFits
<1>3. CASE s.sentReadTill = till /\ ~(c.read < till)
  <2>1. e = f
    BY <1>3 DEF ReadDone
  <2>2. DoneIs(d, e, h, 0)
    BY <2>1, DoneSet
  <2>3. /\ e.live = d.live /\ \A g \in Chats \ {h} : e.state[g] = d.state[g]
        /\ e.state[h].willReadTill = s.willReadTill /\ e.state[h].sentReadTill = 0
    BY <2>2 DEF DoneIs
  <2>4. ReadsFit(e, h, c.top) /\ Told(e, h, c.read, known)
    <3>1. \A n : ReadBeyond(d, h, n) <=> ReadBeyond(e, h, n)
      BY <2>3 DEF ReadBeyond
    <3>2. c.top \in Nat
      BY DEF ChatStates
    <3>3. ReadsFit(e, h, c.top)
      BY <1>0, <2>3, <3>2 DEF ClientFits, ReadsFit
    <3> QED
      BY <1>0, <2>3, <3>1, <3>3 DEF ClientFits, Told
  <2>5. \A n \in Nat : Remembers(d, h, n) => Remembers(e, h, n) \/ n <= c.read
    BY <1>0, <1>3, <2>3 DEF Remembers, ReadBeyond
  <2>6. \A g \in Chats \ {h} : Passes(d, e, g)
    BY <2>3 DEF Passes, Stays, IsDone
  <2> QED
    BY <2>3, <2>4, <2>5, <2>6 DEF ClientFits, IsDone
<1> QED
  BY <1>1, <1>2, <1>3

\* sendReadRequest()'s "finished".
LEMMA FinishedFits ==
  ASSUME NEW d \in Objects, Kept(d, {}), ArmedOK(d), d.sendReadMessages,
         NEW c \in ChatStates, NEW h \in Chats, NEW r \in Requests, Live(h, r) \in d.live,
         r.type = "ReadInbox", NEW due \in 0 .. Len(d.armed),
         NEW known \in Nat, ClientFits(d, c, h, known), r.till <= known,
         r.till <= IF d.state[h].sentReadTill # 0 THEN d.state[h].sentReadTill ELSE c.read,
         NEW w, Without(d, w, Live(h, r)),
         NEW v, v = Finished(w, c, h, r, due)
  PROVE  /\ v \in Objects /\ ClientFits(v, c, h, known)
         /\ IsDone(v, h) =>
              \/ IsDone(d, h) /\ v.state[h].sentReadTill = d.state[h].sentReadTill
              \/ v.state[h].sentReadTill = r.till
         /\ \A n \in Nat : Remembers(d, h, n) => Remembers(v, h, n) \/ n <= c.read
         /\ \A g \in Chats \ {h} : Passes(d, v, g)
<1> DEFINE e == ReadDone(w, c, h, r.till)
           f == SendReadRequests(e, due)
<1>1. /\ ReadIsDone(w, c, h, e) /\ ArmedOK(e)
      /\ Proceeds(e, f) /\ NoReadHas(f, h, r.id)
  BY ReadIsOver
<1>2. v = FinishSentRequest(f, h, r.id) /\ r.id \in Nat /\ r.till \in Nat
  BY DEF Finished, Requests
<1>3. /\ ClientFits(w, c, h, known) /\ KeepsDone(d, w, h) /\ w \in Objects
      /\ w.armed = d.armed /\ w.sendReadMessages
      /\ \A n \in Nat : Remembers(d, h, n) => Remembers(w, h, n) \/ n <= c.read
      /\ \A g \in Chats \ {h} : Passes(d, w, g)
  BY AnsweredFits DEF Without
<1>4. e \in Objects /\ e.armed = d.armed /\ e.sendReadMessages
  BY <1>1, <1>3 DEF ReadIsDone
<1>5. /\ ClientFits(e, c, h, known)
      /\ IsDone(e, h) =>
           \/ IsDone(w, h) /\ e.state[h].sentReadTill = w.state[h].sentReadTill
           \/ e.state[h].sentReadTill = r.till
      /\ \A n \in Nat : Remembers(w, h, n) => Remembers(e, h, n) \/ n <= c.read
      /\ \A g \in Chats \ {h} : Passes(w, e, g)
  BY <1>2, <1>3, <1>4, ReadDoneFits
<1> HIDE DEF e
<1>6. AllPass(e, f) /\ f \in Objects
  <2>1. OnlyReadsWait(e)
    BY <1>1 DEF ArmedOK
  <2> QED
    BY <1>4, <2>1, SendReadRequestsPasses DEF AllPass
<1> HIDE DEF f
<1>7. AllPass(e, v)
  <2>1. AllPass(f, v)
    BY <1>1, <1>2, <1>6, FinishPasses
  <2> QED
    BY <1>6, <2>1, PassesOn
<1>8. v \in Objects /\ \A g \in Chats : Passes(e, v, g)
  BY <1>7 DEF AllPass
<1>9. /\ ClientFits(v, c, h, known) /\ KeepsDone(e, v, h)
      /\ \A n \in Nat : Remembers(e, h, n) => Remembers(v, h, n)
  BY <1>4, <1>5, <1>8, PassesFit
<1>10. \A g \in Chats \ {h} : Passes(d, v, g)
  BY <1>3, <1>5, <1>8, PassesAfter
<1> QED
  BY <1>3, <1>5, <1>8, <1>9, <1>10 DEF KeepsDone

(***************************************************************************)
(* What is under way.                                                      *)
(***************************************************************************)
Messages == Pushes \cup Answers

Marked == [top : Nat, read : Nat]

\* What is said of a message of the server, whatever it is.
LEMMA MessageTypes ==
  ASSUME NEW m \in Messages, NEW h \in Chats
  PROVE  /\ HasTop(m, h) => TopOf(m, h) \in Int
         /\ HasMark(m, h) => MarkOf(m, h) \in Nat
         /\ IsMessage(m, h) => TopOf(m, h) = m.till /\ m.till \in Nat /\ ~HasMark(m, h)
         /\ IsRead(m, h) => m.till \in Nat /\ m.unread \in Int /\ MarkOf(m, h) = m.till
         /\ IsEntry(m, h) => /\ m.entries[h] \in Fields
                             /\ MarkOf(m, h) = m.entries[h].read
                             /\ TopOf(m, h) = m.entries[h].read + m.entries[h].unread
<1>1. m.kind # "answer" => m \in Pushes
  BY DEF Messages, Answers
<1>2. m.kind = "answer" => m \in Answers
  BY DEF Messages, Pushes
<1>3. IsMessage(m, h) \/ IsRead(m, h) => m.till \in Nat /\ m.unread \in Int
  BY <1>1 DEF IsMessage, IsRead, Pushes
<1>4. IsEntry(m, h) => m.entries[h] \in Fields
  BY <1>2 DEF IsEntry, Answers
<1>5. EndsRead(m, h) => m.sent.till \in Nat
  BY <1>2 DEF EndsRead, Answers, Requests
<1>6. \A e \in Fields : e.read \in Nat /\ e.unread \in Int
  BY DEF Fields
<1>7. /\ IsMessage(m, h) => ~IsRead(m, h) /\ ~IsEntry(m, h) /\ ~EndsRead(m, h)
      /\ IsRead(m, h) => ~IsMessage(m, h) /\ ~IsEntry(m, h) /\ ~EndsRead(m, h)
      /\ IsEntry(m, h) => ~IsMessage(m, h) /\ ~IsRead(m, h) /\ ~EndsRead(m, h)
  BY DEF IsMessage, IsRead, IsEntry, EndsRead
<1>8. HasTop(m, h) => TopOf(m, h) \in Int
  BY <1>3, <1>4, <1>6, <1>7 DEF HasTop, TopOf
<1>9. HasMark(m, h) => MarkOf(m, h) \in Nat
  BY <1>3, <1>4, <1>5, <1>6, <1>7 DEF HasMark, MarkOf
<1> QED
  BY <1>3, <1>4, <1>7, <1>8, <1>9 DEF HasMark, MarkOf, TopOf

\* m is the newest message of the server for h, which was sv and is tv.
Newest(m, h, sv, tv) ==
  /\ HasTop(m, h) => TopOf(m, h) = tv.top
  /\ IsRead(m, h) \/ IsEntry(m, h) => MarkOf(m, h) = tv.read
  /\ tv.read >= sv.read
  /\ tv.top = IF IsMessage(m, h) THEN sv.top + 1 ELSE sv.top

\* The server sends a message.
LEMMA InboxGrows ==
  ASSUME NEW s \in Seq(Messages), NEW m \in Messages, NEW h \in Chats, NEW top \in Nat,
         NEW sv \in Marked, NEW tv \in Marked, NEW rf \in Nat, NEW rg \in Nat, rg >= rf,
         InboxFits(s, h, top, sv, rf), Fits(m, h, top, tv, rg), Newest(m, h, sv, tv)
  PROVE  InboxFits(Append(s, m), h, top, tv, rg)
<1> DEFINE t == Append(s, m)
           l == Len(s)
<1>0. /\ sv.top \in Nat /\ sv.read \in Nat /\ tv.top \in Nat /\ tv.read \in Nat
      /\ tv.read >= sv.read /\ tv.top >= sv.top
      /\ tv.top = IF IsMessage(m, h) THEN sv.top + 1 ELSE sv.top
  BY DEF Marked, Newest
<1>1. /\ t \in Seq(Messages) /\ Len(t) = l + 1 /\ l \in Nat
      /\ \A i \in 1 .. l : t[i] = s[i]
      /\ t[l + 1] = m /\ DOMAIN s = 1 .. l /\ DOMAIN t = 1 .. l + 1
  BY AppendProperties, LenProperties
<1> HIDE DEF t, l
<1>2. ASSUME NEW i \in 1 .. l
      PROVE  Fits(t[i], h, top, tv, rg) /\ InOrder(t[i], m, h)
  <2> DEFINE x == s[i]
  <2>1. x \in Messages /\ t[i] = x /\ Fits(x, h, top, sv, rf)
    BY <1>1, <1>2 DEF InboxFits
  <2> HIDE DEF x
  <2>2. /\ HasTop(x, h) => TopOf(x, h) \in Int /\ TopOf(x, h) \in top .. sv.top
        /\ HasMark(x, h) => MarkOf(x, h) \in Nat /\ MarkOf(x, h) <= sv.read
    BY <2>1, MessageTypes DEF Fits
  <2>3. Fits(x, h, top, tv, rg)
    <3>1. HasTop(x, h) => TopOf(x, h) \in top .. tv.top
      BY <1>0, <2>2
    <3>2. HasMark(x, h) => MarkOf(x, h) <= tv.read
      BY <1>0, <2>2
    <3>3. EndsRead(x, h) => x.sent.till \in Nat
      BY <2>1 DEF EndsRead, Messages, Pushes, Answers, Requests
    <3>4. EndsRead(x, h) => x.sent.till > 0 /\ (x.ok \/ x.sent.till <= rg)
      BY <2>1, <3>3 DEF Fits
    <3> QED
      BY <2>1, <3>1, <3>2, <3>4 DEF Fits
  <2>4. InOrder(x, m, h)
    <3>1. HasTop(m, h) => TopOf(m, h) = tv.top
      BY DEF Newest
    <3>2. IsRead(m, h) \/ IsEntry(m, h) => MarkOf(m, h) = tv.read
      BY DEF Newest
    <3>3. IsMessage(m, h) => HasTop(m, h)
      BY DEF HasTop
    <3> QED
      BY <1>0, <2>2, <3>1, <3>2, <3>3 DEF InOrder
  <2> QED
    BY <2>1, <2>3, <2>4
<1>3. \A i \in DOMAIN t : Fits(t[i], h, top, tv, rg)
  BY <1>1, <1>2
<1>4. ASSUME NEW i \in DOMAIN t, NEW j \in DOMAIN t, i < j PROVE InOrder(t[i], t[j], h)
  <2>1. CASE j \in 1 .. l
    <3>1. i \in 1 .. l
      BY <1>1, <1>4, <2>1
    <3> QED
      BY <1>1, <1>4, <2>1, <3>1 DEF InboxFits
  <2>2. CASE j = l + 1
    <3>1. i \in 1 .. l
      BY <1>1, <1>4, <2>2
    <3> QED
      BY <1>1, <1>2, <2>2, <3>1
  <2> QED
    BY <1>1, <2>1, <2>2
<1>5. AllComes(t, h, top, tv)
  <2> SUFFICES ASSUME NEW n \in top + 1 .. tv.top
               PROVE  \E i \in DOMAIN t : IsMessage(t[i], h) /\ t[i].till = n
    BY DEF AllComes
  <2>1. CASE n \in top + 1 .. sv.top
    <3>1. PICK i \in 1 .. l : IsMessage(s[i], h) /\ s[i].till = n
      BY <1>1, <2>1 DEF InboxFits, AllComes
    <3> QED
      BY <1>1, <3>1
  <2>2. CASE n \notin top + 1 .. sv.top
    <3>1. IsMessage(m, h) /\ n = tv.top
      BY <1>0, <2>2
    <3>2. m.till = n
      BY <3>1, MessageTypes DEF Newest, HasTop
    <3>3. t[l + 1] = m /\ l + 1 \in DOMAIN t
      BY <1>1
    <3> QED
      BY <3>1, <3>2, <3>3
  <2> QED
    BY <2>1, <2>2
<1> QED
  BY <1>3, <1>4, <1>5 DEF InboxFits, t

\* The first message, and those behind it.
LEMMA HeadAndTail ==
  ASSUME NEW s \in Seq(Messages), s # <<>>
  PROVE  /\ Head(s) \in Messages /\ Tail(s) \in Seq(Messages) /\ 1 \in DOMAIN s
         /\ Head(s) = s[1] /\ DOMAIN s = 1 .. Len(s) /\ Len(s) \in Nat
         /\ \A i \in DOMAIN Tail(s) : i + 1 \in DOMAIN s /\ 1 < i + 1 /\ Tail(s)[i] = s[i + 1]
         /\ \A j \in DOMAIN s : j # 1 => j - 1 \in DOMAIN Tail(s) /\ Tail(s)[j - 1] = s[j]
<1>1. /\ Head(s) = s[1] /\ Tail(s) \in Seq(Messages) /\ Len(Tail(s)) = Len(s) - 1
      /\ Len(s) \in Nat /\ Len(s) # 0 /\ DOMAIN s = 1 .. Len(s)
      /\ DOMAIN Tail(s) = 1 .. Len(Tail(s))
      /\ \A i \in 1 .. Len(Tail(s)) : Tail(s)[i] = s[i + 1]
  BY HeadTailProperties, LenProperties, EmptySeq
<1>2. ASSUME NEW j \in DOMAIN s, j # 1
      PROVE  j - 1 \in DOMAIN Tail(s) /\ Tail(s)[j - 1] = s[j]
  <2>1. j - 1 \in 1 .. Len(Tail(s)) /\ (j - 1) + 1 = j
    BY <1>1, <1>2
  <2> QED
    BY <1>1, <2>1
<1>3. \A i \in DOMAIN Tail(s) : i + 1 \in DOMAIN s /\ 1 < i + 1 /\ Tail(s)[i] = s[i + 1]
  BY <1>1
<1>4. 1 \in DOMAIN s /\ s[1] \in Messages
  BY <1>1
<1> QED
  BY <1>1, <1>2, <1>3, <1>4

\* The client gets anything but a message of the chat.
LEMMA InboxShrinks ==
  ASSUME NEW s \in Seq(Messages), s # <<>>, NEW h \in Chats, NEW top \in Nat,
         NEW sv \in Marked, NEW rf \in Nat,
         InboxFits(s, h, top, sv, rf), ~IsMessage(Head(s), h)
  PROVE  InboxFits(Tail(s), h, top, sv, rf)
<1> DEFINE t == Tail(s)
<1>1. /\ Head(s) = s[1] /\ DOMAIN s = 1 .. Len(s) /\ Len(s) \in Nat
      /\ t \in Seq(Messages) /\ DOMAIN t = 1 .. Len(t) /\ Len(t) \in Nat
      /\ \A i \in DOMAIN t : i + 1 \in DOMAIN s /\ t[i] = s[i + 1]
      /\ \A j \in DOMAIN s : j # 1 => j - 1 \in DOMAIN t /\ t[j - 1] = s[j]
  BY HeadAndTail, LenProperties
<1> HIDE DEF t
<1>2. \A i \in DOMAIN t : Fits(t[i], h, top, sv, rf)
  BY <1>1 DEF InboxFits
<1>3. ASSUME NEW i \in DOMAIN t, NEW j \in DOMAIN t, i < j PROVE InOrder(t[i], t[j], h)
  <2>1. i + 1 \in DOMAIN s /\ j + 1 \in DOMAIN s /\ i + 1 < j + 1
    BY <1>1, <1>3
  <2>2. InOrder(s[i + 1], s[j + 1], h)
    BY <2>1 DEF InboxFits
  <2> QED
    BY <1>1, <2>2
<1>4. AllComes(t, h, top, sv)
  <2> SUFFICES ASSUME NEW n \in top + 1 .. sv.top
               PROVE  \E i \in DOMAIN t : IsMessage(t[i], h) /\ t[i].till = n
    BY DEF AllComes
  <2>1. PICK j \in DOMAIN s : IsMessage(s[j], h) /\ s[j].till = n
    BY DEF InboxFits, AllComes
  <2>2. j # 1
    BY <1>1, <2>1
  <2>3. j - 1 \in DOMAIN t /\ t[j - 1] = s[j]
    BY <1>1, <2>2
  <2> QED
    BY <2>1, <2>3
<1> QED
  BY <1>2, <1>3, <1>4 DEF InboxFits, t

\* What comes behind the first message.
LEMMA BehindHead ==
  ASSUME NEW s \in Seq(Messages), s # <<>>, NEW h \in Chats, NEW top \in Nat,
         NEW sv \in Marked, NEW rf \in Nat, InboxFits(s, h, top, sv, rf),
         NEW i \in DOMAIN Tail(s)
  PROVE  /\ Tail(s)[i] \in Messages /\ Fits(Tail(s)[i], h, top, sv, rf)
         /\ InOrder(Head(s), Tail(s)[i], h)
<1>1. /\ Tail(s) \in Seq(Messages) /\ 1 \in DOMAIN s /\ Head(s) = s[1]
      /\ i + 1 \in DOMAIN s /\ 1 < i + 1 /\ Tail(s)[i] = s[i + 1]
  BY HeadAndTail
<1>2. Fits(s[i + 1], h, top, sv, rf) /\ InOrder(s[1], s[i + 1], h)
  BY <1>1 DEF InboxFits
<1>3. Tail(s)[i] \in Messages
  BY <1>1
<1> QED
  BY <1>1, <1>2, <1>3

\* What the first message brings is at the client's own top; a message of the
\* chat is the next one.
LEMMA HeadIsNext ==
  ASSUME NEW s \in Seq(Messages), s # <<>>, NEW h \in Chats, NEW top \in Nat,
         NEW sv \in Marked, NEW rf \in Nat, InboxFits(s, h, top, sv, rf), top <= sv.top
  PROVE  HasTop(Head(s), h) =>
           TopOf(Head(s), h) = IF IsMessage(Head(s), h) THEN top + 1 ELSE top
<1> DEFINE m == Head(s)
<1>1. /\ m \in Messages /\ m = s[1] /\ 1 \in DOMAIN s
      /\ \A j \in DOMAIN s : j # 1 => 1 < j
      /\ \A j \in DOMAIN s : s[j] \in Messages
  BY HeadAndTail
<1> HIDE DEF m
<1> SUFFICES ASSUME HasTop(m, h)
             PROVE  TopOf(m, h) = IF IsMessage(m, h) THEN top + 1 ELSE top
  BY DEF m
<1>2. Fits(m, h, top, sv, rf)
  BY <1>1 DEF InboxFits
<1>3. /\ TopOf(m, h) \in Int /\ TopOf(m, h) \in top .. sv.top /\ sv.top \in Nat
      /\ IsMessage(m, h) => TopOf(m, h) > top
  BY <1>1, <1>2, MessageTypes DEF Fits, Marked
<1>4. CASE top = sv.top
  BY <1>3, <1>4
<1>5. CASE top # sv.top
  <2>1. top + 1 \in top + 1 .. sv.top
    BY <1>3, <1>5
  <2>2. PICK j \in DOMAIN s : IsMessage(s[j], h) /\ s[j].till = top + 1
    BY <2>1 DEF InboxFits, AllComes
  <2>3. HasTop(s[j], h) /\ TopOf(s[j], h) = top + 1
    BY <1>1, <2>2, MessageTypes DEF HasTop
  <2>4. CASE j = 1
    BY <1>1, <2>2, <2>3, <2>4
  <2>5. CASE j # 1
    <3>1. InOrder(m, s[j], h)
      BY <1>1, <2>5 DEF InboxFits
    <3>2. TopOf(m, h) < top + 1
      BY <2>2, <2>3, <3>1 DEF InOrder
    <3> QED
      BY <1>3, <3>2
  <2> QED
    BY <2>4, <2>5
<1> QED
  BY <1>4, <1>5

\* The client gets a message of the chat.
LEMMA InboxGets ==
  ASSUME NEW s \in Seq(Messages), s # <<>>, NEW h \in Chats, NEW top \in Nat,
         NEW sv \in Marked, NEW rf \in Nat,
         InboxFits(s, h, top, sv, rf), IsMessage(Head(s), h), top <= sv.top
  PROVE  /\ Head(s).till = top + 1 /\ top + 1 <= sv.top
         /\ InboxFits(Tail(s), h, top + 1, sv, rf)
<1> DEFINE m == Head(s)
           t == Tail(s)
<1>1. /\ m = s[1] /\ m \in Messages /\ DOMAIN s = 1 .. Len(s) /\ Len(s) \in Nat
      /\ t \in Seq(Messages) /\ DOMAIN t = 1 .. Len(t) /\ Len(t) \in Nat
      /\ 1 \in DOMAIN s
      /\ \A i \in DOMAIN t : i + 1 \in DOMAIN s /\ t[i] = s[i + 1]
      /\ \A j \in DOMAIN s : j # 1 => j - 1 \in DOMAIN t /\ t[j - 1] = s[j]
  BY HeadAndTail, LenProperties
<1>2. HasTop(m, h) /\ TopOf(m, h) = top + 1 /\ m.till = top + 1
  BY <1>1, HeadIsNext, MessageTypes DEF HasTop
<1>3. top + 1 <= sv.top
  BY <1>1, <1>2 DEF InboxFits, Fits
<1>4. ASSUME NEW i \in DOMAIN t PROVE Fits(t[i], h, top + 1, sv, rf)
  <2>1. t[i] \in Messages /\ Fits(t[i], h, top, sv, rf) /\ InOrder(m, t[i], h)
    BY BehindHead
  <2>2. HasTop(t[i], h) => TopOf(t[i], h) \in Int
    BY <2>1, MessageTypes
  <2>3. IsMessage(t[i], h) => HasTop(t[i], h)
    BY DEF HasTop
  <2> HIDE DEF m, t
  <2> QED
    BY <1>2, <2>1, <2>2, <2>3 DEF Fits, InOrder
<1> HIDE DEF t
<1>5. ASSUME NEW i \in DOMAIN t, NEW j \in DOMAIN t, i < j PROVE InOrder(t[i], t[j], h)
  <2>1. i + 1 \in DOMAIN s /\ j + 1 \in DOMAIN s /\ i + 1 < j + 1
    BY <1>1, <1>5
  <2>2. InOrder(s[i + 1], s[j + 1], h)
    BY <2>1 DEF InboxFits
  <2> QED
    BY <1>1, <2>2
<1>6. AllComes(t, h, top + 1, sv)
  <2> SUFFICES ASSUME NEW n \in (top + 1) + 1 .. sv.top
               PROVE  \E i \in DOMAIN t : IsMessage(t[i], h) /\ t[i].till = n
    BY DEF AllComes
  <2>0. n \in top + 1 .. sv.top /\ n # top + 1
    BY DEF Marked
  <2>1. PICK j \in DOMAIN s : IsMessage(s[j], h) /\ s[j].till = n
    BY <2>0 DEF InboxFits, AllComes
  <2>2. j # 1
    BY <1>1, <1>2, <2>0, <2>1
  <2>3. j - 1 \in DOMAIN t /\ t[j - 1] = s[j]
    BY <1>1, <2>2
  <2> QED
    BY <2>1, <2>3
<1> QED
  BY <1>2, <1>3, <1>4, <1>5, <1>6 DEF InboxFits, t

(***************************************************************************)
(* Steps.                                                                  *)
(***************************************************************************)
CountTypes ==
  /\ inbox \in Seq(Messages) /\ server \in [Chats -> Marked] /\ refused \in [Chats -> Nat]
  /\ chat \in [Chats -> ChatStates] /\ histories \in Objects /\ ApplyingOK

\* The types that the counts rest on, before and after a step.
LEMMA Typing == (IInv => CountTypes) /\ (IInv' => CountTypes')
<1>1. IInv => CountTypes
  BY DEF IInv, TypeOK, TypeServer, TypeClient, CountTypes, ApplyingOK, Messages, Marked
<1>2. IInv' => CountTypes'
  BY DEF IInv, TypeOK, TypeServer, TypeClient, CountTypes, ApplyingOK, Messages, Marked
<1> QED
  BY <1>1, <1>2

\* What the server knows of.
LEMMA KnownIs ==
  ASSUME CountTypes, NEW h \in Chats
  PROVE  /\ Known(h) \in Nat /\ server[h].read <= Known(h) /\ refused[h] <= Known(h)
         /\ server[h].read \in Nat /\ server[h].top \in Nat /\ refused[h] \in Nat
         /\ chat[h] \in ChatStates /\ chat[h].top \in Nat /\ chat[h].read \in Nat
<1>1. /\ server[h].read \in Nat /\ server[h].top \in Nat /\ refused[h] \in Nat
      /\ chat[h] \in ChatStates
  BY DEF CountTypes, Marked
<1> QED
  BY <1>1 DEF Known, Max2, ChatStates

\* Of the entries that will be handled after a step, each was to be handled, or
\* is brought by the message that the client gets.
EntriesFrom(h) ==
  \A e \in applying' : e.chat = h /\ e.ok =>
    \/ e \in applying
    \/ /\ Receive /\ IsEntry(Head(inbox), h)
       /\ e.entry.read = MarkOf(Head(inbox), h)

\* What comes from the server stays on its way, or is the first message.
InboxKept == inbox' = inbox \/ (inbox # <<>> /\ inbox' = Tail(inbox))

\* A read that is done is in what comes after the step as well.
LEMMA DoneInKept ==
  ASSUME CountTypes, NEW h \in Chats, NEW till, DoneIn(till, h),
         InboxKept, EntriesFrom(h), server' = server
  PROVE  DoneIn(till, h)'
<1>1. ASSUME NEW i \in DOMAIN inbox' PROVE \E j \in DOMAIN inbox : inbox'[i] = inbox[j]
  <2>1. CASE inbox' = inbox
    BY <1>1, <2>1
  <2>2. CASE inbox # <<>> /\ inbox' = Tail(inbox)
    <3>1. inbox \in Seq(Messages)
      BY DEF CountTypes
    <3>2. \A k \in DOMAIN Tail(inbox) : k + 1 \in DOMAIN inbox /\ Tail(inbox)[k] = inbox[k + 1]
      BY <2>2, <3>1, HeadAndTail
    <3> QED
      BY <1>1, <2>2, <3>2
  <2> QED
    BY <2>1, <2>2 DEF InboxKept
<1>2. \A i \in DOMAIN inbox' : IsEntry(inbox'[i], h) => till <= MarkOf(inbox'[i], h)
  BY <1>1 DEF DoneIn
<1>3. ASSUME NEW e \in applying', e.chat = h, e.ok PROVE till <= e.entry.read
  <2>1. CASE e \in applying
    BY <1>3, <2>1 DEF DoneIn
  <2>2. CASE /\ Receive /\ IsEntry(Head(inbox), h)
             /\ e.entry.read = MarkOf(Head(inbox), h)
    <3>1. inbox \in Seq(Messages) /\ inbox # <<>>
      BY <2>2 DEF CountTypes, Receive
    <3>2. Head(inbox) = inbox[1] /\ 1 \in DOMAIN inbox
      BY <3>1, HeadAndTail
    <3> QED
      BY <2>2, <3>2 DEF DoneIn
  <2> QED
    BY <1>3, <2>1, <2>2 DEF EntriesFrom
<1> QED
  BY <1>2, <1>3 DEF DoneIn

\* What the chat h learns, when the first message is no read of it, or a read
\* that it shows.
LEMMA LearnsOn ==
  ASSUME CountTypes, NEW h \in Chats, Learns(h), server' = server,
         InboxKept,
         inbox' = inbox \/ ~IsRead(Head(inbox), h) \/ Head(inbox).till <= chat'[h].read,
         chat'[h].read \in Nat, chat'[h].read >= chat[h].read,
         Remembers(histories, h, server[h].read) =>
           Remembers(histories', h, server[h].read) \/ server[h].read <= chat'[h].read
  PROVE  Learns(h)'
<1> DEFINE read == server[h].read
<1>0. read \in Nat /\ chat[h].read \in Nat
  BY KnownIs
<1>1. CASE read <= chat[h].read
  BY <1>0, <1>1 DEF Learns
<1>2. CASE Remembers(histories, h, read)
  BY <1>2 DEF Learns
<1>3. CASE \E i \in DOMAIN inbox : IsRead(inbox[i], h) /\ inbox[i].till >= read
  <2>1. PICK i \in DOMAIN inbox : IsRead(inbox[i], h) /\ inbox[i].till >= read
    BY <1>3
  <2>2. CASE inbox' = inbox
    BY <2>1, <2>2 DEF Learns
  <2>3. CASE inbox' # inbox
    <3>1. inbox \in Seq(Messages) /\ inbox # <<>> /\ inbox' = Tail(inbox)
      BY <2>3 DEF CountTypes, InboxKept
    <3>2. /\ Head(inbox) = inbox[1]
          /\ i # 1 => i - 1 \in DOMAIN inbox' /\ inbox'[i - 1] = inbox[i]
          /\ inbox[i] \in Messages
      BY <3>1, HeadAndTail
    <3>3. CASE i = 1
      <4>1. inbox[i].till \in Nat
        BY <2>1, <3>2, MessageTypes
      <4>2. read <= chat'[h].read
        BY <1>0, <2>1, <2>3, <3>2, <3>3, <4>1
      <4> QED
        BY <4>2 DEF Learns
    <3>4. CASE i # 1
      BY <2>1, <3>2, <3>4 DEF Learns
    <3> QED
      BY <3>3, <3>4
  <2> QED
    BY <2>2, <2>3
<1> QED
  BY <1>1, <1>2, <1>3 DEF Learns

\* A step that does not touch the chat h: its reads go on.
LEMMA ChatKept ==
  ASSUME CountTypes, CountTypes', NEW h \in Chats, CountsOK(h),
         UNCHANGED <<server, refused>>, chat'[h] = chat[h], h \in stale => h \in stale',
         Passes(histories, histories', h), InboxKept, EntriesFrom(h),
         \/ inbox' = inbox
         \/ /\ ~IsMessage(Head(inbox), h)
            /\ IsRead(Head(inbox), h) => Head(inbox).till <= chat[h].read
  PROVE  CountsOK(h)'
<1>0. /\ Known(h) \in Nat /\ chat[h] \in ChatStates
      /\ chat[h].top \in Nat /\ chat[h].read \in Nat
  BY KnownIs
<1>1. /\ inbox \in Seq(Messages) /\ server[h] \in Marked /\ refused[h] \in Nat
      /\ histories \in Objects /\ histories' \in Objects
  BY DEF CountTypes
<1>2. /\ server[h].read <= server[h].top /\ chat[h].top <= server[h].top
      /\ InboxFits(inbox, h, chat[h].top, server[h], refused[h]) /\ Learns(h)
      /\ ClientFits(histories, chat[h], h, Known(h)) /\ DoneOK(h)
      /\ refused[h] = 0 /\ h \notin stale => Exact(chat[h])
  BY DEF CountsOK
<1>3. /\ ClientFits(histories', chat[h], h, Known(h)) /\ KeepsDone(histories, histories', h)
      /\ \A n \in Nat : Remembers(histories, h, n) => Remembers(histories', h, n)
  BY <1>0, <1>1, <1>2, PassesFit
<1>4. InboxFits(inbox', h, chat'[h].top, server'[h], refused'[h])
  <2>1. CASE inbox' = inbox
    BY <1>2, <2>1
  <2>2. CASE inbox' # inbox
    <3>1. inbox # <<>> /\ inbox' = Tail(inbox) /\ ~IsMessage(Head(inbox), h)
      BY <2>2 DEF InboxKept
    <3>2. InboxFits(Tail(inbox), h, chat[h].top, server[h], refused[h])
      BY <1>0, <1>1, <1>2, <3>1, InboxShrinks
    <3> QED
      BY <3>1, <3>2
  <2> QED
    BY <2>1, <2>2
<1>5. Learns(h)'
  <2>1. server[h].read \in Nat
    BY KnownIs
  <2> QED
    BY <1>0, <1>2, <1>3, <2>1, LearnsOn
<1>6. DoneOK(h)'
  <2>1. ASSUME NEW till, till = histories'.state[h].sentReadTill,
               IsDone(histories', h), refused[h] = 0
        PROVE  DoneIn(till, h)'
    <3>1. DoneIn(till, h)
      BY <1>2, <1>3, <2>1 DEF KeepsDone, DoneOK
    <3> QED
      BY <3>1, DoneInKept
  <2> QED
    BY <2>1 DEF DoneOK, DoneIn
<1>7. Known(h)' = Known(h)
  BY DEF Known
<1> QED
  BY <1>2, <1>3, <1>4, <1>5, <1>6, <1>7 DEF CountsOK

\* What a step may rest on.
Before == IInv /\ Untoggled /\ Counts

\* In parts.
LEMMA BeforeIs ==
  ASSUME Before
  PROVE  /\ CountTypes /\ histories \in Objects /\ histories.sendReadMessages
         /\ Kept(histories, {}) /\ ArmedOK(histories) /\ OnlyReadsWait(histories)
         /\ IdsOK(histories) /\ MarksOK(histories, Marks)
         /\ \A h \in Chats : CountsOK(h)
         /\ \A e \in applying : FreshEntry(e)
BY Typing DEF Before, Counts, IInv, TypeOK, TypeClient, Strict, Kept, ArmedOK

\* A step that changes no chat, but that reads may go on.
LEMMA QuietStep ==
  ASSUME Before, CountTypes', AllPass(histories, histories'),
         UNCHANGED <<chat, server, refused, stale>>, applying = {}, applying' = {},
         InboxKept, inbox' = inbox \/ Head(inbox).kind = "answer"
  PROVE  Counts'
<1>1. ASSUME NEW h \in Chats PROVE CountsOK(h)'
  <2>1. CountTypes /\ CountsOK(h)
    BY BeforeIs
  <2>2. Passes(histories, histories', h) /\ EntriesFrom(h)
    BY DEF AllPass, EntriesFrom
  <2>3. \/ inbox' = inbox
        \/ ~IsMessage(Head(inbox), h) /\ ~IsRead(Head(inbox), h)
    BY DEF IsMessage, IsRead
  <2> QED
    BY <2>1, <2>2, <2>3, ChatKept
<1> QED
  BY <1>1 DEF Counts

\* The user asks for something that is no read.
LEMMA AskCounts ==
  ASSUME Before, CountTypes', NEW h \in Chats,
         \/ \E type \in {"History", "Delete"} : Ask(h, type)
         \/ Send(h)
         \/ \E type \in {"ReadInbox", "Delete"} : AskUnended(h, type)
  PROVE  Counts'
<1>1. histories \in Objects /\ histories.sendReadMessages
  BY BeforeIs
<1>2. UNCHANGED <<chat, inbox, server, refused, stale>> /\ applying = {} /\ applying' = {}
  BY DEF Ask, Send, AskUnended, Ui, serverVars
<1>3. AllPass(histories, histories')
  <2>1. ASSUME NEW type \in {"History", "Delete"}, Ask(h, type)
        PROVE  AllPass(histories, histories')
    <3>1. histories' = SendRequest(histories, h, type, 0, TRUE)
      BY <2>1 DEF Ask
    <3>2. AllPass(histories, SendRequest(histories, h, type, 0, TRUE))
      BY <1>1, SendRequestPasses
    <3> QED
      BY <3>1, <3>2
  <2>2. CASE Send(h)
    <3>1. histories' = SendRequest(histories, h, "Send", 0, TRUE)
      BY <1>1, <2>2 DEF Send
    <3>2. AllPass(histories, SendRequest(histories, h, "Send", 0, TRUE))
      BY <1>1, SendRequestPasses
    <3> QED
      BY <3>1, <3>2
  <2>3. ASSUME NEW type \in {"ReadInbox", "Delete"}, AskUnended(h, type)
        PROVE  AllPass(histories, histories')
    <3>1. histories' = SendRequest(histories, h, "Delete", 0, FALSE)
      BY <1>1, <2>3 DEF AskUnended
    <3>2. AllPass(histories, SendRequest(histories, h, "Delete", 0, FALSE))
      BY <1>1, SendRequestPasses
    <3> QED
      BY <3>1, <3>2
  <2> QED
    BY <2>1, <2>2, <2>3
<1> QED
  BY <1>2, <1>3, QuietStep DEF InboxKept

\* A page is given up, an entry is asked for, or the user leaves a chat.
LEMMA CallCounts ==
  ASSUME Before, CountTypes', NEW h \in Chats,
         \/ \E id \in 1 .. histories.lastId[h] : CancelPage(h, id)
         \/ \E callback \in BOOLEAN : AskEntry(h, callback)
         \/ \E due \in Due : LeaveChat(h, due)
  PROVE  Counts'
<1>1. /\ histories \in Objects /\ histories.sendReadMessages /\ OnlyReadsWait(histories)
      /\ IdsOK(histories)
  BY BeforeIs
<1>2. UNCHANGED <<chat, inbox, server, refused, stale>> /\ applying = {} /\ applying' = {}
  BY DEF CancelPage, AskEntry, LeaveChat, Ui, serverVars
<1>3. AllPass(histories, histories')
  <2>1. ASSUME NEW id \in 1 .. histories.lastId[h], CancelPage(h, id)
        PROVE  AllPass(histories, histories')
    <3>1. /\ id \in histories.state[h].postponed
                      \cup { p.id : p \in Pages(histories.state[h]) }
          /\ histories' = FinishSentRequest(
               [histories EXCEPT !.state[h].postponed = @ \ {id}], h, id)
      BY <2>1 DEF CancelPage
    <3>2. id \in Nat
      BY <1>1 DEF Objects
    <3> QED
      BY <1>1, <3>1, <3>2, CancelPasses
  <2>2. ASSUME NEW callback \in BOOLEAN, AskEntry(h, callback)
        PROVE  AllPass(histories, histories')
    <3>1. histories' = RequestDialogEntry(histories, h, callback)
      BY <2>2 DEF AskEntry
    <3> QED
      BY <1>1, <3>1, RequestEntryPasses
  <2>3. ASSUME NEW due \in Due, LeaveChat(h, due)
        PROVE  AllPass(histories, histories')
    <3>1. histories' = SendPendingReadInbox(histories, h, due) /\ due \in Nat
      BY <2>3 DEF LeaveChat, Due
    <3> QED
      BY <1>1, <3>1, SendPendingPasses
  <2> QED
    BY <2>1, <2>2, <2>3
<1> QED
  BY <1>2, <1>3, QuietStep DEF InboxKept

\* The timer fires, or the postponed call comes.
LEMMA TimerCounts ==
  ASSUME Before, CountTypes', PostponedCall \/ \E due \in Due : TimerFires(due)
  PROVE  Counts'
<1>1. /\ histories \in Objects /\ histories.sendReadMessages /\ OnlyReadsWait(histories)
  BY BeforeIs
<1>2. UNCHANGED <<chat, inbox, server, refused, stale>> /\ applying = {} /\ applying' = {}
  BY DEF PostponedCall, TimerFires, serverVars
<1>3. AllPass(histories, histories')
  <2>1. CASE PostponedCall
    <3>1. histories' = [SendDialogRequests(histories) EXCEPT !.posted = FALSE]
      BY <2>1 DEF PostponedCall
    <3> QED
      BY <1>1, <3>1, SendEntriesPasses
  <2>2. ASSUME NEW due \in Due, TimerFires(due) PROVE AllPass(histories, histories')
    <3> DEFINE w == [histories EXCEPT !.timer = "off"]
    <3>1. histories' = SendReadRequests(w, due)
      BY <2>2 DEF TimerFires
    <3>2. /\ w \in Objects /\ w.state = histories.state /\ w.live = histories.live
          /\ w.armed = histories.armed /\ w.sendReadMessages
      BY <1>1 DEF Objects
    <3> HIDE DEF w
    <3>3. OnlyReadsWait(w) /\ due \in 0 .. Len(w.armed)
      BY <1>1, <3>2 DEF OnlyReadsWait, Waits, Due
    <3>4. AllPass(w, histories')
      BY <3>1, <3>2, <3>3, SendReadRequestsPasses
    <3>5. AllPass(histories, w)
      BY <3>2, ArmedPasses
    <3> QED
      BY <3>4, <3>5, PassesOn
  <2> QED
    BY <2>1, <2>2
<1> QED
  BY <1>2, <1>3, QuietStep DEF InboxKept

\* An answer that nobody waits for.
LEMMA CancelledCounts ==
  ASSUME Before, CountTypes', ReceiveCancelled
  PROVE  Counts'
<1>1. /\ UNCHANGED <<chat, server, refused, stale>> /\ applying = {} /\ applying' = {}
      /\ histories' = histories /\ InboxKept /\ Head(inbox).kind = "answer"
  BY DEF ReceiveCancelled, Receive, serverVars, InboxKept
<1>2. AllPass(histories, histories')
  <2>1. histories \in Objects
    BY BeforeIs
  <2> QED
    BY <1>1, <2>1, ArmedPasses
<1> QED
  BY <1>1, <1>2, QuietStep

\* The answer to a page, a message or a deletion; the answer to a read that
\* does not end does not come while the switch is on.
LEMMA AnsweredCounts ==
  ASSUME Before, CountTypes', ReceivePage \/ ReceiveDeleted \/ ReceiveUnended
  PROVE  Counts'
<1> DEFINE m == Head(inbox)
<1>1. histories \in Objects /\ IdsOK(histories) /\ IInv
  BY BeforeIs DEF Before
<1>2. /\ Receive /\ m.kind = "answer" /\ UNCHANGED <<chat, server, refused, stale>>
      /\ applying = {} /\ applying' = {} /\ InboxKept
  BY DEF ReceivePage, ReceiveDeleted, ReceiveUnended, ReceiveAnswer, Receive, serverVars,
         InboxKept
<1>3. m \in Answers
  BY <1>1, <1>2, ReceiveOutcome DEF IInv, TypeOK, TypeServer
<1>4. PICK q \in histories.live :
        LET w == [histories EXCEPT !.live = @ \ {q}] IN
        /\ IsAnswer(m, q)
        /\ \/ /\ m.sent.type \in {"History", "Send", "Delete"}
              /\ \E h \in m.of :
                   \/ histories' = FinishSentRequest(w, h, m.sent.id)
                   \/ histories' = FinishSentRequest(
                        SendRequest(w, h, "Delete", 0, TRUE), h, m.sent.id)
           \/ /\ m.sent.type \in {"Delete", "ReadInbox"} /\ ~m.sent.finishes
              /\ histories' = w
  <2>1. CASE ReceivePage
    BY <2>1 DEF ReceivePage, ReceiveAnswer
  <2>2. CASE ReceiveDeleted
    BY <2>2 DEF ReceiveDeleted, ReceiveAnswer
  <2>3. CASE ReceiveUnended
    BY <2>3 DEF ReceiveUnended, ReceiveAnswer
  <2> QED
    BY <2>1, <2>2, <2>3
<1> DEFINE w == [histories EXCEPT !.live = @ \ {q}]
           r == m.sent
<1>5. /\ q.sent = r /\ r \in Requests /\ Without(histories, w, q)
      /\ r.type # "Entries" => \A h \in m.of : h \in Chats /\ q = Live(h, r)
  BY <1>1, <1>3, <1>4, AnswerIsTo
<1>6. AllPass(histories, histories')
  <2>1. ASSUME r.type \in {"History", "Send", "Delete"}, NEW h \in m.of,
               \/ histories' = FinishSentRequest(w, h, r.id)
               \/ histories' = FinishSentRequest(SendRequest(w, h, "Delete", 0, TRUE), h, r.id)
        PROVE  AllPass(histories, histories')
    <3>1. h \in Chats /\ q = Live(h, r)
      BY <1>5, <2>1
    <3> HIDE DEF w, r
    <3>2. /\ AllPass(histories, FinishSentRequest(w, h, r.id))
          /\ AllPass(histories, FinishSentRequest(SendRequest(w, h, "Delete", 0, TRUE), h, r.id))
      BY <1>1, <1>5, <2>1, <3>1, AnsweredPasses
    <3> QED
      BY <2>1, <3>2
  <2>2. ASSUME r.type \in {"Delete", "ReadInbox"}, ~r.finishes, histories' = w
        PROVE  AllPass(histories, histories')
    <3>1. PICK h \in Chats : q = Live(h, r)
      BY <1>1, <1>5, <2>2 DEF IdsOK
    <3> HIDE DEF w, r
    <3>2. r.type # "ReadInbox"
      <4>1. ReadsFit(histories, h, chat[h].top)
        BY BeforeIs DEF CountsOK, ClientFits
      <4> QED
        BY <1>5, <2>2, <3>1, <4>1 DEF ReadsFit
    <3>3. AllPass(histories, w)
      BY <1>1, <1>5, <3>2, WithoutPasses
    <3> QED
      BY <2>2, <3>3
  <2> QED
    BY <1>4, <2>1, <2>2
<1> QED
  BY <1>2, <1>6, QuietStep

\* What the server says about h, which was sv and is tv; rf: what it refused.
Tells(m, h, sv, tv, rf) ==
  /\ Newest(m, h, sv, tv) /\ tv.read <= tv.top
  /\ EndsRead(m, h) =>
       m.sent.till > 0 /\ m.sent.till <= IF m.ok THEN tv.read ELSE rf
  /\ \/ tv.read = sv.read
     \/ IsRead(m, h)
     \/ Remembers(histories, h, tv.read)

\* A message of the server fits.
LEMMA SaidFits ==
  ASSUME NEW m \in Messages, NEW h \in Chats, NEW top \in Nat, NEW sv \in Marked,
         NEW tv \in Marked, NEW rf \in Nat, Tells(m, h, sv, tv, rf), top <= sv.top
  PROVE  Fits(m, h, top, tv, rf) /\ tv.top >= sv.top /\ tv.read >= sv.read
<1>1. /\ sv.top \in Nat /\ tv.top \in Nat /\ sv.read \in Nat /\ tv.read \in Nat
  BY DEF Marked
<1>2. /\ HasTop(m, h) => TopOf(m, h) = tv.top
      /\ IsRead(m, h) \/ IsEntry(m, h) => MarkOf(m, h) = tv.read
      /\ tv.read >= sv.read /\ tv.read <= tv.top
      /\ tv.top = IF IsMessage(m, h) THEN sv.top + 1 ELSE sv.top
      /\ EndsRead(m, h) =>
           m.sent.till > 0 /\ m.sent.till <= IF m.ok THEN tv.read ELSE rf
  BY DEF Tells, Newest
<1>3. tv.top >= sv.top
  BY <1>1, <1>2
<1>4. HasTop(m, h) => TopOf(m, h) \in top .. tv.top
  BY <1>1, <1>2, <1>3
<1>5. IsMessage(m, h) => TopOf(m, h) > top
  BY <1>1, <1>2 DEF HasTop
<1>6. HasMark(m, h) => MarkOf(m, h) <= tv.read
  <2>1. EndsRead(m, h) /\ m.ok => MarkOf(m, h) <= tv.read
    BY <1>2 DEF EndsRead, MarkOf, IsRead, IsEntry
  <2> QED
    BY <1>1, <1>2, <2>1 DEF HasMark
<1>7. IsRead(m, h) \/ IsEntry(m, h) => MarkOf(m, h) <= TopOf(m, h)
  BY <1>2 DEF HasTop
<1>8. EndsRead(m, h) => m.sent.till > 0 /\ (m.ok \/ m.sent.till <= rf)
  BY <1>2
<1> QED
  BY <1>2, <1>3, <1>4, <1>5, <1>6, <1>7, <1>8 DEF Fits

\* A message behind the others: they are where they were.
LEMMA Appended ==
  ASSUME NEW s \in Seq(Messages), NEW m \in Messages
  PROVE  /\ \A i \in DOMAIN s : i \in DOMAIN Append(s, m) /\ Append(s, m)[i] = s[i]
         /\ \E i \in DOMAIN Append(s, m) : Append(s, m)[i] = m
         /\ \A i \in DOMAIN Append(s, m) :
              (i \in DOMAIN s /\ Append(s, m)[i] = s[i]) \/ Append(s, m)[i] = m
<1> DEFINE t == Append(s, m)
           l == Len(s)
<1>1. /\ Len(t) = l + 1 /\ l \in Nat
      /\ \A i \in 1 .. l : t[i] = s[i]
      /\ t[l + 1] = m /\ DOMAIN s = 1 .. l /\ DOMAIN t = 1 .. l + 1
  BY AppendProperties, LenProperties
<1> HIDE DEF t, l
<1> SUFFICES /\ \A i \in DOMAIN s : i \in DOMAIN t /\ t[i] = s[i]
             /\ \E i \in DOMAIN t : t[i] = m
             /\ \A i \in DOMAIN t : (i \in DOMAIN s /\ t[i] = s[i]) \/ t[i] = m
  BY DEF t
<1>2. l + 1 \in DOMAIN t
  BY <1>1
<1>3. \A i \in 1 .. l + 1 : i \in 1 .. l \/ i = l + 1
  BY <1>1
<1>4. \A i \in 1 .. l : i \in 1 .. l + 1
  BY <1>1
<1> QED
  BY <1>1, <1>2, <1>3, <1>4

\* The server does something, and says so.
LEMMA ServerCounts ==
  ASSUME Before, CountTypes', UNCHANGED <<histories, chat, stale>>,
         applying = {}, applying' = {},
         NEW m \in Messages, inbox' = Append(inbox, m),
         \A h \in Chats : /\ refused'[h] >= refused[h]
                          /\ Tells(m, h, server[h], server'[h], refused'[h])
  PROVE  Counts'
<1>1. ASSUME NEW h \in Chats PROVE CountsOK(h)'
  <2>1. /\ inbox \in Seq(Messages) /\ server[h] \in Marked /\ server'[h] \in Marked
        /\ refused[h] \in Nat /\ refused'[h] \in Nat /\ histories \in Objects
        /\ server'[h].read \in Nat /\ server'[h].top \in Nat
    BY BeforeIs DEF CountTypes, Marked
  <2>2. /\ Known(h) \in Nat /\ server[h].read <= Known(h) /\ refused[h] <= Known(h)
        /\ server[h].read \in Nat /\ server[h].top \in Nat
        /\ chat[h] \in ChatStates /\ chat[h].top \in Nat /\ chat[h].read \in Nat
    BY BeforeIs, KnownIs
  <2>3. /\ server[h].read <= server[h].top /\ chat[h].top <= server[h].top
        /\ InboxFits(inbox, h, chat[h].top, server[h], refused[h]) /\ Learns(h)
        /\ ClientFits(histories, chat[h], h, Known(h)) /\ DoneOK(h)
        /\ refused[h] = 0 /\ h \notin stale => Exact(chat[h])
    BY BeforeIs DEF CountsOK
  <2>4. /\ Fits(m, h, chat[h].top, server'[h], refused'[h])
        /\ server'[h].top >= server[h].top /\ server'[h].read >= server[h].read
    BY <2>1, <2>2, <2>3, SaidFits
  <2>5. /\ Newest(m, h, server[h], server'[h]) /\ server'[h].read <= server'[h].top
        /\ \/ server'[h].read = server[h].read
           \/ IsRead(m, h)
           \/ Remembers(histories, h, server'[h].read)
        /\ refused'[h] >= refused[h]
    BY DEF Tells
  <2>6. InboxFits(inbox', h, chat[h].top, server'[h], refused'[h])
    BY <2>1, <2>2, <2>3, <2>4, <2>5, InboxGrows
  <2>7. /\ \A i \in DOMAIN inbox : i \in DOMAIN inbox' /\ inbox'[i] = inbox[i]
        /\ \E i \in DOMAIN inbox' : inbox'[i] = m
        /\ \A i \in DOMAIN inbox' :
             (i \in DOMAIN inbox /\ inbox'[i] = inbox[i]) \/ inbox'[i] = m
    BY <2>1, Appended
  <2>8. Learns(h)'
    <3>1. CASE server'[h].read = server[h].read
      BY <2>3, <2>7, <3>1 DEF Learns
    <3>2. CASE IsRead(m, h)
      <4>1. m.till = server'[h].read
        BY <2>5, <3>2, MessageTypes DEF Newest
      <4>2. \E i \in DOMAIN inbox' : IsRead(inbox'[i], h) /\ inbox'[i].till >= server'[h].read
        BY <2>1, <2>7, <3>2, <4>1
      <4> QED
        BY <4>2 DEF Learns
    <3>3. CASE Remembers(histories, h, server'[h].read)
      BY <3>3 DEF Learns
    <3> QED
      BY <2>5, <3>1, <3>2, <3>3
  <2>9. Known(h)' \in Nat /\ Known(h)' >= Known(h)
    BY <2>1, <2>2, <2>4, <2>5 DEF Known, Max2
  <2>10. ClientFits(histories', chat'[h], h, Known(h)')
    <3>1. histories.state[h].sentReadTill \in Nat /\ histories.state[h].willReadTill \in Nat
      BY <2>1 DEF Objects, States
    <3> DEFINE kn == Known(h)'
    <3>2. kn \in Nat /\ kn >= Known(h)
      BY <2>9
    <3> HIDE DEF kn
    <3>3. Told(histories, h, chat[h].read, kn)
      BY <2>2, <2>3, <3>1, <3>2 DEF ClientFits, Told
    <3>4. ClientFits(histories, chat[h], h, kn)
      BY <2>3, <3>3 DEF ClientFits
    <3> QED
      BY <3>4 DEF kn
  <2>11. DoneOK(h)'
    <3> SUFFICES ASSUME NEW till, till = histories.state[h].sentReadTill,
                        IsDone(histories, h), refused'[h] = 0
                 PROVE  DoneIn(till, h)'
      BY DEF DoneOK, DoneIn
    <3>1. DoneIn(till, h) /\ till \in Nat
      BY <2>1, <2>3, <2>5 DEF DoneOK, Objects, States
    <3>2. till <= server'[h].read
      BY <2>1, <2>2, <2>4, <3>1 DEF DoneIn
    <3>3. \A i \in DOMAIN inbox' : IsEntry(inbox'[i], h) => till <= MarkOf(inbox'[i], h)
      BY <2>5, <2>7, <3>1, <3>2 DEF DoneIn, Newest
    <3> QED
      BY <3>2, <3>3 DEF DoneIn
  <2>12. chat'[h].top <= server'[h].top
    BY <2>1, <2>2, <2>3, <2>4
  <2>13. refused'[h] = 0 /\ h \notin stale' => Exact(chat'[h])
    BY <2>1, <2>3, <2>5
  <2> QED
    BY <2>5, <2>6, <2>8, <2>10, <2>11, <2>12, <2>13 DEF CountsOK
<1> QED
  BY <1>1 DEF Counts

\* What the marks of a chat are like.
LEMMA ServerIs ==
  ASSUME Before, NEW h \in Chats
  PROVE  /\ server[h] \in Marked /\ server[h].top \in Nat /\ server[h].read \in Nat
         /\ chat[h].top \in Nat /\ refused[h] \in Nat
         /\ server[h].read <= server[h].top /\ chat[h].top <= server[h].top
         /\ server \in [Chats -> Marked] /\ refused \in [Chats -> Nat]
BY BeforeIs, KnownIs DEF CountTypes, CountsOK

\* A message of somebody else.
LEMMA MessageCounts ==
  ASSUME Before, CountTypes', NEW h \in Chats, NewMessage(h)
  PROVE  Counts'
<1> DEFINE m == Push("message", h, server'[h].top, 0)
<1>1. /\ server' = [server EXCEPT ![h].top = @ + 1]
      /\ inbox' = Append(inbox, m) /\ applying = {} /\ applying' = {}
      /\ UNCHANGED <<histories, chat, refused, stale>>
  BY DEF NewMessage, Says
<1>2. /\ \A g \in Chats \ {h} : server'[g] = server[g]
      /\ server'[h].top = server[h].top + 1 /\ server'[h].read = server[h].read
  BY <1>1, ServerIs DEF Marked
<1>3. m.kind = "message" /\ m.chat = h /\ m.till = server'[h].top /\ m \in Messages
  <2>1. server'[h].top \in Nat
    BY <1>2, ServerIs
  <2> QED
    BY <2>1 DEF Push, Messages, Pushes
<1> HIDE DEF m
<1>4. ASSUME NEW g \in Chats
      PROVE  refused'[g] >= refused[g] /\ Tells(m, g, server[g], server'[g], refused'[g])
  <2>1. ~IsRead(m, g) /\ ~IsEntry(m, g) /\ ~EndsRead(m, g)
    BY <1>3 DEF IsRead, IsEntry, EndsRead
  <2>2. refused[g] \in Nat /\ server[g].read \in Nat /\ server[g].top \in Nat
        /\ server[g].read <= server[g].top
    BY ServerIs
  <2>3. CASE g = h
    <3>1. IsMessage(m, h) /\ TopOf(m, h) = m.till
      BY <1>3 DEF IsMessage, TopOf
    <3> QED
      BY <1>1, <1>2, <1>3, <2>1, <2>2, <2>3, <3>1 DEF Tells, Newest
  <2>4. CASE g # h
    <3>1. ~IsMessage(m, g)
      BY <1>3, <2>4 DEF IsMessage
    <3> QED
      BY <1>1, <1>2, <2>1, <2>2, <2>4, <3>1 DEF Tells, Newest, HasTop
  <2> QED
    BY <2>3, <2>4
<1> QED
  BY <1>1, <1>3, <1>4, ServerCounts

\* A read on another device.
LEMMA ElsewhereCounts ==
  ASSUME Before, CountTypes', NEW h \in Chats, NEW till \in Tops, ReadElsewhere(h, till)
  PROVE  Counts'
<1> DEFINE m == Push("read", h, till, server[h].top - till)
<1>0. /\ server[h].top \in Nat /\ server[h].read \in Nat /\ till \in Nat
  BY ServerIs, BoundsAssumption DEF Tops
<1>1. /\ server' = [server EXCEPT ![h].read = till]
      /\ inbox' = Append(inbox, m) /\ applying = {} /\ applying' = {}
      /\ UNCHANGED <<histories, chat, refused, stale>>
      /\ till > server[h].read /\ till <= server[h].top
  BY <1>0 DEF ReadElsewhere, Says
<1>2. /\ \A g \in Chats \ {h} : server'[g] = server[g]
      /\ server'[h].top = server[h].top /\ server'[h].read = till
  BY <1>1, ServerIs DEF Marked
<1>3. /\ m.kind = "read" /\ m.chat = h /\ m.till = till /\ m.unread = server[h].top - till
      /\ m \in Messages
  BY <1>0 DEF Push, Messages, Pushes
<1> HIDE DEF m
<1>4. ASSUME NEW g \in Chats
      PROVE  refused'[g] >= refused[g] /\ Tells(m, g, server[g], server'[g], refused'[g])
  <2>1. ~IsMessage(m, g) /\ ~IsEntry(m, g) /\ ~EndsRead(m, g)
    BY <1>3 DEF IsMessage, IsEntry, EndsRead
  <2>2. refused[g] \in Nat /\ server[g].read \in Nat /\ server[g].top \in Nat
        /\ server[g].read <= server[g].top
    BY ServerIs
  <2>3. CASE g = h
    <3>1. IsRead(m, h) /\ TopOf(m, h) = m.till + m.unread /\ MarkOf(m, h) = m.till
      BY <1>3 DEF IsMessage, IsRead, TopOf, MarkOf
    <3> QED
      BY <1>0, <1>1, <1>2, <1>3, <2>1, <2>2, <2>3, <3>1 DEF Tells, Newest
  <2>4. CASE g # h
    <3>1. ~IsRead(m, g)
      BY <1>3, <2>4 DEF IsRead
    <3> QED
      BY <1>1, <1>2, <2>1, <2>2, <2>4, <3>1 DEF Tells, Newest, HasTop
  <2> QED
    BY <2>3, <2>4
<1> QED
  BY <1>1, <1>3, <1>4, ServerCounts

\* What an answer says of a chat.
LEMMA AnswerSays ==
  ASSUME Before, NEW q \in histories.live, NEW ok \in BOOLEAN, NEW m, m = Answer(q, ok),
         NEW g \in Chats
  PROVE  /\ m \in Messages /\ ~IsMessage(m, g) /\ ~IsRead(m, g)
         /\ IsEntry(m, g) => /\ TopOf(m, g) = server[g].top /\ MarkOf(m, g) = server[g].read
                             /\ ok /\ q.sent.type = "Entries"
         /\ EndsRead(m, g) <=> g \in q.of /\ q.sent.type = "ReadInbox"
         /\ m.sent = q.sent /\ m.ok = ok /\ q.sent \in Requests
<1>1. /\ server \in [Chats -> [top : Nat, read : Nat]]
      /\ q \in [of : SUBSET Chats, sent : Requests]
  BY BeforeIs DEF Objects, CountTypes, Marked
<1>2. m \in Messages
  BY <1>1, AnswerType DEF Messages
<1>3. /\ m.kind = "answer" /\ m.of = q.of /\ m.sent = q.sent /\ m.ok = ok
      /\ m.entries = IF ok /\ q.sent.type = "Entries" THEN Served(q.of) ELSE <<>>
  BY DEF Answer
<1>4. ~IsMessage(m, g) /\ ~IsRead(m, g)
  BY <1>3 DEF IsMessage, IsRead
<1>5. EndsRead(m, g) <=> g \in q.of /\ q.sent.type = "ReadInbox"
  BY <1>3 DEF EndsRead
<1>6. ASSUME IsEntry(m, g)
      PROVE  /\ TopOf(m, g) = server[g].top /\ MarkOf(m, g) = server[g].read
             /\ ok /\ q.sent.type = "Entries"
  <2>1. ok /\ q.sent.type = "Entries" /\ g \in q.of
    BY <1>3, <1>6 DEF IsEntry
  <2>2. m.entries[g] = [read |-> server[g].read, unread |-> server[g].top - server[g].read]
    BY <1>3, <2>1 DEF Served
  <2>3. server[g].read \in Nat /\ server[g].top \in Nat
    BY <1>1
  <2>4. m.entries[g].read = server[g].read /\ m.entries[g].unread = server[g].top - server[g].read
    BY <2>2
  <2>5. m.entries[g].read + m.entries[g].unread = server[g].top
    BY <2>3, <2>4
  <2>6. TopOf(m, g) = m.entries[g].read + m.entries[g].unread
    BY <1>4 DEF TopOf
  <2>7. MarkOf(m, g) = m.entries[g].read
    BY <1>4, <1>6 DEF MarkOf
  <2> QED
    BY <2>1, <2>4, <2>5, <2>6, <2>7
<1>7. q.sent \in Requests
  BY <1>1
<1> QED
  BY <1>2, <1>3, <1>4, <1>5, <1>6, <1>7

\* A read that is out is of messages that the chat has.
LEMMA ReadOutIs ==
  ASSUME Before, NEW q \in histories.live, q.sent.type = "ReadInbox",
         NEW h \in Chats, h \in q.of
  PROVE  /\ q = Live(h, q.sent) /\ q.of = {h} /\ q.sent \in Requests
         /\ q.sent.till \in Nat /\ q.sent.till > 0 /\ q.sent.till <= chat[h].top
         /\ Remembers(histories, h, q.sent.till)
<1>1. q \in [of : SUBSET Chats, sent : Requests] /\ IdsOK(histories)
  BY BeforeIs DEF Objects
<1>2. PICK g \in Chats : q = Live(g, q.sent)
  BY <1>1 DEF IdsOK
<1>3. q.of = {g}
  BY <1>2 DEF Live
<1>4. q = Live(h, q.sent) /\ q.of = {h} /\ q.sent \in Requests
  BY <1>1, <1>2, <1>3
<1>5. q.sent.till \in Nat /\ chat[h].top \in Nat
  BY <1>4, ServerIs DEF Requests
<1>6. ReadsFit(histories, h, chat[h].top)
  BY BeforeIs DEF CountsOK, ClientFits
<1>7. q.sent.till \in 1 .. chat[h].top
  <2>1. Live(h, q.sent) \in histories.live
    BY <1>4
  <2> QED
    BY <1>4, <1>6, <2>1 DEF ReadsFit
<1>8. Remembers(histories, h, q.sent.till)
  <2>1. Live(h, q.sent) \in histories.live /\ q.sent.till >= q.sent.till
    BY <1>4, <1>5
  <2> QED
    BY <1>4, <2>1 DEF Remembers, ReadBeyond
<1> QED
  BY <1>4, <1>5, <1>7, <1>8

\* The server does what a request asks for.
LEMMA ServedCounts ==
  ASSUME Before, CountTypes', NEW q \in histories.live, Serve(q)
  PROVE  Counts'
<1> DEFINE m == Answer(q, TRUE)
<1>1. /\ inbox' = Append(inbox, m) /\ applying = {} /\ applying' = {}
      /\ UNCHANGED <<histories, chat, refused, stale>>
      /\ server' = IF q.sent.type = "ReadInbox"
                   THEN [h \in Chats |-> IF h \in q.of
                          THEN [server[h] EXCEPT !.read = Max2(@, q.sent.till)]
                          ELSE server[h]]
                   ELSE server
  BY DEF Serve, Says
<1> HIDE DEF m
<1>2. ASSUME NEW g \in Chats
      PROVE  refused'[g] >= refused[g] /\ Tells(m, g, server[g], server'[g], refused'[g])
  <2>0. /\ server[g] \in Marked /\ server[g].top \in Nat /\ server[g].read \in Nat
        /\ server[g].read <= server[g].top /\ chat[g].top <= server[g].top
        /\ refused[g] \in Nat /\ chat[g].top \in Nat
    BY ServerIs
  <2>1. /\ ~IsMessage(m, g) /\ ~IsRead(m, g)
        /\ IsEntry(m, g) => /\ TopOf(m, g) = server[g].top /\ MarkOf(m, g) = server[g].read
                            /\ q.sent.type = "Entries"
        /\ EndsRead(m, g) <=> g \in q.of /\ q.sent.type = "ReadInbox"
        /\ m.sent = q.sent /\ m.ok
    BY AnswerSays DEF m
  <2>2. CASE g \in q.of /\ q.sent.type = "ReadInbox"
    <3>1. /\ q.sent.till \in Nat /\ q.sent.till > 0 /\ q.sent.till <= chat[g].top
          /\ Remembers(histories, g, q.sent.till)
      BY <2>2, ReadOutIs
    <3>2. /\ server'[g] = [server[g] EXCEPT !.read = Max2(@, q.sent.till)]
      BY <1>1, <2>2
    <3>3. /\ server'[g].top = server[g].top
          /\ server'[g].read = Max2(server[g].read, q.sent.till)
      BY <2>0, <3>2 DEF Marked
    <3>4. \/ server'[g].read = server[g].read /\ server[g].read >= q.sent.till
          \/ server'[g].read = q.sent.till /\ q.sent.till >= server[g].read
      BY <2>0, <3>1, <3>3 DEF Max2
    <3>5. /\ server'[g].read >= server[g].read /\ server'[g].read <= server'[g].top
          /\ q.sent.till <= server'[g].read
      BY <2>0, <3>1, <3>3, <3>4
    <3>6. Newest(m, g, server[g], server'[g])
      BY <2>1, <2>2, <3>3, <3>5 DEF Newest, HasTop
    <3> QED
      BY <1>1, <2>0, <2>1, <3>1, <3>4, <3>5, <3>6 DEF Tells
  <2>3. CASE ~(g \in q.of /\ q.sent.type = "ReadInbox")
    <3>1. server'[g] = server[g]
      BY <1>1, <2>3
    <3>2. Newest(m, g, server[g], server'[g])
      BY <2>0, <2>1, <3>1 DEF Newest, HasTop
    <3> QED
      BY <1>1, <2>0, <2>1, <2>3, <3>1, <3>2 DEF Tells
  <2> QED
    BY <2>2, <2>3
<1>3. m \in Messages
  BY AnswerType, BeforeIs DEF m, Messages, CountTypes, Marked, Objects
<1> QED
  BY <1>1, <1>2, <1>3, ServerCounts

\* The server refuses it.
LEMMA RefusedCounts ==
  ASSUME Before, CountTypes', NEW q \in histories.live, Refuse(q)
  PROVE  Counts'
<1> DEFINE m == Answer(q, FALSE)
<1>1. /\ inbox' = Append(inbox, m) /\ applying = {} /\ applying' = {}
      /\ UNCHANGED <<histories, chat, server, stale>>
      /\ refused' = [h \in Chats |-> IF h \in q.of
                       THEN Max2(refused[h], q.sent.till) ELSE refused[h]]
  BY DEF Refuse, Says
<1>2. m \in Messages
  BY AnswerType, BeforeIs DEF Messages, CountTypes, Marked, Objects
<1> HIDE DEF m
<1>3. ASSUME NEW g \in Chats
      PROVE  refused'[g] >= refused[g] /\ Tells(m, g, server[g], server'[g], refused'[g])
  <2>0. /\ server[g] \in Marked /\ server[g].top \in Nat /\ server[g].read \in Nat
        /\ server[g].read <= server[g].top /\ refused[g] \in Nat
    BY ServerIs
  <2>1. /\ ~IsMessage(m, g) /\ ~IsRead(m, g) /\ ~IsEntry(m, g)
        /\ EndsRead(m, g) <=> g \in q.of /\ q.sent.type = "ReadInbox"
        /\ m.sent = q.sent /\ ~m.ok /\ q.sent \in Requests
    BY AnswerSays DEF m
  <2>2. q.sent.till \in Nat
    BY <2>1 DEF Requests
  <2>3. /\ refused'[g] >= refused[g]
        /\ g \in q.of => q.sent.till <= refused'[g]
    BY <1>1, <2>0, <2>2 DEF Max2
  <2>4. Newest(m, g, server[g], server'[g])
    BY <1>1, <2>0, <2>1 DEF Newest, HasTop
  <2>5. EndsRead(m, g) => q.sent.till > 0
    BY <2>1, ReadOutIs
  <2> QED
    BY <1>1, <2>0, <2>1, <2>3, <2>4, <2>5 DEF Tells
<1> QED
  BY <1>1, <1>2, <1>3, ServerCounts

\* A step that changes the chat h as the parts of the invariant want it to.
LEMMA ChatChanges ==
  ASSUME CountTypes, CountTypes', NEW h \in Chats, CountsOK(h),
         UNCHANGED <<server, refused>>, InboxKept, EntriesFrom(h),
         chat'[h].top <= server[h].top,
         InboxFits(inbox', h, chat'[h].top, server[h], refused[h]),
         inbox' = inbox \/ ~IsRead(Head(inbox), h) \/ Head(inbox).till <= chat'[h].read,
         chat'[h].read >= chat[h].read,
         ClientFits(histories', chat'[h], h, Known(h)),
         \A n \in Nat : Remembers(histories, h, n) =>
           Remembers(histories', h, n) \/ n <= chat'[h].read,
         IsDone(histories', h) /\ refused[h] = 0 =>
           DoneIn(histories'.state[h].sentReadTill, h),
         refused[h] = 0 /\ h \notin stale' => Exact(chat'[h])
  PROVE  CountsOK(h)'
<1>1. server[h].read <= server[h].top /\ Learns(h)
  BY DEF CountsOK
<1>2. chat'[h].read \in Nat /\ server[h].read \in Nat
  BY KnownIs DEF CountTypes, ChatStates
<1>3. Learns(h)'
  BY <1>1, <1>2, LearnsOn
<1>4. DoneOK(h)'
  <2> SUFFICES ASSUME NEW till, till = histories'.state[h].sentReadTill,
                      IsDone(histories', h), refused[h] = 0
               PROVE  DoneIn(till, h)'
    BY DEF DoneOK, DoneIn
  <2>1. DoneIn(till, h)
    OBVIOUS
  <2> QED
    BY <2>1, DoneInKept
<1>5. Known(h)' = Known(h)
  BY DEF Known
<1> QED
  BY <1>1, <1>3, <1>4, <1>5 DEF CountsOK

\* The client gets a message.
LEMMA GotMessageCounts ==
  ASSUME Before, CountTypes', ReceiveMessage
  PROVE  Counts'
<1> DEFINE m == Head(inbox)
<1>0. PICK h : h = m.chat
  OBVIOUS
<1> DEFINE b == [chat[h] EXCEPT !.top = m.till]
           v == IF b.read < m.till THEN SetUnreadCount(b, b.unread + 1) ELSE b
<1>1. /\ Receive /\ m.kind = "message" /\ chat' = [chat EXCEPT ![h] = v]
      /\ UNCHANGED <<histories, server, refused, stale>>
      /\ applying = {} /\ applying' = {} /\ InboxKept
  BY <1>0 DEF ReceiveMessage, Receive, serverVars, InboxKept
<1>2. /\ inbox \in Seq(Messages) /\ inbox # <<>> /\ inbox' = Tail(inbox)
      /\ CountTypes /\ histories \in Objects /\ chat \in [Chats -> ChatStates]
  BY <1>1, BeforeIs DEF Receive, CountTypes
<1>3. h \in Chats /\ IsMessage(m, h)
  <2>1. m \in Messages
    BY <1>2, HeadAndTail
  <2> QED
    BY <1>0, <1>1, <2>1 DEF Messages, Pushes, Answers, IsMessage
<1>4. /\ CountsOK(h) /\ server[h] \in Marked /\ refused[h] \in Nat
      /\ chat[h] \in ChatStates /\ chat[h].top \in Nat /\ chat[h].read \in Nat
      /\ chat[h].top <= server[h].top
      /\ InboxFits(inbox, h, chat[h].top, server[h], refused[h])
      /\ ClientFits(histories, chat[h], h, Known(h)) /\ DoneOK(h)
      /\ refused[h] = 0 /\ h \notin stale => Exact(chat[h])
  BY <1>3, BeforeIs, KnownIs, ServerIs DEF CountsOK
<1>5. /\ m.till = chat[h].top + 1 /\ m.till <= server[h].top
      /\ InboxFits(inbox', h, m.till, server[h], refused[h])
  <2>1. /\ m.till = chat[h].top + 1 /\ chat[h].top + 1 <= server[h].top
        /\ InboxFits(Tail(inbox), h, chat[h].top + 1, server[h], refused[h])
    BY <1>2, <1>3, <1>4, InboxGets
  <2> QED
    BY <1>2, <2>1
<1>6. /\ v \in ChatStates /\ v.top = m.till /\ v.read = chat[h].read
      /\ v.unread = chat[h].unread + 1
  BY <1>4, <1>5, MessageCounted DEF ClientFits
<1> HIDE DEF v, b
<1>7. chat'[h] = v /\ \A g \in Chats \ {h} : chat'[g] = chat[g]
  BY <1>1, <1>2, <1>3
<1>8. ~IsRead(m, h)
  BY <1>1 DEF IsRead
<1> HIDE DEF m
<1>9. ClientFits(histories, v, h, Known(h))
  <2>0. chat[h].unread \in Int
    BY <1>4 DEF ChatStates
  <2>1. ShownOK(v)
    BY <1>4, <1>5, <1>6, <2>0 DEF ClientFits, ShownOK
  <2>2. ReadsFit(histories, h, v.top)
    <3>1. ReadsFit(histories, h, chat[h].top) /\ v.top = chat[h].top + 1
      BY <1>4, <1>5, <1>6 DEF ClientFits
    <3>2. /\ histories.state[h].willReadTill \in Nat /\ histories.state[h].sentReadTill \in Nat
          /\ \A r \in Requests : r.till \in Nat
      BY <1>2, <1>3 DEF Objects, States, Requests
    <3> QED
      BY <1>4, <3>1, <3>2 DEF ReadsFit
  <2> QED
    BY <1>4, <1>6, <2>1, <2>2 DEF ClientFits
<1>10. refused[h] = 0 /\ h \notin stale => Exact(v)
  <2>1. chat[h].unread \in Int
    BY <1>4 DEF ChatStates
  <2> QED
    BY <1>4, <1>5, <1>6, <2>1 DEF Exact
<1>11. CountsOK(h)'
  <2>1. EntriesFrom(h)
    BY <1>1 DEF EntriesFrom
  <2>2. IsDone(histories', h) /\ refused[h] = 0 => DoneIn(histories'.state[h].sentReadTill, h)
    BY <1>1, <1>4 DEF DoneOK
  <2>3. chat'[h].read >= chat[h].read
    BY <1>4, <1>6, <1>7
  <2>4. /\ chat'[h].top <= server[h].top
        /\ InboxFits(inbox', h, chat'[h].top, server[h], refused[h])
    BY <1>5, <1>6, <1>7
  <2>5. inbox' = inbox \/ ~IsRead(Head(inbox), h) \/ Head(inbox).till <= chat'[h].read
    BY <1>8 DEF m
  <2>6. refused[h] = 0 /\ h \notin stale' => Exact(chat'[h])
    BY <1>1, <1>7, <1>10
  <2>7. ClientFits(histories', chat'[h], h, Known(h))
    BY <1>1, <1>7, <1>9
  <2>8. \A n \in Nat : Remembers(histories, h, n) =>
          Remembers(histories', h, n) \/ n <= chat'[h].read
    BY <1>1
  <2> QED
    BY <1>1, <1>2, <1>3, <1>4, <2>1, <2>2, <2>3, <2>4, <2>5, <2>6, <2>7, <2>8, ChatChanges
<1>12. ASSUME NEW g \in Chats \ {h} PROVE CountsOK(g)'
  <2>1. ~IsMessage(Head(inbox), g) /\ ~IsRead(Head(inbox), g)
    BY <1>0, <1>1, <1>3 DEF IsMessage, IsRead, m
  <2>2. Passes(histories, histories', g) /\ EntriesFrom(g) /\ CountsOK(g)
    BY <1>1, BeforeIs DEF Passes, Stays, EntriesFrom
  <2> QED
    BY <1>1, <1>2, <1>7, <2>1, <2>2, ChatKept
<1> QED
  BY <1>1, <1>11, <1>12 DEF Counts

\* The first message is a read of a chat on another device: what it brings.
LEMMA ReadBrings ==
  ASSUME Before, inbox # <<>>, NEW m, m = Head(inbox), m.kind = "read"
  PROVE  /\ m.chat \in Chats /\ IsRead(m, m.chat) /\ m.till \in Nat /\ m.unread \in Int
         /\ \A g \in Chats : ~IsMessage(m, g) /\ (IsRead(m, g) => g = m.chat)
         /\ m.till + m.unread = chat[m.chat].top /\ m.unread >= 0
         /\ m.till <= Known(m.chat)
         /\ \A g \in Chats : InboxFits(Tail(inbox), g, chat[g].top, server[g], refused[g])
<1> DEFINE h == m.chat
<1>1. inbox \in Seq(Messages) /\ m \in Messages /\ m = inbox[1] /\ 1 \in DOMAIN inbox
  BY BeforeIs, HeadAndTail DEF CountTypes
<1>2. h \in Chats /\ IsRead(m, h) /\ m.till \in Nat /\ m.unread \in Int
  BY <1>1 DEF Messages, Pushes, Answers, IsRead
<1>3. \A g \in Chats : ~IsMessage(m, g) /\ (IsRead(m, g) => g = h)
  BY DEF IsMessage, IsRead
<1> HIDE DEF h
<1>4. /\ InboxFits(inbox, h, chat[h].top, server[h], refused[h])
      /\ chat[h].top <= server[h].top /\ server[h] \in Marked /\ refused[h] \in Nat
      /\ chat[h].top \in Nat /\ server[h].read <= Known(h)
      /\ Known(h) \in Nat /\ server[h].read \in Nat
  BY <1>2, BeforeIs, ServerIs, KnownIs DEF CountsOK
<1>5. HasTop(m, h) /\ TopOf(m, h) = m.till + m.unread /\ HasMark(m, h) /\ MarkOf(m, h) = m.till
  BY <1>2, <1>3 DEF HasTop, HasMark, TopOf, MarkOf
<1>6. TopOf(m, h) = chat[h].top
  BY <1>1, <1>2, <1>3, <1>4, <1>5, HeadIsNext
<1>7. Fits(m, h, chat[h].top, server[h], refused[h])
  BY <1>1, <1>4 DEF InboxFits
<1>8. m.till <= chat[h].top /\ m.till <= server[h].read
  BY <1>2, <1>5, <1>6, <1>7 DEF Fits
<1>9. ASSUME NEW g \in Chats
      PROVE  InboxFits(Tail(inbox), g, chat[g].top, server[g], refused[g])
  <2>1. /\ InboxFits(inbox, g, chat[g].top, server[g], refused[g])
        /\ server[g] \in Marked /\ refused[g] \in Nat /\ chat[g].top \in Nat
    BY BeforeIs, ServerIs DEF CountsOK
  <2> QED
    BY <1>1, <1>3, <2>1, InboxShrinks
<1>10. m.unread >= 0 /\ m.till <= Known(h) /\ m.till + m.unread = chat[h].top
  BY <1>2, <1>4, <1>5, <1>6, <1>8
<1> QED
  BY <1>2, <1>3, <1>9, <1>10 DEF h

\* What becomes of the chat.
LEMMA ReadCounted ==
  ASSUME NEW c \in ChatStates, ShownOK(c), NEW till \in Nat, NEW unread \in Int,
         till + unread = c.top, unread >= 0, c.read < till,
         NEW u, u = SetInboxReadTill(SetUnreadCount(c, unread), till),
         NEW w, w = SetInboxReadTill(SetUnreadCount(c, CountStillUnreadLocal(c, till)), till),
         NEW x, x = SetInboxReadTill(c, till),
         NEW v, v = u \/ v = w \/ v = x
  PROVE  /\ v \in ChatStates /\ v.top = c.top /\ v.read = till /\ ShownOK(v)
         /\ v = u \/ v = w => (Exact(c) => Exact(v))
<1>0. /\ c.top \in Nat /\ c.read \in Nat /\ c.unread \in Int /\ till <= c.top
      /\ c.unread >= c.top - c.read
  BY DEF ChatStates, ShownOK
<1>1. ASSUME NEW n \in Int, n >= c.top - till, Exact(c) => n = c.top - till,
             v = SetInboxReadTill(SetUnreadCount(c, n), till)
      PROVE  /\ v \in ChatStates /\ v.top = c.top /\ v.read = till /\ ShownOK(v)
             /\ Exact(c) => Exact(v)
  <2>1. ReadUpTo(c, v, till, n)
    BY <1>0, <1>1, BothSet
  <2> QED
    BY <1>0, <1>1, <2>1 DEF ReadUpTo, ShownOK, Exact
<1>2. CASE v = u
  BY <1>0, <1>1, <1>2
<1>3. CASE v = w
  <2> DEFINE n == CountStillUnreadLocal(c, till)
  <2>1. n \in Int /\ n >= c.top - till /\ (Exact(c) => n = c.top - till)
    BY <1>0, StillIs
  <2>2. v = SetInboxReadTill(SetUnreadCount(c, n), till)
    BY <1>3
  <2> HIDE DEF n
  <2> QED
    BY <1>1, <2>1, <2>2
<1>4. CASE v = x /\ v # u /\ v # w
  <2>1. Max2(c.read, till) = till
    BY <1>0 DEF Max2
  <2>2. ReadUpTo(c, v, till, c.unread)
    BY <1>4, <2>1, MarkedUpTo
  <2> QED
    BY <1>0, <1>4, <2>2 DEF ReadUpTo, ShownOK
<1> QED
  BY <1>2, <1>3, <1>4

\* The user read a chat on another device: History::applyInboxReadUpdate().
LEMMA GotReadCounts ==
  ASSUME Before, CountTypes', ReceiveRead
  PROVE  Counts'
<1>0. PICK m, h : m = Head(inbox) /\ h = m.chat
  OBVIOUS
<1> DEFINE c == chat[h]
           u == SetInboxReadTill(SetUnreadCount(c, m.unread), m.till)
           w == SetInboxReadTill(SetUnreadCount(c, CountStillUnreadLocal(c, m.till)), m.till)
           x == SetInboxReadTill(c, m.till)
<1>1. /\ Receive /\ m.kind = "read" /\ UNCHANGED <<server, refused>>
      /\ applying = {} /\ applying' = {} /\ InboxKept
      /\ inbox # <<>> /\ inbox' = Tail(inbox)
      /\ \/ c.read >= m.till /\ UNCHANGED <<histories, chat, stale>>
         \/ /\ c.read < m.till
            /\ chat' = [chat EXCEPT ![h] = u] \/ chat' = [chat EXCEPT ![h] = w]
            /\ UNCHANGED <<histories, stale>>
         \/ /\ c.read < m.till /\ chat' = [chat EXCEPT ![h] = x]
            /\ histories' = RequestDialogEntry(histories, h, FALSE)
            /\ stale' = stale \cup {h}
  BY <1>0 DEF ReceiveRead, Receive, InboxKept
<1> HIDE DEF u, w, x
<1>2. /\ h \in Chats /\ IsRead(m, h) /\ m.till \in Nat /\ m.unread \in Int
      /\ \A g \in Chats : ~IsMessage(m, g) /\ (IsRead(m, g) => g = h)
      /\ m.till + m.unread = c.top /\ m.unread >= 0 /\ m.till <= Known(h)
      /\ \A g \in Chats : InboxFits(Tail(inbox), g, chat[g].top, server[g], refused[g])
  BY <1>0, <1>1, ReadBrings
<1>3. AllPass(histories, histories') /\ histories \in Objects /\ histories' \in Objects
  <2>1. histories \in Objects
    BY BeforeIs
  <2>2. AllPass(histories, RequestDialogEntry(histories, h, FALSE))
    BY <1>2, <2>1, RequestEntryPasses
  <2>3. AllPass(histories, histories)
    BY <2>1, ArmedPasses
  <2> QED
    BY <1>1, <2>1, <2>2, <2>3 DEF AllPass
<1>4. /\ CountTypes /\ CountsOK(h) /\ c \in ChatStates /\ c.top \in Nat /\ c.read \in Nat
      /\ c.top <= server[h].top /\ Known(h) \in Nat /\ chat \in [Chats -> ChatStates]
      /\ ClientFits(histories, c, h, Known(h)) /\ DoneOK(h)
      /\ refused[h] = 0 /\ h \notin stale => Exact(c)
  BY <1>2, BeforeIs, KnownIs DEF CountsOK, CountTypes
<1>5. ASSUME NEW g \in Chats, chat'[g] = chat[g], g # h \/ m.till <= c.read PROVE CountsOK(g)'
  <2>1. ~IsMessage(m, g) /\ (IsRead(m, g) => m.till <= chat[g].read)
    BY <1>2, <1>5
  <2>2. Passes(histories, histories', g) /\ EntriesFrom(g) /\ CountsOK(g)
    BY <1>1, <1>3, BeforeIs DEF AllPass, EntriesFrom
  <2>3. g \in stale => g \in stale'
    BY <1>1
  <2> QED
    BY <1>0, <1>1, <1>4, <1>5, <2>1, <2>2, <2>3, ChatKept
<1>6. CASE c.read >= m.till /\ UNCHANGED <<histories, chat, stale>>
  <2>1. m.till <= c.read
    BY <1>2, <1>4, <1>6
  <2> QED
    BY <1>1, <1>5, <1>6, <2>1 DEF Counts
<1>7. ASSUME NEW v, c.read < m.till, chat' = [chat EXCEPT ![h] = v],
             v = u \/ v = w \/ (v = x /\ h \in stale'), stale \subseteq stale'
      PROVE  Counts'
  <2>1. chat'[h] = v /\ \A g \in Chats \ {h} : chat'[g] = chat[g]
    BY <1>2, <1>4, <1>7
  <2>2. /\ v \in ChatStates /\ v.top = c.top /\ v.read = m.till /\ ShownOK(v)
        /\ v = u \/ v = w => (Exact(c) => Exact(v))
    <3>1. /\ u = SetInboxReadTill(SetUnreadCount(c, m.unread), m.till)
          /\ w = SetInboxReadTill(SetUnreadCount(c, CountStillUnreadLocal(c, m.till)), m.till)
          /\ x = SetInboxReadTill(c, m.till)
      BY DEF u, w, x
    <3>2. ShownOK(c) /\ (v = u \/ v = w \/ v = x)
      BY <1>4, <1>7 DEF ClientFits
    <3> HIDE DEF c
    <3> QED
      BY <1>2, <1>4, <1>7, <3>1, <3>2, ReadCounted
  <2> HIDE DEF c
  <2>3. ClientFits(histories, v, h, Known(h))
    <3>1. v.top = chat[h].top /\ v.read <= Known(h)
      BY <1>2, <2>2 DEF c
    <3> QED
      BY <1>2, <1>3, <1>4, <2>2, <3>1, ShownFits DEF c
  <2>4. /\ ClientFits(histories', v, h, Known(h)) /\ KeepsDone(histories, histories', h)
        /\ \A n \in Nat : Remembers(histories, h, n) => Remembers(histories', h, n)
    BY <1>2, <1>3, <1>4, <2>2, <2>3, PassesFit DEF AllPass
  <2>5. CountsOK(h)'
    <3>1. EntriesFrom(h)
      BY <1>1 DEF EntriesFrom
    <3>2. IsDone(histories', h) /\ refused[h] = 0 => DoneIn(histories'.state[h].sentReadTill, h)
      BY <1>4, <2>4 DEF DoneOK, KeepsDone
    <3>3. chat'[h].read >= chat[h].read
      BY <1>2, <1>4, <1>7, <2>1, <2>2 DEF c
    <3>4. /\ chat'[h].top <= server[h].top
          /\ InboxFits(inbox', h, chat'[h].top, server[h], refused[h])
      BY <1>1, <1>2, <1>4, <2>1, <2>2 DEF c
    <3>5. inbox' = inbox \/ ~IsRead(Head(inbox), h) \/ Head(inbox).till <= chat'[h].read
      BY <1>0, <1>2, <2>1, <2>2
    <3>6. refused[h] = 0 /\ h \notin stale' => Exact(chat'[h])
      BY <1>4, <1>7, <2>1, <2>2 DEF c
    <3>7. ClientFits(histories', chat'[h], h, Known(h))
      BY <2>1, <2>4
    <3>8. \A n \in Nat : Remembers(histories, h, n) =>
            Remembers(histories', h, n) \/ n <= chat'[h].read
      BY <2>4
    <3> QED
      BY <1>1, <1>2, <1>4, <3>1, <3>2, <3>3, <3>4, <3>5, <3>6, <3>7, <3>8, ChatChanges
  <2> QED
    BY <1>1, <1>5, <2>1, <2>5 DEF Counts
<1> HIDE DEF c
<1> QED
  BY <1>1, <1>6, <1>7

\* The first message is the answer to a read: the server knows of it or refused
\* it, and an entry that comes behind it knows of it as well.
LEMMA ReadDoneBrings ==
  ASSUME Before, inbox # <<>>, NEW m, m = Head(inbox), NEW h \in Chats, EndsRead(m, h)
  PROVE  /\ m.sent.till \in Nat /\ m.sent.till <= Known(h)
         /\ \A g \in Chats : InboxFits(Tail(inbox), g, chat[g].top, server[g], refused[g])
         /\ refused[h] = 0 /\ applying = {} => DoneIn(m.sent.till, h)
<1>1. /\ inbox \in Seq(Messages) /\ m \in Messages /\ m = inbox[1] /\ 1 \in DOMAIN inbox
      /\ \A j \in DOMAIN inbox : j # 1 =>
           j - 1 \in DOMAIN Tail(inbox) /\ Tail(inbox)[j - 1] = inbox[j]
  BY BeforeIs, HeadAndTail DEF CountTypes
<1>2. m.kind = "answer" /\ m.sent.type = "ReadInbox" /\ m.sent.till \in Nat
  BY <1>1 DEF EndsRead, Messages, Pushes, Answers, Requests
<1>3. \A g \in Chats : ~IsMessage(m, g) /\ ~IsRead(m, g) /\ ~IsEntry(m, g)
  BY <1>2 DEF IsMessage, IsRead, IsEntry
<1>4. ASSUME NEW g \in Chats
      PROVE  /\ InboxFits(inbox, g, chat[g].top, server[g], refused[g])
             /\ server[g] \in Marked /\ refused[g] \in Nat /\ chat[g].top \in Nat
             /\ InboxFits(Tail(inbox), g, chat[g].top, server[g], refused[g])
  <2>1. /\ InboxFits(inbox, g, chat[g].top, server[g], refused[g])
        /\ server[g] \in Marked /\ refused[g] \in Nat /\ chat[g].top \in Nat
    BY BeforeIs, ServerIs DEF CountsOK
  <2> QED
    BY <1>1, <1>3, <2>1, InboxShrinks
<1>5. /\ server[h].read <= Known(h) /\ refused[h] <= Known(h) /\ Known(h) \in Nat
      /\ server[h].read \in Nat /\ refused[h] \in Nat
  BY BeforeIs, KnownIs
<1>6. /\ m.ok => HasMark(m, h) /\ m.sent.till <= server[h].read
      /\ MarkOf(m, h) = m.sent.till
      /\ m.sent.till > 0 /\ (m.ok \/ m.sent.till <= refused[h])
  <2>1. Fits(m, h, chat[h].top, server[h], refused[h])
    BY <1>1, <1>4 DEF InboxFits
  <2>2. MarkOf(m, h) = m.sent.till /\ (m.ok => HasMark(m, h))
    BY <1>3 DEF MarkOf, HasMark
  <2> QED
    BY <2>1, <2>2 DEF Fits
<1>7. m.sent.till <= Known(h)
  BY <1>2, <1>5, <1>6
<1>8. ASSUME refused[h] = 0, applying = {} PROVE DoneIn(m.sent.till, h)
  <2>1. m.ok
    BY <1>2, <1>6, <1>8
  <2>2. ASSUME NEW i \in DOMAIN inbox, IsEntry(inbox[i], h)
        PROVE  m.sent.till <= MarkOf(inbox[i], h)
    <3>1. i # 1
      BY <1>1, <1>3, <2>2
    <3>2. i - 1 \in DOMAIN Tail(inbox) /\ Tail(inbox)[i - 1] = inbox[i]
      BY <1>1, <3>1
    <3>3. InOrder(m, inbox[i], h)
      BY <1>1, <1>4, <3>2, BehindHead
    <3> QED
      BY <1>6, <2>1, <2>2, <3>3 DEF InOrder
  <2> QED
    BY <1>6, <1>8, <2>1, <2>2 DEF DoneIn
<1> QED
  BY <1>2, <1>4, <1>7, <1>8

\* The answer to a read: sendReadRequest()'s "finished".
LEMMA GotReadDoneCounts ==
  ASSUME Before, CountTypes', ReceiveReadDone
  PROVE  Counts'
<1>0. PICK m : m = Head(inbox)
  OBVIOUS
<1>1. /\ Receive /\ m.kind = "answer" /\ m.sent.type = "ReadInbox"
      /\ UNCHANGED <<chat, server, refused, stale>>
      /\ applying = {} /\ applying' = {} /\ InboxKept
      /\ inbox # <<>> /\ inbox' = Tail(inbox)
  BY <1>0 DEF ReceiveReadDone, ReceiveAnswer, Receive, serverVars, InboxKept
<1>2. PICK q \in histories.live, h \in m.of, due \in Due :
        /\ IsAnswer(m, q) /\ m.sent.finishes
        /\ histories' = Finished([histories EXCEPT !.live = @ \ {q}], chat[h], h, m.sent, due)
  BY <1>0 DEF ReceiveReadDone, ReceiveAnswer
<1> DEFINE w == [histories EXCEPT !.live = @ \ {q}]
           r == m.sent
           c == chat[h]
<1>3. /\ CountTypes /\ histories \in Objects /\ histories.sendReadMessages
      /\ Kept(histories, {}) /\ ArmedOK(histories) /\ MarksOK(histories, Marks) /\ IInv
  BY BeforeIs DEF Before
<1>4. m \in Answers
  BY <1>0, <1>1, <1>3, ReceiveOutcome DEF IInv, TypeOK, TypeServer
<1>5. /\ r \in Requests /\ Without(histories, w, q) /\ h \in Chats /\ q = Live(h, r)
      /\ r.type = "ReadInbox"
  BY <1>1, <1>2, <1>3, <1>4, AnswerIsTo
<1>6. EndsRead(m, h)
  BY <1>1, <1>2 DEF EndsRead
<1>7. /\ r.till \in Nat /\ r.till <= Known(h)
      /\ \A g \in Chats : InboxFits(Tail(inbox), g, chat[g].top, server[g], refused[g])
      /\ refused[h] = 0 => DoneIn(r.till, h)
  BY <1>0, <1>1, <1>5, <1>6, ReadDoneBrings
<1>8. r.till <= IF histories.state[h].sentReadTill # 0
                THEN histories.state[h].sentReadTill ELSE c.read
  <2>1. Live(h, r) \in histories.live /\ r.finishes
    BY <1>2, <1>5
  <2>2. Marks[h] = c.read
    BY <1>5 DEF Marks
  <2> HIDE DEF r, c
  <2> QED
    BY <1>3, <1>5, <2>1, <2>2 DEF MarksOK
<1>9. /\ CountsOK(h) /\ c \in ChatStates /\ c.top \in Nat /\ c.read \in Nat
      /\ c.top <= server[h].top /\ Known(h) \in Nat
      /\ ClientFits(histories, c, h, Known(h)) /\ DoneOK(h)
      /\ refused[h] = 0 /\ h \notin stale => Exact(c)
  BY <1>5, BeforeIs, KnownIs DEF CountsOK
<1>10. /\ histories' \in Objects /\ ClientFits(histories', c, h, Known(h))
       /\ IsDone(histories', h) =>
            \/ /\ IsDone(histories, h)
               /\ histories'.state[h].sentReadTill = histories.state[h].sentReadTill
            \/ histories'.state[h].sentReadTill = r.till
       /\ \A n \in Nat : Remembers(histories, h, n) => Remembers(histories', h, n) \/ n <= c.read
       /\ \A g \in Chats \ {h} : Passes(histories, histories', g)
  <2>1. histories' = Finished(w, c, h, r, due) /\ due \in 0 .. Len(histories.armed)
    BY <1>2 DEF Due
  <2>2. Live(h, r) \in histories.live /\ Without(histories, w, Live(h, r))
    BY <1>2, <1>5
  <2> HIDE DEF w, r, c
  <2> QED
    BY <1>3, <1>5, <1>7, <1>8, <1>9, <2>1, <2>2, FinishedFits
<1> HIDE DEF w
<1>11. CountsOK(h)'
  <2>1. EntriesFrom(h)
    BY <1>1 DEF EntriesFrom
  <2>2. IsDone(histories', h) /\ refused[h] = 0 => DoneIn(histories'.state[h].sentReadTill, h)
    BY <1>7, <1>9, <1>10 DEF DoneOK
  <2>3. /\ chat'[h] = c /\ chat'[h].read >= chat[h].read
        /\ chat'[h].top <= server[h].top
    BY <1>1, <1>9
  <2>4. InboxFits(inbox', h, chat'[h].top, server[h], refused[h])
    BY <1>1, <1>5, <1>7
  <2>5. inbox' = inbox \/ ~IsRead(Head(inbox), h) \/ Head(inbox).till <= chat'[h].read
    BY <1>0, <1>1 DEF IsRead
  <2>6. refused[h] = 0 /\ h \notin stale' => Exact(chat'[h])
    BY <1>1, <1>9, <2>3
  <2>7. ClientFits(histories', chat'[h], h, Known(h))
    BY <1>10, <2>3
  <2>8. \A n \in Nat : Remembers(histories, h, n) =>
          Remembers(histories', h, n) \/ n <= chat'[h].read
    BY <1>10, <2>3
  <2> QED
    BY <1>1, <1>3, <1>5, <1>9, <2>1, <2>2, <2>3, <2>4, <2>5, <2>6, <2>7, <2>8, ChatChanges
<1>12. ASSUME NEW g \in Chats \ {h} PROVE CountsOK(g)'
  <2>1. ~IsMessage(Head(inbox), g) /\ ~IsRead(Head(inbox), g)
    BY <1>0, <1>1 DEF IsMessage, IsRead
  <2>2. Passes(histories, histories', g) /\ EntriesFrom(g) /\ CountsOK(g)
    BY <1>1, <1>10, BeforeIs DEF EntriesFrom
  <2>3. chat'[g] = chat[g]
    BY <1>1
  <2> QED
    BY <1>1, <1>3, <2>1, <2>2, <2>3, ChatKept
<1> QED
  BY <1>1, <1>11, <1>12 DEF Counts

\* Entries come: they are up to date with the chats.
LEMMA GotEntriesCounts ==
  ASSUME Before, CountTypes', ReceiveEntries
  PROVE  Counts'
<1>0. PICK m : m = Head(inbox)
  OBVIOUS
<1> DEFINE entry(h) == IF m.ok THEN m.entries[h] ELSE <<>>
<1>1. /\ Receive /\ m.kind = "answer" /\ m.sent.type = "Entries"
      /\ UNCHANGED <<chat, server, refused, stale>> /\ applying = {} /\ InboxKept
      /\ inbox # <<>> /\ inbox' = Tail(inbox)
      /\ applying' = { [chat |-> h, ok |-> m.ok, entry |-> entry(h)] : h \in m.of }
  BY <1>0 DEF ReceiveEntries, ReceiveAnswer, Receive, serverVars, InboxKept
<1>2. PICK q \in histories.live :
        IsAnswer(m, q) /\ histories' = [histories EXCEPT !.live = @ \ {q}]
  BY <1>0 DEF ReceiveEntries, ReceiveAnswer
<1>3. /\ CountTypes /\ histories \in Objects /\ IInv
      /\ inbox \in Seq(Messages) /\ m = inbox[1] /\ 1 \in DOMAIN inbox /\ m \in Messages
  BY <1>0, <1>1, BeforeIs, HeadAndTail DEF Before, CountTypes
<1>4. m \in Answers
  BY <1>0, <1>1, <1>3, ReceiveOutcome DEF IInv, TypeOK, TypeServer
<1>5. AllPass(histories, histories')
  <2>1. q.sent = m.sent /\ Without(histories, histories', q)
    BY <1>2, <1>3, <1>4, AnswerIsTo
  <2> QED
    BY <1>1, <1>3, <2>1, WithoutPasses
<1>6. \A e \in applying' : /\ e.ok = m.ok /\ e.chat \in m.of
                           /\ e.ok => e.entry = m.entries[e.chat]
  <2> SUFFICES ASSUME NEW e \in applying'
               PROVE  /\ e.ok = m.ok /\ e.chat \in m.of
                      /\ e.ok => e.entry = m.entries[e.chat]
    OBVIOUS
  <2>1. PICK h \in m.of : e = [chat |-> h, ok |-> m.ok, entry |-> entry(h)]
    BY <1>1
  <2> QED
    BY <2>1
<1> HIDE DEF entry
<1>7. m.of \subseteq Chats
  BY <1>4 DEF Answers
<1>8. ASSUME NEW e \in applying', e.ok
      PROVE  /\ e.chat \in Chats /\ IsEntry(m, e.chat) /\ e.entry = m.entries[e.chat]
             /\ e.entry.read = MarkOf(m, e.chat)
  <2>1. e.chat \in Chats /\ IsEntry(m, e.chat) /\ e.entry = m.entries[e.chat]
    BY <1>1, <1>6, <1>7, <1>8 DEF IsEntry
  <2> QED
    BY <1>3, <2>1, MessageTypes
<1>9. ASSUME NEW g \in Chats PROVE CountsOK(g)'
  <2>1. ~IsMessage(Head(inbox), g) /\ ~IsRead(Head(inbox), g)
    BY <1>0, <1>1 DEF IsMessage, IsRead
  <2>2. Passes(histories, histories', g) /\ CountsOK(g)
    BY <1>5, BeforeIs DEF AllPass
  <2>3. EntriesFrom(g)
    BY <1>0, <1>1, <1>8 DEF EntriesFrom
  <2>4. chat'[g] = chat[g]
    BY <1>1
  <2> QED
    BY <1>1, <1>3, <2>1, <2>2, <2>3, <2>4, ChatKept
<1>10. ASSUME NEW e \in applying' PROVE FreshEntry(e)'
  <2> SUFFICES ASSUME e.ok
               PROVE  /\ e.entry.read <= server[e.chat].read
                      /\ e.entry.read + e.entry.unread = chat[e.chat].top
                      /\ e.entry.unread >= 0
    BY <1>1 DEF FreshEntry
  <2>1. PICK h \in Chats : h = e.chat /\ IsEntry(m, h) /\ e.entry = m.entries[h]
    BY <1>8
  <2>2. /\ m.entries[h] \in Fields /\ MarkOf(m, h) = m.entries[h].read
        /\ TopOf(m, h) = m.entries[h].read + m.entries[h].unread
    BY <1>3, <2>1, MessageTypes
  <2>3. /\ InboxFits(inbox, h, chat[h].top, server[h], refused[h])
        /\ server[h] \in Marked /\ refused[h] \in Nat /\ chat[h].top \in Nat
        /\ chat[h].top <= server[h].top
    BY BeforeIs, ServerIs DEF CountsOK
  <2>4. ~IsMessage(m, h) /\ HasTop(m, h) /\ HasMark(m, h)
    BY <1>1, <2>1 DEF IsMessage, HasTop, HasMark
  <2>5. TopOf(m, h) = chat[h].top
    BY <1>0, <1>1, <1>3, <2>3, <2>4, HeadIsNext
  <2>6. Fits(m, h, chat[h].top, server[h], refused[h])
    BY <1>3, <2>3 DEF InboxFits
  <2>7. MarkOf(m, h) <= server[h].read /\ MarkOf(m, h) <= TopOf(m, h)
    BY <2>1, <2>4, <2>6 DEF Fits
  <2>8. m.entries[h].read \in Nat /\ m.entries[h].unread \in Int
    BY <2>2 DEF Fields
  <2>9. m.entries[h].unread >= 0
    BY <2>2, <2>7, <2>8
  <2> QED
    BY <2>1, <2>2, <2>5, <2>7, <2>9
<1> QED
  BY <1>9, <1>10 DEF Counts

\* What the entry makes of the chat.
LEMMA EntryTaken ==
  ASSUME Before, NEW e \in applying, NEW h, h = e.chat,
         NEW c, c = IF e.ok THEN ApplyDialogFields(chat[h], e.entry) ELSE chat[h]
  PROVE  /\ h \in Chats /\ c \in ChatStates /\ c.top = chat[h].top /\ c.read >= chat[h].read
         /\ ClientFits(histories, c, h, Known(h))
         /\ e.ok => e.entry.read <= c.read /\ e.entry.read \in Nat /\ chat[h].read \in Nat
         /\ e.ok /\ e.entry.read >= chat[h].read => Exact(c)
         /\ e.ok /\ ~(e.entry.read >= chat[h].read) => c = chat[h]
<1>1. /\ h \in Chats /\ (e.ok => e.entry \in Fields) /\ FreshEntry(e)
  BY BeforeIs DEF CountTypes, ApplyingOK
<1>2. /\ chat[h] \in ChatStates /\ chat[h].read \in Nat /\ chat[h].top \in Nat
      /\ server[h].read <= Known(h) /\ Known(h) \in Nat /\ server[h].read \in Nat
      /\ ClientFits(histories, chat[h], h, Known(h)) /\ histories \in Objects
  BY <1>1, BeforeIs, KnownIs DEF CountsOK
<1>3. CASE e.ok
  <2>1. /\ e.entry \in Fields /\ e.entry.read \in Nat /\ e.entry.unread >= 0
        /\ e.entry.read <= server[h].read /\ e.entry.read + e.entry.unread = chat[h].top
    BY <1>1, <1>3 DEF FreshEntry, Fields
  <2>2. c = ApplyDialogFields(chat[h], e.entry)
    BY <1>3
  <2>3. /\ chat[h].read <= e.entry.read => c.read = e.entry.read /\ Exact(c)
        /\ ~(chat[h].read <= e.entry.read) => c = chat[h]
        /\ c \in ChatStates /\ c.top = chat[h].top /\ ShownOK(c)
    BY <1>2, <2>1, <2>2, EntryCounted DEF ClientFits
  <2>4. c.read <= chat[h].read \/ c.read <= Known(h)
    BY <1>2, <2>1, <2>3
  <2>5. ClientFits(histories, c, h, Known(h))
    BY <1>1, <1>2, <2>3, <2>4, ShownFits
  <2> QED
    BY <1>1, <1>2, <2>1, <2>3, <2>5
<1>4. CASE ~e.ok
  BY <1>1, <1>2, <1>4
<1> QED
  BY <1>3, <1>4

\* An entry is handled.
LEMMA AppliedCounts ==
  ASSUME Before, CountTypes', NEW e \in applying, NEW known \in BOOLEAN, NEW due \in Due,
         ApplyEntry(e, known, due)
  PROVE  Counts'
<1>0. PICK h, c : /\ h = e.chat
                  /\ c = IF e.ok THEN ApplyDialogFields(chat[h], e.entry) ELSE chat[h]
  OBVIOUS
<1> DEFINE v == DialogEntryApplied(histories, c, h, known, due)
<1>1. /\ histories' = v[1] /\ chat' = [chat EXCEPT ![h] = v[2]]
      /\ applying' = applying \ {e} /\ inbox' = inbox /\ UNCHANGED <<server, refused>>
      /\ stale' = IF ~e.ok THEN stale \cup {h}
                  ELSE IF e.entry.read >= chat[h].read THEN stale \ {h} ELSE stale
  BY <1>0 DEF ApplyEntry
<1>2. /\ CountTypes /\ histories \in Objects /\ histories.sendReadMessages
      /\ Kept(histories, {}) /\ ArmedOK(histories) /\ chat \in [Chats -> ChatStates]
      /\ due \in Nat /\ InboxKept
  BY <1>1, BeforeIs DEF Due, CountTypes, InboxKept
<1>3. /\ h \in Chats /\ c \in ChatStates /\ c.top = chat[h].top /\ c.read >= chat[h].read
      /\ ClientFits(histories, c, h, Known(h))
      /\ e.ok => e.entry.read <= c.read /\ e.entry.read \in Nat /\ chat[h].read \in Nat
      /\ e.ok /\ e.entry.read >= chat[h].read => Exact(c)
      /\ e.ok /\ ~(e.entry.read >= chat[h].read) => c = chat[h]
  BY <1>0, EntryTaken
<1>4. /\ CountsOK(h) /\ Known(h) \in Nat /\ DoneOK(h) /\ chat[h].top <= server[h].top
      /\ InboxFits(inbox, h, chat[h].top, server[h], refused[h])
      /\ refused[h] = 0 /\ h \notin stale => Exact(chat[h])
      /\ chat[h].read \in Nat /\ c.read \in Nat
  BY <1>2, <1>3, BeforeIs, KnownIs DEF CountsOK, ChatStates
<1>5. PICK y : y = v[2] /\ EntryFits(histories, c, h, histories', y, Known(h))
  <2>1. EntryFits(histories, c, h, v[1], v[2], Known(h))
    BY <1>2, <1>3, <1>4, DialogEntryFits
  <2> QED
    BY <1>1, <2>1
<1> HIDE DEF v
<1>6. /\ ClientFits(histories', y, h, Known(h)) /\ KeepsDone(histories, histories', h)
      /\ \A n \in Nat : Remembers(histories, h, n) => Remembers(histories', h, n) \/ n <= y.read
      /\ \A g \in Chats \ {h} : Passes(histories, histories', g)
      /\ y \in ChatStates /\ y.top = c.top /\ y.read >= c.read
      /\ Exact(c) /\ (IsDone(histories, h) => histories.state[h].sentReadTill <= c.read) =>
           Exact(y)
  BY <1>5 DEF EntryFits
<1>7. chat'[h] = y /\ \A g \in Chats \ {h} : chat'[g] = chat[g]
  BY <1>1, <1>2, <1>3, <1>5
<1>8. ASSUME refused[h] = 0, h \notin stale' PROVE Exact(y)
  <2>1. e.ok /\ (e.entry.read >= chat[h].read \/ h \notin stale)
    BY <1>1, <1>8
  <2>2. Exact(c)
    BY <1>3, <1>4, <1>8, <2>1
  <2>3. ASSUME IsDone(histories, h) PROVE histories.state[h].sentReadTill <= c.read
    <3>1. DoneIn(histories.state[h].sentReadTill, h)
      BY <1>4, <1>8, <2>3 DEF DoneOK
    <3>2. histories.state[h].sentReadTill <= e.entry.read
      BY <1>0, <2>1, <3>1 DEF DoneIn
    <3>3. histories.state[h].sentReadTill \in Nat
      BY <1>2, <1>3 DEF Objects, States
    <3> QED
      BY <1>3, <1>4, <2>1, <3>2, <3>3
  <2> QED
    BY <1>6, <2>2, <2>3
<1>9. CountsOK(h)'
  <2>1. EntriesFrom(h)
    BY <1>1 DEF EntriesFrom
  <2>2. IsDone(histories', h) /\ refused[h] = 0 => DoneIn(histories'.state[h].sentReadTill, h)
    BY <1>4, <1>6 DEF DoneOK, KeepsDone
  <2>3. chat'[h].read >= chat[h].read /\ chat'[h].top = chat[h].top
    <3>1. y.read \in Nat
      BY <1>6 DEF ChatStates
    <3> QED
      BY <1>3, <1>4, <1>6, <1>7, <3>1
  <2>4. /\ chat'[h].top <= server[h].top
        /\ InboxFits(inbox', h, chat'[h].top, server[h], refused[h])
    BY <1>1, <1>4, <2>3
  <2>5. refused[h] = 0 /\ h \notin stale' => Exact(chat'[h])
    BY <1>7, <1>8
  <2>6. ClientFits(histories', chat'[h], h, Known(h))
    BY <1>6, <1>7
  <2>7. \A n \in Nat : Remembers(histories, h, n) =>
          Remembers(histories', h, n) \/ n <= chat'[h].read
    BY <1>6, <1>7
  <2> QED
    BY <1>1, <1>2, <1>3, <1>4, <2>1, <2>2, <2>3, <2>4, <2>5, <2>6, <2>7, ChatChanges
<1>10. ASSUME NEW g \in Chats \ {h} PROVE CountsOK(g)'
  <2>1. Passes(histories, histories', g) /\ EntriesFrom(g) /\ CountsOK(g)
    BY <1>1, <1>6, BeforeIs DEF EntriesFrom
  <2>2. g \in stale => g \in stale'
    BY <1>1
  <2> QED
    BY <1>1, <1>2, <1>7, <2>1, <2>2, ChatKept
<1>11. ASSUME NEW f \in applying' PROVE FreshEntry(f)'
  <2>1. f \in applying /\ FreshEntry(f) /\ f.chat \in Chats
    BY <1>1, BeforeIs DEF CountTypes, ApplyingOK
  <2>2. chat'[f.chat].top = chat[f.chat].top
    BY <1>3, <1>6, <1>7, <2>1
  <2> QED
    BY <1>1, <2>1, <2>2 DEF FreshEntry
<1> QED
  BY <1>9, <1>10, <1>11 DEF Counts

\* The user reads a chat.
LEMMA ReadCounts ==
  ASSUME Before, CountTypes', NEW h \in Chats, NEW till \in Tops, NEW force \in BOOLEAN,
         NEW known \in BOOLEAN, NEW due \in Due, ReadInbox(h, till, force, known, due)
  PROVE  Counts'
<1> DEFINE a == [till |-> till, force |-> force, known |-> known]
           y == ReadLocally(histories, chat[h], h, a)
<1>1. /\ histories' = ReadInboxTill(histories, chat[h], h, a, due)
      /\ chat' = [chat EXCEPT ![h] = y] /\ till \in 1 .. chat[h].top
      /\ applying = {} /\ applying' = {} /\ inbox' = inbox
      /\ UNCHANGED <<server, refused, stale>>
  BY DEF ReadInbox, Ui, serverVars
<1>2. /\ CountTypes /\ histories \in Objects /\ histories.sendReadMessages
      /\ ArmedOK(histories) /\ chat \in [Chats -> ChatStates]
      /\ due \in Nat /\ InboxKept
  BY <1>1, BeforeIs DEF Due, CountTypes, InboxKept
<1>3. /\ CountsOK(h) /\ Known(h) \in Nat /\ DoneOK(h) /\ chat[h].top <= server[h].top
      /\ InboxFits(inbox, h, chat[h].top, server[h], refused[h])
      /\ refused[h] = 0 /\ h \notin stale => Exact(chat[h])
      /\ chat[h] \in ChatStates /\ chat[h].top \in Nat
      /\ ClientFits(histories, chat[h], h, Known(h))
  BY <1>2, BeforeIs, KnownIs DEF CountsOK
<1>4. a \in Asked /\ a.till <= chat[h].top
  BY <1>1, <1>3 DEF Asked
<1> HIDE DEF a
<1>5. ReadFits(histories, chat[h], h, histories', y, Known(h))
  BY <1>1, <1>2, <1>3, <1>4, ReadInboxTillFits
<1> HIDE DEF y
<1>6. /\ ClientFits(histories', y, h, Known(h)) /\ KeepsDone(histories, histories', h)
      /\ \A n \in Nat : Remembers(histories, h, n) => Remembers(histories', h, n)
      /\ \A g \in Chats \ {h} : Passes(histories, histories', g)
      /\ y \in ChatStates /\ y.top = chat[h].top /\ y.read >= chat[h].read
      /\ Exact(chat[h]) => Exact(y)
  BY <1>5 DEF ReadFits
<1>7. chat'[h] = y /\ \A g \in Chats \ {h} : chat'[g] = chat[g]
  BY <1>1, <1>2
<1>8. CountsOK(h)'
  <2>1. EntriesFrom(h)
    BY <1>1 DEF EntriesFrom
  <2>2. IsDone(histories', h) /\ refused[h] = 0 => DoneIn(histories'.state[h].sentReadTill, h)
    BY <1>3, <1>6 DEF DoneOK, KeepsDone
  <2>3. /\ chat'[h].top <= server[h].top /\ chat'[h].read >= chat[h].read
        /\ InboxFits(inbox', h, chat'[h].top, server[h], refused[h])
    BY <1>1, <1>3, <1>6, <1>7
  <2>4. refused[h] = 0 /\ h \notin stale' => Exact(chat'[h])
    BY <1>1, <1>3, <1>6, <1>7
  <2>5. ClientFits(histories', chat'[h], h, Known(h))
    BY <1>6, <1>7
  <2>6. \A n \in Nat : Remembers(histories, h, n) =>
          Remembers(histories', h, n) \/ n <= chat'[h].read
    BY <1>6
  <2> QED
    BY <1>1, <1>2, <1>3, <2>1, <2>2, <2>3, <2>4, <2>5, <2>6, ChatChanges
<1>9. ASSUME NEW g \in Chats \ {h} PROVE CountsOK(g)'
  <2>1. Passes(histories, histories', g) /\ EntriesFrom(g) /\ CountsOK(g)
    BY <1>1, <1>6, BeforeIs DEF EntriesFrom
  <2> QED
    BY <1>1, <1>2, <1>7, <2>1, ChatKept
<1> QED
  BY <1>1, <1>8, <1>9 DEF Counts

(***************************************************************************)
(* The invariant.                                                          *)
(***************************************************************************)
\* It holds at first.
LEMMA InitCounts == Init => CInv
<1> SUFFICES ASSUME Init PROVE CInv
  OBVIOUS
<1>1. IInv
  BY InitIInv
<1>2. ASSUME NEW h \in Chats PROVE CountsOK(h)
  <2>1. /\ inbox = <<>> /\ applying = {}
        /\ server[h] = [top |-> 0, read |-> 0] /\ refused[h] = 0
        /\ chat[h] = [top |-> 0, read |-> 0, unread |-> 0]
        /\ histories.state[h] = Fresh /\ histories.live = {}
    BY DEF Init
  <2>2. /\ server[h].top = 0 /\ server[h].read = 0
        /\ chat[h].top = 0 /\ chat[h].read = 0 /\ chat[h].unread = 0
        /\ histories.state[h].willReadTill = 0 /\ histories.state[h].sentReadTill = 0
        /\ DOMAIN inbox = {}
    BY <2>1 DEF Fresh
  <2>3. InboxFits(inbox, h, chat[h].top, server[h], refused[h])
    <3>1. AllComes(inbox, h, chat[h].top, server[h])
      BY <2>2 DEF AllComes
    <3> QED
      BY <2>2, <3>1 DEF InboxFits
  <2>4. Known(h) = 0
    BY <2>1, <2>2 DEF Known, Max2
  <2>5. ShownOK(chat[h]) /\ Exact(chat[h])
    BY <2>2 DEF ShownOK, Exact
  <2>6. ReadsFit(histories, h, chat[h].top) /\ Told(histories, h, chat[h].read, Known(h))
    BY <2>1, <2>2, <2>4 DEF ReadsFit, Told
  <2>7. Learns(h) /\ DoneOK(h)
    BY <2>2 DEF Learns, DoneOK, IsDone
  <2> QED
    BY <2>2, <2>3, <2>5, <2>6, <2>7 DEF CountsOK, ClientFits
<1>3. Counts
  BY <1>2 DEF Counts, Init
<1> QED
  BY <1>1, <1>3 DEF CInv

\* The switch is not touched after a step, when it was not before.
LEMMA UntoggledBefore ==
  ASSUME IInv, Next, Untoggled'
  PROVE  Untoggled /\ ~ToggleSendReadMessages
<1>1. spent \in Spents
  BY DEF IInv, TypeOK, TypeServer, Spents
<1>2. ASSUME NEW what \in {"requests", "entries", "failures", "unended", "toggles"},
             NEW bound, Spend(what, bound)
      PROVE  Untoggled /\ what # "toggles"
  BY <1>1, <1>2, SpendOutcome
<1>3. CASE spent' = spent
  <2>1. Untoggled
    BY <1>3 DEF Untoggled
  <2>2. ~ToggleSendReadMessages
    BY <1>2 DEF ToggleSendReadMessages
  <2> QED
    BY <2>1, <2>2
<1>4. CASE ToggleSendReadMessages
  BY <1>2, <1>4 DEF ToggleSendReadMessages
<1>5. CASE Server /\ spent' # spent
  <2>1. \E q \in histories.live : Refuse(q)
    BY <1>5 DEF Server, NewMessage, ReadElsewhere, Serve
  <2>2. Spend("failures", MaxFailures)
    BY <2>1 DEF Refuse
  <2>3. Untoggled
    BY <1>2, <2>2
  <2>4. ~ToggleSendReadMessages
    BY <1>2 DEF ToggleSendReadMessages
  <2> QED
    BY <2>3, <2>4
<1>6. CASE Handle /\ spent' # spent
  <2>1. ReceiveDeleted
    BY <1>6 DEF Handle, ReceiveMessage, ReceiveRead, ReceiveCancelled, ReceivePage,
                ReceiveReadDone, ReceiveUnended, ReceiveEntries, ApplyEntry, PostponedCall,
                TimerFires
  <2>2. Spend("requests", MaxRequests)
    BY <1>6, <2>1 DEF ReceiveDeleted, ReceiveAnswer
  <2>3. Untoggled
    BY <1>2, <2>2
  <2>4. ~ToggleSendReadMessages
    BY <1>2 DEF ToggleSendReadMessages
  <2> QED
    BY <2>3, <2>4
<1>7. CASE User /\ spent' # spent /\ ~ToggleSendReadMessages
  <2>1. \/ Spend("requests", MaxRequests) \/ Spend("unended", MaxUnended)
        \/ Spend("entries", MaxEntries)
    BY <1>7 DEF User, Ask, Send, AskUnended, AskEntry, CancelPage, ReadInbox, LeaveChat
  <2>2. Untoggled
    BY <1>2, <2>1
  <2> QED
    BY <1>7, <2>2
<1> QED
  BY <1>3, <1>4, <1>5, <1>6, <1>7 DEF Next

\* And after each step.
LEMMA NextCounts == CInv /\ [Next]_vars => CInv'
<1> SUFFICES ASSUME CInv, [Next]_vars PROVE CInv'
  OBVIOUS
<1>1. IInv /\ IInv' /\ CountTypes'
  BY NextIInv, Typing DEF CInv
<1>2. ASSUME Untoggled', Next PROVE Counts'
  <2>1. Untoggled /\ ~ToggleSendReadMessages
    BY <1>1, <1>2, UntoggledBefore
  <2>2. Before
    BY <1>1, <2>1 DEF CInv, Before
  <2>3. CASE Server
    <3>1. ASSUME NEW h \in Chats, NewMessage(h) PROVE Counts'
      BY <1>1, <2>2, <3>1, MessageCounts
    <3>2. ASSUME NEW h \in Elsewhere, NEW till \in Tops, ReadElsewhere(h, till) PROVE Counts'
      BY <1>1, <2>2, <3>2, ElsewhereCounts, ChatsAssumption
    <3>3. ASSUME NEW q \in histories.live, Serve(q) PROVE Counts'
      BY <1>1, <2>2, <3>3, ServedCounts
    <3>4. ASSUME NEW q \in histories.live, Refuse(q) PROVE Counts'
      BY <1>1, <2>2, <3>4, RefusedCounts
    <3> QED
      BY <2>3, <3>1, <3>2, <3>3, <3>4 DEF Server
  <2>4. CASE Handle
    <3>1. ASSUME NEW e \in applying, NEW known \in BOOLEAN, NEW due \in Due,
                 ApplyEntry(e, known, due)
          PROVE  Counts'
      BY <1>1, <2>2, <3>1, AppliedCounts
    <3> QED
      BY <1>1, <2>2, <2>4, <3>1, GotMessageCounts, GotReadCounts, CancelledCounts,
         AnsweredCounts, GotReadDoneCounts, GotEntriesCounts, TimerCounts DEF Handle
  <2>5. CASE User
    <3>1. ASSUME NEW h \in Chats, NEW till \in Tops, NEW force \in BOOLEAN,
                 NEW known \in BOOLEAN, NEW due \in Due, ReadInbox(h, till, force, known, due)
          PROVE  Counts'
      BY <1>1, <2>2, <3>1, ReadCounts
    <3>2. ASSUME NEW h \in Chats,
                 \/ \E type \in {"History", "Delete"} : Ask(h, type)
                 \/ Send(h)
                 \/ \E type \in {"ReadInbox", "Delete"} : AskUnended(h, type)
          PROVE  Counts'
      BY <1>1, <2>2, <3>2, AskCounts
    <3>3. ASSUME NEW h \in Chats,
                 \/ \E id \in 1 .. histories.lastId[h] : CancelPage(h, id)
                 \/ \E callback \in BOOLEAN : AskEntry(h, callback)
                 \/ \E due \in Due : LeaveChat(h, due)
          PROVE  Counts'
      BY <1>1, <2>2, <3>3, CallCounts
    <3> QED
      BY <2>1, <2>5, <3>1, <3>2, <3>3 DEF User
  <2> QED
    BY <1>2, <2>3, <2>4, <2>5 DEF Next
<1>3. ASSUME Untoggled', UNCHANGED vars PROVE Counts'
  <2>1. Counts
    BY <1>3 DEF vars, CInv, Untoggled
  <2> QED
    BY <1>3, <2>1 DEF vars, Counts, CountsOK, FreshEntry, Learns, Known, DoneOK, DoneIn
<1> QED
  BY <1>1, <1>2, <1>3 DEF CInv

\* What ties the chats to the server, through the messages that are under way,
\* holds at every moment.
THEOREM CountsInvariant == Spec => []CInv
BY InitCounts, NextCounts, PTL DEF Spec

\* What a chat shows as read is read for the server, will be told to it, or was
\* refused by it: nothing is shown as read that the server never hears of.
THEOREM ReadsAreTold == Spec => []ReadTold
<1>1. ASSUME CInv PROVE ReadTold
  <2> SUFFICES ASSUME Untoggled, NEW h \in Chats
               PROVE  \/ chat[h].read <= Max2(server[h].read, refused[h])
                      \/ chat[h].read <= histories.state[h].willReadTill
                      \/ \E q \in LiveOf(h, "ReadInbox") : chat[h].read <= q.sent.till
    BY DEF ReadTold
  <2>1. CountsOK(h)
    BY <1>1 DEF CInv, Counts
  <2>2. \/ chat[h].read <= Known(h)
        \/ chat[h].read <= histories.state[h].willReadTill
        \/ ReadBeyond(histories, h, chat[h].read)
    BY <2>1 DEF CountsOK, ClientFits, Told
  <2>3. ASSUME ReadBeyond(histories, h, chat[h].read)
        PROVE  \E q \in LiveOf(h, "ReadInbox") : chat[h].read <= q.sent.till
    <3>1. PICK r \in Requests :
            Live(h, r) \in histories.live /\ r.type = "ReadInbox" /\ r.till >= chat[h].read
      BY <2>3 DEF ReadBeyond
    <3>2. h \in Live(h, r).of /\ Live(h, r).sent = r
      BY DEF Live
    <3>3. Live(h, r) \in LiveOf(h, "ReadInbox")
      BY <3>1, <3>2 DEF LiveOf
    <3>4. chat[h].read <= r.till
      <4>1. r.till \in Nat /\ chat[h].read \in Nat
        BY <1>1, Typing, KnownIs DEF CInv, Requests
      <4> QED
        BY <3>1, <4>1
    <3> QED
      BY <3>2, <3>3, <3>4
  <2> QED
    BY <2>2, <2>3 DEF Known
<1>2. CInv => ReadTold
  BY <1>1
<1> QED
  BY <1>2, CountsInvariant, PTL

\* When nothing about a chat is under way, it is read up to where the server has
\* it, and it shows as many unread messages as the server has.
THEOREM CountsAreRight == Spec => []CountRight
<1>1. ASSUME CInv PROVE CountRight
  <2> SUFFICES ASSUME Untoggled, NEW h \in Chats, Quiet(h)
               PROVE  /\ chat[h].read = server[h].read
                      /\ h \notin stale =>
                           chat[h].unread = server[h].top - server[h].read
    BY DEF CountRight
  <2> DEFINE s == histories.state[h]
  <2>1. /\ CountsOK(h) /\ CountTypes /\ Watched(histories, {})
    BY <1>1, Typing DEF CInv, Counts, IInv, Kept
  <2>2. /\ server[h].read \in Nat /\ server[h].top \in Nat /\ Known(h) \in Nat
        /\ chat[h].top \in Nat /\ chat[h].read \in Nat /\ s.sentReadTill \in Nat
    BY <2>1, KnownIs DEF CountTypes, Objects, States
  <2>3. /\ \A i \in DOMAIN inbox : ~IsMessage(inbox[i], h) /\ ~IsRead(inbox[i], h)
        /\ refused[h] = 0 /\ s.willReadTill = 0
        /\ h \notin histories.pending \cup histories.asked
    BY DEF Quiet, IsMessage, IsRead
  <2>4. \A r \in Requests : Live(h, r) \in histories.live => r.type # "ReadInbox"
    <3> SUFFICES ASSUME NEW r \in Requests, Live(h, r) \in histories.live, r.type = "ReadInbox"
                 PROVE  FALSE
      OBVIOUS
    <3>1. h \in Live(h, r).of /\ Live(h, r).sent = r
      BY DEF Live
    <3>2. Live(h, r) \in LiveOf(h, "ReadInbox")
      BY <3>1 DEF LiveOf
    <3> QED
      BY <3>2 DEF Quiet
  <2>5. s.sentReadTill = 0
    BY <2>1, <2>3, <2>4 DEF Watched, ReadIsOut
  <2>6. chat[h].top = server[h].top
    <3>1. AllComes(inbox, h, chat[h].top, server[h]) /\ chat[h].top <= server[h].top
      BY <2>1 DEF CountsOK, InboxFits
    <3>2. server[h].top \notin chat[h].top + 1 .. server[h].top
      BY <2>3, <3>1 DEF AllComes
    <3> QED
      BY <2>2, <3>1, <3>2
  <2>7. chat[h].read <= server[h].read
    <3>1. Known(h) = server[h].read
      BY <2>2, <2>3 DEF Known, Max2
    <3>2. \/ chat[h].read <= Known(h) \/ chat[h].read <= s.willReadTill
          \/ ReadBeyond(histories, h, chat[h].read)
      BY <2>1 DEF CountsOK, ClientFits, Told
    <3>3. ~ReadBeyond(histories, h, chat[h].read)
      BY <2>4 DEF ReadBeyond
    <3> QED
      BY <2>2, <2>3, <3>1, <3>2, <3>3
  <2>8. server[h].read <= chat[h].read
    <3>1. ~ReadBeyond(histories, h, server[h].read)
      BY <2>4 DEF ReadBeyond
    <3>2. Learns(h)
      BY <2>1 DEF CountsOK
    <3> QED
      BY <2>2, <2>3, <2>5, <3>1, <3>2 DEF Learns, Remembers
  <2>9. h \notin stale => chat[h].unread = chat[h].top - chat[h].read
    BY <2>1, <2>3 DEF CountsOK, Exact
  <2>10. chat[h].read = server[h].read
    BY <2>2, <2>7, <2>8
  <2> QED
    BY <2>6, <2>9, <2>10
<1>2. CInv => CountRight
  BY <1>1
<1> QED
  BY <1>2, CountsInvariant, PTL
=============================================================================
