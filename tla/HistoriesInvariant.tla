------------------------- MODULE HistoriesInvariant -------------------------
(***************************************************************************)
(* The inductive invariant behind the theorems about Histories.  Its parts *)
(* speak of a Histories object, so that a lemma can follow an object       *)
(* through the calls of one handler.                                       *)
(***************************************************************************)
EXTENDS Histories

Requests == [ id : Nat, type : {"History", "Delete", "Send", "ReadInbox", "Entries"},
              till : Nat, finishes : BOOLEAN ]

States == [ sent : SUBSET Requests, postponed : SUBSET Nat, willReadTill : Nat,
            sentReadTill : Nat, sentReadDone : BOOLEAN,
            postponedRequestEntry : BOOLEAN ]

Objects == [ state : [Chats -> States],
             armed : Seq(Chats), timer : Chats \cup {"off", "stale"},
             pending : SUBSET Chats, asked : SUBSET Chats,
             callbacks : SUBSET Chats, posted : BOOLEAN,
             live : SUBSET [of : SUBSET Chats, sent : Requests],
             lastId : [Chats -> Nat], lastEntries : Nat,
             sendReadMessages : BOOLEAN ]

ChatStates == [top : Nat, read : Nat, unread : Int]

Fields == [read : Nat, unread : Int]

Pushes == [kind : {"message", "read"}, chat : Chats, till : Nat, unread : Int]

Answers == { m \in [ kind : {"answer"}, of : SUBSET Chats, sent : Requests, ok : BOOLEAN,
                     entries : UNION { [hs -> Fields] : hs \in SUBSET Chats } ] :
               m.ok /\ m.sent.type = "Entries" => m.entries \in [m.of -> Fields] }

TypeServer ==
  /\ inbox \in Seq(Pushes \cup Answers)
  /\ server \in [Chats -> [top : Nat, read : Nat]]
  /\ refused \in [Chats -> Nat]
  /\ spent \in [ requests : Nat, entries : Nat, failures : Nat, unended : Nat,
                 toggles : Nat ]

TypeClient ==
  /\ histories \in Objects
  /\ chat \in [Chats -> ChatStates]
  /\ \A e \in applying : e.chat \in Chats /\ (e.ok => e.entry \in Fields)
  /\ stale \subseteq Chats

TypeOK == TypeServer /\ TypeClient

-----------------------------------------------------------------------------
\* What is asked for is not about to be asked for, and an entry that must be
\* asked for again is one that was asked for.
EntriesOK(d) ==
  /\ d.asked \cap d.pending = {}
  /\ \A h \in Chats : d.state[h].postponedRequestEntry => h \in d.asked

\* r is a request of h that is kept, that is out, or that waits.
IsKnown(d, h, r) ==
  \/ r \in d.state[h].sent
  \/ Live(h, r) \in d.live /\ r.type # "Entries"
  \/ r.id \in d.state[h].postponed /\ r = Sent(r.id, "History", 0, TRUE)

\* An id is given once, and all pages look the same but for their ids.
IdsOK(d) ==
  /\ \A h \in Chats, r \in Requests : IsKnown(d, h, r) =>
       /\ r.id <= d.lastId[h] /\ r.type # "Entries"
       /\ r.type = "History" => r = Sent(r.id, "History", 0, TRUE)
  /\ \A h \in Chats, r, t \in Requests :
       IsKnown(d, h, r) /\ IsKnown(d, h, t) /\ r.id = t.id => r = t
  /\ \A q \in d.live : q.sent.type = "Entries" \/ \E h \in Chats : q = Live(h, q.sent)

\* The chats that wait for the timer have a read to send.
OnlyReadsWait(d) == \A h \in Chats : Waits(d, h) => d.state[h].willReadTill # 0

\* Each chat with a read to send waits, for a timer that runs.
ArmedOK(d) ==
  /\ OnlyReadsWait(d)
  /\ \A h \in Chats : d.state[h].willReadTill # 0 => Waits(d, h)
  /\ d.armed # <<>> => d.timer # "off"

\* A read of h till "till" is out, and its handler calls finish().
ReadIsOut(d, h, till) ==
  \E r \in Requests : /\ Live(h, r) \in d.live
                      /\ r.type = "ReadInbox" /\ r.finishes /\ r.till = till

\* The last read sent is out, or it is over and the entry of the chat is on
\* its way; or, for the chats of hs, is being handled.
Watched(d, hs) ==
  \A h \in Chats : d.state[h].sentReadTill # 0 =>
    \/ ReadIsOut(d, h, d.state[h].sentReadTill)
    \/ d.state[h].sentReadDone /\ h \in d.pending \cup d.asked \cup hs

\* A page or a deletion that is out is kept, and they are never kept together.
PagesOK(d) ==
  \A h \in Chats :
    /\ \A r \in Requests :
         Live(h, r) \in d.live /\ r.type \in {"History", "Delete"} => r \in d.state[h].sent
    /\ PostponeHistoryRequest(d.state[h]) => Pages(d.state[h]) = {}

\* No read that is out goes past the last one sent, past the one to be sent, or,
\* when none is remembered, past what the chat shows as read.
MarksOK(d, marks) ==
  \A h \in Chats, r \in Requests :
    Live(h, r) \in d.live /\ r.type = "ReadInbox" /\ r.finishes =>
      LET s == d.state[h]
      IN /\ s.willReadTill # 0 => r.till <= s.willReadTill
         /\ r.till <= IF s.sentReadTill # 0 THEN s.sentReadTill ELSE marks[h]

Kept(d, hs) == EntriesOK(d) /\ IdsOK(d) /\ Watched(d, hs)

\* What holds of an object whose states were never dropped.
Strict(d, marks) == d.sendReadMessages /\ PagesOK(d) /\ MarksOK(d, marks)

Marks == [h \in Chats |-> chat[h].read]

IInv ==
  /\ TypeOK
  /\ Kept(histories, {}) /\ ArmedOK(histories)
  /\ Untoggled => Strict(histories, Marks)
=============================================================================
