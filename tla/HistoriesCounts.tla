--------------------------- MODULE HistoriesCounts ---------------------------
(***************************************************************************)
(* The inductive invariant behind the theorems about what a chat shows as  *)
(* read and as unread.  It ties the client to the server through what is   *)
(* under way: each message of the inbox fits what the client and the       *)
(* server have, and any two of them are in order.                          *)
(***************************************************************************)
EXTENDS HistoriesInvariant

IsMessage(m, h) == m.kind = "message" /\ m.chat = h
IsRead(m, h) == m.kind = "read" /\ m.chat = h

\* m brings the entry of h, as the server had it.
IsEntry(m, h) ==
  m.kind = "answer" /\ m.sent.type = "Entries" /\ m.ok /\ h \in m.of

\* m ends a read of h.
EndsRead(m, h) == m.kind = "answer" /\ m.sent.type = "ReadInbox" /\ h \in m.of

\* The top and the mark of h as the server had them when it sent m; at the
\* answer to a read, what the mark was at least.
TopOf(m, h) ==
  IF IsMessage(m, h) THEN m.till
  ELSE IF IsRead(m, h) THEN m.till + m.unread
  ELSE m.entries[h].read + m.entries[h].unread
MarkOf(m, h) ==
  IF IsRead(m, h) THEN m.till
  ELSE IF IsEntry(m, h) THEN m.entries[h].read ELSE m.sent.till

HasTop(m, h) == IsMessage(m, h) \/ IsRead(m, h) \/ IsEntry(m, h)
HasMark(m, h) == IsRead(m, h) \/ IsEntry(m, h) \/ (EndsRead(m, h) /\ m.ok)

\* m is about what the client, whose top is "top", and the server, which has sv
\* and refused the reads up to rf, have.
Fits(m, h, top, sv, rf) ==
  /\ HasTop(m, h) => TopOf(m, h) \in top .. sv.top
  /\ IsMessage(m, h) => TopOf(m, h) > top
  /\ HasMark(m, h) => MarkOf(m, h) <= sv.read
  /\ IsRead(m, h) \/ IsEntry(m, h) => MarkOf(m, h) <= TopOf(m, h)
  /\ EndsRead(m, h) => m.sent.till > 0 /\ (m.ok \/ m.sent.till <= rf)

\* n was sent after m.
InOrder(m, n, h) ==
  /\ HasTop(m, h) /\ HasTop(n, h) => TopOf(m, h) <= TopOf(n, h)
  /\ HasTop(m, h) /\ IsMessage(n, h) => TopOf(m, h) < TopOf(n, h)
  /\ HasMark(m, h) /\ (IsRead(n, h) \/ IsEntry(n, h)) => MarkOf(m, h) <= MarkOf(n, h)

\* Each message from the client's top to the server's is in s.
AllComes(s, h, top, sv) ==
  \A n \in top + 1 .. sv.top : \E i \in DOMAIN s : IsMessage(s[i], h) /\ s[i].till = n

InboxFits(s, h, top, sv, rf) ==
  /\ \A i \in DOMAIN s : Fits(s[i], h, top, sv, rf)
  /\ \A i, j \in DOMAIN s : i < j => InOrder(s[i], s[j], h)
  /\ AllComes(s, h, top, sv)

\* The entries that are being handled are up to date with the chats.
FreshEntry(e) ==
  e.ok => /\ e.entry.read <= server[e.chat].read
          /\ e.entry.read + e.entry.unread = chat[e.chat].top
          /\ e.entry.unread >= 0

-----------------------------------------------------------------------------
\* c is read up to a message that it has, and shows no fewer unread ones than
\* there are; when nothing is amiss, no more either.
ShownOK(c) == c.read <= c.top /\ c.unread >= c.top - c.read
Exact(c) == c.unread = c.top - c.read

\* A read of h till n or further is out.
ReadBeyond(d, h, n) ==
  \E r \in Requests : Live(h, r) \in d.live /\ r.type = "ReadInbox" /\ r.till >= n

\* The reads of h are of messages it has, one further than the other.
ReadsFit(d, h, top) ==
  LET s == d.state[h]
  IN /\ s.willReadTill <= top /\ s.sentReadTill <= top
     /\ s.willReadTill # 0 => s.sentReadTill < s.willReadTill
     /\ \A r \in Requests : Live(h, r) \in d.live /\ r.type = "ReadInbox" =>
          r.till \in 1 .. top /\ r.finishes

\* What h shows as read up to "mark", and the last read sent, is known to the
\* server, which knows of reads up to "known", or will be told to it.
Told(d, h, mark, known) ==
  LET s == d.state[h]
  IN /\ mark <= known \/ mark <= s.willReadTill \/ ReadBeyond(d, h, mark)
     /\ s.sentReadTill <= known \/ ReadBeyond(d, h, s.sentReadTill)

\* A read up to n comes from the client itself, which keeps it in mind.
Remembers(d, h, n) == ReadBeyond(d, h, n) \/ d.state[h].sentReadTill >= n

\* What is read for the server is shown as read, or will be.
Learns(h) ==
  LET read == server[h].read
  IN \/ read <= chat[h].read
     \/ \E i \in DOMAIN inbox : IsRead(inbox[i], h) /\ inbox[i].till >= read
     \/ Remembers(histories, h, read)

\* A read that is done and was not refused is in each entry that comes.
IsDone(d, h) == d.state[h].sentReadTill # 0 /\ d.state[h].sentReadDone
DoneIn(till, h) ==
  /\ till <= server[h].read
  /\ \A i \in DOMAIN inbox : IsEntry(inbox[i], h) => till <= MarkOf(inbox[i], h)
  /\ \A e \in applying : e.chat = h /\ e.ok => till <= e.entry.read

Known(h) == Max2(server[h].read, refused[h])

\* The Histories object d and the chat h as c, when the server knows of reads
\* up to "known".
ClientFits(d, c, h, known) ==
  ShownOK(c) /\ ReadsFit(d, h, c.top) /\ Told(d, h, c.read, known)

DoneOK(h) ==
  IsDone(histories, h) /\ refused[h] = 0 => DoneIn(histories.state[h].sentReadTill, h)

CountsOK(h) ==
  /\ server[h].read <= server[h].top /\ chat[h].top <= server[h].top
  /\ InboxFits(inbox, h, chat[h].top, server[h], refused[h]) /\ Learns(h)
  /\ ClientFits(histories, chat[h], h, Known(h)) /\ DoneOK(h)
  /\ refused[h] = 0 /\ h \notin stale => Exact(chat[h])

Counts == (\A h \in Chats : CountsOK(h)) /\ (\A e \in applying : FreshEntry(e))

CInv == IInv /\ (Untoggled => Counts)
=============================================================================
