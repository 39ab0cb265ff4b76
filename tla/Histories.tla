----------------------------- MODULE Histories -----------------------------
(***************************************************************************)
(* Requests about chats (data/data_histories.cpp): pages of a history are  *)
(* not asked for while messages of it are being deleted, the entry of a    *)
(* chat is asked for again when something changed it meanwhile, and reads  *)
(* are gathered, delayed and sent.                                         *)
(*                                                                         *)
(* The server and the chat itself (history/history.cpp) are modelled as    *)
(* far as reads go: messages 1 .. top of a chat are incoming, and those    *)
(* above the mark "read" are unread.  What the server sends comes in the   *)
(* order it was sent; requests are served in any order.                    *)
(***************************************************************************)
EXTENDS Integers, Sequences, FiniteSets, SequencesExt

CONSTANTS Chats,
          MaxTop,       \* bound: messages of a chat
          MaxRequests,  \* bound: pages, deletions and messages asked for
          MaxEntries,   \* bound: times the entry of a chat is asked for
          MaxFailures,  \* bound: requests the server refuses
          MaxUnended,   \* bound: requests whose handlers never "finish"
          MaxToggles,   \* bound: times "send read messages" is switched
          Elsewhere,    \* the chats the user reads on another device too
          MaxInbox      \* bound: messages of the server under way

ASSUME ChatsAssumption ==
  IsFiniteSet(Chats) /\ "off" \notin Chats /\ Elsewhere \subseteq Chats
ASSUME BoundsAssumption ==
  { MaxTop, MaxRequests, MaxEntries, MaxFailures, MaxUnended, MaxToggles,
    MaxInbox } \subseteq Nat

VARIABLES
  histories,  \* the Histories object, the setting and the live requests
  chat,       \* the client's History objects: top, read mark, unread count
  applying,   \* entries of an answer still to be handled, in one handler
  inbox,      \* what the server has sent, first one first
  server,     \* per chat: top message, read mark
  refused,    \* history: per chat, the last read the server refused
  stale,      \* history: chats whose count waits for an entry that was refused
              \* or is still to come
  spent       \* how much of each bound is used

vars == <<histories, chat, applying, inbox, server, refused, stale, spent>>

Tops == 0 .. MaxTop
Max2(a, b) == IF a > b THEN a ELSE b

Fresh == [ sent |-> {}, postponed |-> {}, willReadTill |-> 0,
           sentReadTill |-> 0, sentReadDone |-> FALSE,
           postponedRequestEntry |-> FALSE ]

\* A request as Histories keeps it; "finishes": its handlers call finish().
Sent(id, type, till, finishes) ==
  [id |-> id, type |-> type, till |-> till, finishes |-> finishes]

\* The same, as the API holds it until its answer or its cancellation.
Live(h, r) == [of |-> {h}, sent |-> r]
Entries(hs, id) == [of |-> hs, sent |-> Sent(id, "Entries", 0, FALSE)]

Init ==
  /\ histories = [ state |-> [h \in Chats |-> Fresh],
                   armed |-> <<>>, timer |-> "off",
                   pending |-> {}, asked |-> {}, callbacks |-> {},
                   posted |-> FALSE, live |-> {},
                   lastId |-> [h \in Chats |-> 0], lastEntries |-> 0,
                   sendReadMessages |-> TRUE ]
  /\ chat = [h \in Chats |-> [top |-> 0, read |-> 0, unread |-> 0]]
  /\ applying = {} /\ inbox = <<>>
  /\ server = [h \in Chats |-> [top |-> 0, read |-> 0]]
  /\ refused = [h \in Chats |-> 0] /\ stale = {}
  /\ spent = [requests |-> 0, entries |-> 0, failures |-> 0,
              unended |-> 0, toggles |-> 0]

-----------------------------------------------------------------------------
(* Requests of one chat: d is the Histories object. *)

PostponeHistoryRequest(s) == \E r \in s.sent : r.type = "Delete"
PostponeEntryRequest(s) == \E r \in s.sent : r.type # "History"

NoPages(s) == {}  \* mistake: a deletion leaves the pages under way

Pages(s) == { r \in s.sent : r.type = "History" }

\* sendRequest(): a page waits for the deletions; a deletion stops the pages.
SendRequest(d, h, type, till, finishes) ==
  LET s == d.state[h]
      id == d.lastId[h] + 1
      r == Sent(id, type, till, finishes)
      more == [s EXCEPT !.sent = @ \cup {r}]
      stopped == IF PostponeHistoryRequest(more) THEN Pages(more) ELSE {}
  IN IF type = "History" /\ PostponeHistoryRequest(s)
     THEN [d EXCEPT !.lastId[h] = id, !.state[h].postponed = @ \cup {id}]
     ELSE [d EXCEPT
             !.lastId[h] = id,
             !.live = (@ \cup {Live(h, r)}) \ { Live(h, p) : p \in stopped },
             !.state[h] = [more EXCEPT
               !.sent = @ \ stopped,
               !.postponed = @ \cup { p.id : p \in stopped },
               !.postponedRequestEntry =
                  @ \/ (PostponeEntryRequest(more) /\ h \in d.asked) ]]

\* postponeRequestDialogEntries(), after a chat was added to "pending".
PostponeRequestDialogEntries(d) ==
  [d EXCEPT !.posted = @ \/ Cardinality(d.pending) <= 1]

\* checkEmptyState(): a state with nothing in it is erased.
CheckEmptyState(s) ==
  IF /\ s.postponed = {} /\ ~s.postponedRequestEntry /\ s.sent = {}
     /\ s.willReadTill = 0 /\ s.sentReadTill = 0
  THEN Fresh ELSE s

\* mistake: only the request leaves
FinishSentRequestAlone(d, h, id) ==
  LET ended == { r \in d.state[h].sent : r.id = id }
  IN [d EXCEPT !.state[h].sent = @ \ ended,
               !.live = @ \ { Live(h, r) : r \in ended }]

\* finishSentRequest(): the request leaves, what waited for it goes on.
FinishSentRequest(d, h, id) ==
  LET ended == { r \in d.state[h].sent : r.id = id }
      s == [d.state[h] EXCEPT !.sent = @ \ ended]
      again == IF PostponeHistoryRequest(s) THEN {}
               ELSE { Sent(p, "History", 0, TRUE) : p \in s.postponed }
      t == [s EXCEPT !.sent = @ \cup again,
                     !.postponed = @ \ { p.id : p \in again }]
      live == (d.live \ { Live(h, r) : r \in ended })
                \cup { Live(h, p) : p \in again }
  IN IF t.postponedRequestEntry /\ ~PostponeEntryRequest(t)
     THEN PostponeRequestDialogEntries([d EXCEPT
            !.state[h] = CheckEmptyState(
                           [t EXCEPT !.postponedRequestEntry = FALSE]),
            !.live = live,
            !.asked = @ \ {h}, !.pending = @ \cup {h}])
     ELSE [d EXCEPT !.state[h] = CheckEmptyState(t), !.live = live]

\* requestDialogEntry(), with readInbox()'s callback or none.
RequestDialogEntry(d, h, callback) ==
  LET c == [d EXCEPT !.callbacks = IF callback THEN @ \cup {h} ELSE @]
  IN IF h \in d.asked \cup d.pending THEN c
     ELSE PostponeRequestDialogEntries([c EXCEPT !.pending = @ \cup {h}])

\* sendDialogRequests(): one request for all, but for those that must wait.
SendDialogRequests(d) ==
  LET held == { h \in d.pending : PostponeEntryRequest(d.state[h]) }
  IN IF d.pending = {} THEN d
     ELSE [d EXCEPT
             !.state = [h \in Chats |->
                IF h \in held
                THEN [d.state[h] EXCEPT !.postponedRequestEntry = TRUE]
                ELSE d.state[h]],
             !.lastEntries = @ + 1,
             !.live = @ \cup {Entries(d.pending \ held, d.lastEntries + 1)},
             !.asked = @ \cup d.pending, !.pending = {}]

-----------------------------------------------------------------------------
(* Reads.  A chat is in "armed" while its willReadWhen is set, the earliest *)
(* first; "due" of them are over when a handler looks at the clock.         *)

\* sendReadRequest() for every chat of hs.
SendReads(d, hs) ==
  LET r == [h \in hs |-> Sent(d.lastId[h] + 1, "ReadInbox",
                              d.state[h].willReadTill, TRUE)]
  IN [d EXCEPT
        !.lastId = [h \in Chats |-> IF h \in hs THEN @[h] + 1 ELSE @[h]],
        !.live = @ \cup { Live(h, r[h]) : h \in hs },
        !.state = [h \in Chats |-> IF h \notin hs THEN d.state[h]
          ELSE [d.state[h] EXCEPT
            !.sent = @ \cup {r[h]},
            !.sentReadTill = r[h].till, !.willReadTill = 0,
            !.sentReadDone = FALSE,
            !.postponedRequestEntry = @ \/ h \in d.asked]]]

NoDeadline(later) == "off"  \* mistake: the timer is not started again

Deadline(later) == IF later = <<>> THEN "off" ELSE Head(later)

\* sendReadRequests() sends what is due and waits for the rest.
SendDueReads(d, due) ==
  LET later == SubSeq(d.armed, due + 1, Len(d.armed))
      now == { h \in Chats : /\ d.state[h].willReadTill # 0
                             /\ \A i \in DOMAIN later : later[i] # h }
  IN IF \A h \in Chats : d.state[h] = Fresh THEN d
     ELSE [SendReads(d, now) EXCEPT
             !.armed = later, !.timer = Deadline(later)]

\* With "send read messages" off it drops the state of every chat.
SendReadRequests(d, due) ==
  IF d.sendReadMessages THEN SendDueReads(d, due)
  ELSE [d EXCEPT !.state = [h \in Chats |-> Fresh], !.armed = <<>>,
                 !.timer = IF @ = "off" THEN @ ELSE "stale"]

Waits(d, h) == \E i \in DOMAIN d.armed : d.armed[i] = h

\* The chats that wait, but for h.
WaitBut(d, h) ==
  IF Waits(d, h)
  THEN RemoveAt(d.armed, CHOOSE i \in DOMAIN d.armed : d.armed[i] = h)
  ELSE d.armed

\* h need not wait any more: its willReadWhen becomes 0.
SendNow(d, h, due) ==
  LET rest == WaitBut(d, h)
  IN SendReadRequests([d EXCEPT !.armed = rest],
                      IF due > Len(rest) THEN Len(rest) ELSE due)

\* sendPendingReadInbox().
SendPendingReadInbox(d, h, due) ==
  IF d.state[h].willReadTill # 0 /\ Waits(d, h) THEN SendNow(d, h, due) ELSE d

\* mistake: one unread message, and the mark is put above it
SetUnreadCountAbove(c, n) ==
  [c EXCEPT !.unread = n, !.read = IF n <= 1 THEN Max2(@, c.top) ELSE @]

\* History::setUnreadCount(), for a chat loaded at its bottom.
SetUnreadCount(c, n) ==
  IF n = c.unread THEN c
  ELSE [c EXCEPT !.unread = n,
                 !.read = IF n = 0 THEN Max2(@, c.top)
                          ELSE IF n = 1 THEN Max2(@, c.top - 1) ELSE @]

\* History::setInboxReadTill().
SetInboxReadTill(c, till) == [c EXCEPT !.read = Max2(@, till)]

\* History::countStillUnreadLocal(), when the messages up to it are loaded.
CountStillUnreadLocal(c, till) == Max2(c.unread - Max2(till - c.read, 0), 0)

\* readInboxTill(d, c, h, a, due): a read of chat h till a.till.  "force" sends
\* it at once; "known": the messages between are loaded and can be counted.
Still(c, a) == CountStillUnreadLocal(c, a.till)
NeedsRequest(c, a) == c.read < a.till

\* mistake: without a look at what was sent
IsNewEver(d, c, h, a) ==
  /\ NeedsRequest(c, a) \/ (a.force /\ d.state[h].willReadTill # 0)
  /\ d.state[h].willReadTill < a.till

\* It goes past the reads that were sent or will be.
IsNew(d, c, h, a) ==
  /\ NeedsRequest(c, a) \/ (a.force /\ d.state[h].willReadTill # 0)
  /\ d.state[h].sentReadTill < a.till
  /\ d.state[h].willReadTill < a.till
CountUnchanged(c, a) == ~a.force /\ a.known /\ Still(c, a) = c.unread

ReadInboxTill(d, c, h, a, due) ==
  LET s == d.state[h]
      will == [d EXCEPT !.state[h].willReadTill = a.till]
  IN IF IsNew(d, c, h, a)
     THEN IF CountUnchanged(c, a) THEN d
          ELSE IF a.force \/ ~a.known \/ Still(c, a) = 0
          THEN SendNow(will, h, due)
          ELSE IF Waits(d, h) THEN will
          ELSE [will EXCEPT !.armed = Append(@, h),
                            !.timer = IF @ = "off" THEN h ELSE @]
     ELSE IF a.force /\ s.sentReadTill < a.till
     THEN SendPendingReadInbox(d, h, due)
     ELSE d

\* And what it does to the chat: mark and count, then "syncGuard".
ReadLocally(d, c, h, a) ==
  LET marked ==
        IF ~IsNew(d, c, h, a) THEN c
        ELSE IF CountUnchanged(c, a) THEN SetInboxReadTill(c, a.till)
        ELSE IF a.known
        THEN SetUnreadCount(SetInboxReadTill(c, a.till), Still(c, a))
        ELSE c
  IN IF marked.unread > 0 /\ marked.top = a.till
     THEN SetUnreadCount(marked, 0) ELSE marked

-----------------------------------------------------------------------------
(* Handlers of answers. *)

Due == 0 .. Len(histories.armed)

\* dialogEntryApplied(): callbacks, then the mark of a read that is done.  With
\* "send read messages" off the callback erases the state under this function,
\* which then reads what the erased one held.
TakeDialogEntry(d, c, h, known, due) ==
  LET a == [till |-> c.top, force |-> FALSE, known |-> known]
      reads == h \in d.callbacks /\ c.top > 0
      taken == [d EXCEPT !.pending = @ \ {h}, !.asked = @ \ {h},
                         !.callbacks = @ \ {h}]
      called == IF reads THEN ReadInboxTill(taken, c, h, a, due) ELSE taken
      read == IF reads THEN ReadLocally(taken, c, h, a) ELSE c
      s == IF d.sendReadMessages THEN called.state[h] ELSE taken.state[h]
      done == s.sentReadTill # 0 /\ s.sentReadDone
  IN << IF done
        THEN [called EXCEPT !.state[h] =
                CheckEmptyState([@ EXCEPT !.sentReadTill = 0])]
        ELSE called,
        IF done THEN SetInboxReadTill(read, s.sentReadTill) ELSE read >>

\* But not when the entry will be asked for again.
DialogEntryApplied(d, c, h, known, due) ==
  IF d.state[h].postponedRequestEntry THEN <<d, c>>
  ELSE TakeDialogEntry(d, c, h, known, due)

\* mistake: the entry of the chat is not asked for
ReadDoneAlone(d, c, h, till) ==
  IF d.state[h].sentReadTill # till THEN d
  ELSE [d EXCEPT !.state[h].sentReadDone = TRUE]

\* The last read that was sent is over: its mark waits for the entry of the
\* chat, unless the chat is marked already.
ReadDone(d, c, h, till) ==
  IF d.state[h].sentReadTill # till THEN d
  ELSE IF c.read < till
  THEN RequestDialogEntry([d EXCEPT !.state[h].sentReadDone = TRUE], h, FALSE)
  ELSE [d EXCEPT !.state[h].sentReadDone = TRUE, !.state[h].sentReadTill = 0]

\* sendReadRequest()'s "finished", for an answer and for a refusal.
Finished(d, c, h, r, due) ==
  FinishSentRequest(SendReadRequests(ReadDone(d, c, h, r.till), due), h, r.id)

\* mistake: an entry older than the chat's own mark is applied
ApplyDialogFieldsAlways(c, e) ==
  SetInboxReadTill(SetUnreadCount(c, e.unread), e.read)

\* History::applyDialogFields().
ApplyDialogFields(c, e) ==
  IF e.read >= c.read
  THEN SetInboxReadTill(SetUnreadCount(c, e.unread), e.read) ELSE c

-----------------------------------------------------------------------------
(* The server. *)

Spend(what, bound) ==
  /\ spent[what] < bound
  /\ spent' = [spent EXCEPT ![what] = @ + 1]

Says(m) == Len(inbox) < MaxInbox /\ inbox' = Append(inbox, m)

Push(kind, h, till, unread) ==
  [kind |-> kind, chat |-> h, till |-> till, unread |-> unread]

\* A message of somebody else.
NewMessage(h) ==
  /\ applying = {} /\ server[h].top < MaxTop
  /\ server' = [server EXCEPT ![h].top = @ + 1]
  /\ Says(Push("message", h, server'[h].top, 0))
  /\ UNCHANGED <<histories, chat, applying, refused, stale, spent>>

\* The user reads the chat on another device.
ReadElsewhere(h, till) ==
  /\ applying = {} /\ till \in server[h].read + 1 .. server[h].top
  /\ server' = [server EXCEPT ![h].read = till]
  /\ Says(Push("read", h, till, server[h].top - till))
  /\ UNCHANGED <<histories, chat, applying, refused, stale, spent>>

\* The entries of the chats of a request, as the server has them.
Served(hs) ==
  [h \in hs |-> [read |-> server[h].read,
                 unread |-> server[h].top - server[h].read]]

Answer(q, ok) ==
  [ kind |-> "answer", of |-> q.of, sent |-> q.sent, ok |-> ok,
    entries |-> IF ok /\ q.sent.type = "Entries" THEN Served(q.of) ELSE <<>> ]

IsAnswer(m, q) == m.kind = "answer" /\ m.of = q.of /\ m.sent = q.sent

Unanswered(q) == \A i \in DOMAIN inbox : ~IsAnswer(inbox[i], q)

Serve(q) ==
  /\ applying = {} /\ Unanswered(q)
  /\ Says(Answer(q, TRUE))
  /\ server' = IF q.sent.type = "ReadInbox"
               THEN [h \in Chats |-> IF h \in q.of
                      THEN [server[h] EXCEPT !.read = Max2(@, q.sent.till)]
                      ELSE server[h]]
               ELSE server
  /\ UNCHANGED <<histories, chat, applying, refused, stale, spent>>

Refuse(q) ==
  /\ applying = {} /\ Unanswered(q)
  /\ Spend("failures", MaxFailures)
  /\ Says(Answer(q, FALSE))
  /\ refused' = [h \in Chats |-> IF h \in q.of
                   THEN Max2(refused[h], q.sent.till) ELSE refused[h]]
  /\ UNCHANGED <<histories, chat, applying, server, stale>>

-----------------------------------------------------------------------------
(* What comes from the server. *)

serverVars == <<server, refused, stale>>

Receive ==
  /\ applying = {} /\ inbox # <<>>
  /\ inbox' = Tail(inbox)

ReceiveMessage ==
  /\ Receive
  /\ LET m == Head(inbox)
         c == [chat[m.chat] EXCEPT !.top = m.till]
     IN /\ m.kind = "message"
        /\ chat' = [chat EXCEPT ![m.chat] =
             IF c.read < m.till THEN SetUnreadCount(c, c.unread + 1) ELSE c]
  /\ UNCHANGED <<histories, applying, serverVars, spent>>

\* History::applyInboxReadUpdate(): the count comes with it, or is counted, or
\* (its pts is not the channel's, and not all is loaded) the entry is asked for.
ReceiveRead ==
  /\ Receive
  /\ LET m == Head(inbox)
         c == chat[m.chat]
         is(n) == [chat EXCEPT ![m.chat] =
                     SetInboxReadTill(SetUnreadCount(c, n), m.till)]
     IN /\ m.kind = "read"
        /\ \/ /\ c.read >= m.till
              /\ UNCHANGED <<histories, chat, stale>>
           \/ /\ c.read < m.till
              /\ \/ chat' = is(m.unread)
                 \/ chat' = is(CountStillUnreadLocal(c, m.till))
              /\ UNCHANGED <<histories, stale>>
           \/ /\ c.read < m.till
              /\ chat' = [chat EXCEPT ![m.chat] = SetInboxReadTill(c, m.till)]
              /\ histories' = RequestDialogEntry(histories, m.chat, FALSE)
              /\ stale' = stale \cup {m.chat}
  /\ UNCHANGED <<applying, server, refused, spent>>

\* The API drops an answer to a request that was cancelled.
IsLive(m) == \E q \in histories.live : IsAnswer(m, q)

ReceiveCancelled ==
  /\ Receive
  /\ Head(inbox).kind = "answer" /\ ~IsLive(Head(inbox))
  /\ UNCHANGED <<histories, chat, applying, serverVars, spent>>

\* An answer, with the request it ends and the Histories object without it.
ReceiveAnswer(types, Handle(_, _, _)) ==
  /\ Receive
  /\ LET m == Head(inbox)
     IN /\ m.kind = "answer" /\ m.sent.type \in types
        /\ \E q \in histories.live :
             /\ IsAnswer(m, q)
             /\ Handle(m, [histories EXCEPT !.live = @ \ {q}], m.sent)

ReceivePage ==
  /\ ReceiveAnswer({"History", "Send"}, LAMBDA m, d, r :
       \E h \in m.of : histories' = FinishSentRequest(d, h, r.id))
  /\ UNCHANGED <<chat, applying, serverVars, spent>>

\* The server deleted some and there are more: asked again before finish().
ReceiveDeleted ==
  /\ ReceiveAnswer({"Delete"}, LAMBDA m, d, r :
       /\ r.finishes
       /\ \E h \in m.of :
            \/ /\ histories' = FinishSentRequest(d, h, r.id)
               /\ UNCHANGED spent
            \/ /\ m.ok /\ Spend("requests", MaxRequests)
               /\ histories' = FinishSentRequest(
                    SendRequest(d, h, "Delete", 0, TRUE), h, r.id))
  /\ UNCHANGED <<chat, applying, serverVars>>

ReceiveReadDone ==
  /\ ReceiveAnswer({"ReadInbox"}, LAMBDA m, d, r :
       /\ r.finishes
       /\ \E h \in m.of, due \in Due :
            histories' = Finished(d, chat[h], h, r, due))
  /\ UNCHANGED <<chat, applying, serverVars, spent>>

\* Handlers that do not call finish(): the deletion of a channel and AyuGram's
\* own readHistory().  The request is over, Histories goes on waiting for it.
ReceiveUnended ==
  /\ ReceiveAnswer({"Delete", "ReadInbox"}, LAMBDA m, d, r :
       ~r.finishes /\ histories' = d)
  /\ UNCHANGED <<chat, applying, serverVars, spent>>

\* The answer to sendDialogRequests(): its chats are handled one by one, and
\* nothing else happens until they all are.
ReceiveEntries ==
  /\ ReceiveAnswer({"Entries"}, LAMBDA m, d, r :
       /\ histories' = d
       /\ applying' = { [chat |-> h, ok |-> m.ok,
                         entry |-> IF m.ok THEN m.entries[h] ELSE <<>>]
                        : h \in m.of })
  /\ UNCHANGED <<chat, serverVars, spent>>

ApplyEntry(e, known, due) ==
  /\ e \in applying
  /\ LET c == IF e.ok THEN ApplyDialogFields(chat[e.chat], e.entry)
              ELSE chat[e.chat]
         after == DialogEntryApplied(histories, c, e.chat, known, due)
     IN /\ histories' = after[1]
        /\ chat' = [chat EXCEPT ![e.chat] = after[2]]
  /\ applying' = applying \ {e}
  /\ stale' = IF ~e.ok THEN stale \cup {e.chat}
              ELSE IF e.entry.read >= chat[e.chat].read
              THEN stale \ {e.chat} ELSE stale
  /\ UNCHANGED <<inbox, server, refused, spent>>

-----------------------------------------------------------------------------
(* Timers, the application's postponed call and the user. *)

TimerFires(due) ==
  /\ applying = {} /\ histories.timer # "off"
  /\ LET armed == histories.armed
     IN \A i \in DOMAIN armed : armed[i] = histories.timer => due >= i
  /\ histories' = SendReadRequests([histories EXCEPT !.timer = "off"], due)
  /\ UNCHANGED <<chat, applying, inbox, serverVars, spent>>

PostponedCall ==
  /\ applying = {} /\ histories.posted
  /\ histories' = [SendDialogRequests(histories) EXCEPT !.posted = FALSE]
  /\ UNCHANGED <<chat, applying, inbox, serverVars, spent>>

Ui == applying = {} /\ UNCHANGED <<applying, inbox, serverVars>>

Ask(h, type) ==
  /\ Ui /\ Spend("requests", MaxRequests)
  /\ histories' = SendRequest(histories, h, type, 0, TRUE)
  /\ UNCHANGED chat

\* sendPreparedMessage().  With "send read messages" off, markReadAfterAction()
\* may first read the chat.
Send(h) ==
  /\ Ui /\ Spend("requests", MaxRequests)
  /\ \/ histories' = SendRequest(histories, h, "Send", 0, TRUE)
     \/ /\ ~histories.sendReadMessages /\ chat[h].top > 0
        /\ MaxUnended > 0
        /\ histories' = SendRequest(
             SendRequest(histories, h, "ReadInbox", chat[h].top, FALSE),
             h, "Send", 0, TRUE)
  /\ UNCHANGED chat

\* A caller gives up a page that was sent or waits: cancelRequest().
CancelPage(h, id) ==
  /\ Ui
  /\ id \in histories.state[h].postponed
            \cup { p.id : p \in Pages(histories.state[h]) }
  /\ histories' = FinishSentRequest(
       [histories EXCEPT !.state[h].postponed = @ \ {id}], h, id)
  /\ UNCHANGED <<chat, spent>>

\* A channel is deleted, or AyuGram reads a chat till its last message.
AskUnended(h, type) ==
  /\ Ui /\ Spend("unended", MaxUnended)
  /\ type = "ReadInbox" => ~histories.sendReadMessages /\ chat[h].top > 0
  /\ histories' = SendRequest(histories, h, type,
                    IF type = "ReadInbox" THEN chat[h].top ELSE 0, FALSE)
  /\ UNCHANGED chat

AskEntry(h, callback) ==
  /\ Ui /\ Spend("entries", MaxEntries)
  /\ histories' = RequestDialogEntry(histories, h, callback)
  /\ UNCHANGED chat

ReadInbox(h, till, force, known, due) ==
  /\ Ui /\ till \in 1 .. chat[h].top
  /\ LET a == [till |-> till, force |-> force, known |-> known]
     IN /\ histories' = ReadInboxTill(histories, chat[h], h, a, due)
        /\ chat' = [chat EXCEPT ![h] = ReadLocally(histories, @, h, a)]
  /\ UNCHANGED spent

\* The user leaves the chat.
LeaveChat(h, due) ==
  /\ Ui
  /\ histories' = SendPendingReadInbox(histories, h, due)
  /\ UNCHANGED <<chat, spent>>

ToggleSendReadMessages ==
  /\ Ui /\ Spend("toggles", MaxToggles)
  /\ histories' = [histories EXCEPT !.sendReadMessages = ~@]
  /\ UNCHANGED chat

Server ==
  \/ \E h \in Chats : NewMessage(h)
  \/ \E h \in Elsewhere, till \in Tops : ReadElsewhere(h, till)
  \/ \E q \in histories.live : Serve(q) \/ Refuse(q)

Handle ==
  \/ ReceiveMessage \/ ReceiveRead \/ ReceiveCancelled
  \/ ReceivePage \/ ReceiveDeleted \/ ReceiveReadDone \/ ReceiveUnended
  \/ ReceiveEntries
  \/ \E e \in applying, known \in BOOLEAN, due \in Due :
       ApplyEntry(e, known, due)
  \/ PostponedCall
  \/ \E due \in Due : TimerFires(due)

User ==
  \/ \E h \in Chats :
       \/ \E type \in {"History", "Delete"} : Ask(h, type)
       \/ Send(h)
       \/ \E type \in {"ReadInbox", "Delete"} : AskUnended(h, type)
       \/ \E id \in 1 .. histories.lastId[h] : CancelPage(h, id)
       \/ \E callback \in BOOLEAN : AskEntry(h, callback)
       \/ \E till \in Tops, force, known \in BOOLEAN, due \in Due :
            ReadInbox(h, till, force, known, due)
       \/ \E due \in Due : LeaveChat(h, due)
  \/ ToggleSendReadMessages

Next == Server \/ Handle \/ User

Spec == Init /\ [][Next]_vars

Fairness ==
  /\ WF_vars(Handle)
  /\ WF_vars(\E q \in histories.live : Serve(q))

FairSpec == Spec /\ Fairness

-----------------------------------------------------------------------------
(* Properties. *)

LiveOf(h, type) ==
  { q \in histories.live : h \in q.of /\ q.sent.type = type }

\* No page of a chat is under way together with a deletion of its messages:
\* what the page brings back could be what was just deleted.
NoPageWithDelete ==
  \A h \in Chats : LiveOf(h, "Delete") # {} => LiveOf(h, "History") = {}

\* The two assertions of finishSentRequest(): an entry that is to be asked for
\* again is in _dialogRequests and not in _dialogRequestsPending.
EntryAsserts ==
  \A h \in Chats : histories.state[h].postponedRequestEntry =>
    h \in histories.asked /\ h \notin histories.pending

\* The assertion of its "finished", when an answer is about to be handled: no
\* read ends above the last one sent.
FinishedAssert ==
  inbox # <<>> /\ Head(inbox).kind = "answer" =>
    \A h \in Head(inbox).of, q \in histories.live :
      /\ IsAnswer(Head(inbox), q)
      /\ q.sent.type = "ReadInbox" /\ q.sent.finishes
      => LET s == histories.state[h]
         IN s.sentReadTill # 0 => s.sentReadTill >= q.sent.till

\* "Send read messages" was not touched: nothing under way is forgotten by it.
Untoggled == spent.toggles = 0

\* Until the switch is touched the assertion holds.
ReadsInOrder == Untoggled => FinishedAssert

\* A read that is to be sent waits for a timer that runs; one that was sent
\* waits for its answer, or for the entry asked for after it.
ReadsWatched ==
  \A h \in Chats : LET s == histories.state[h] IN
    /\ s.willReadTill # 0 => Waits(histories, h) /\ histories.timer # "off"
    /\ s.sentReadTill # 0 =>
         \/ \E q \in LiveOf(h, "ReadInbox") : q.sent.till = s.sentReadTill
         \/ /\ s.sentReadDone
            /\ \/ h \in histories.pending \cup histories.asked
               \/ \E e \in applying : e.chat = h

\* What the chat shows as read is read for the server, or will be told to it,
\* or was refused by it - or is hidden by the switch.
ReadTold == Untoggled =>
  \A h \in Chats : LET s == histories.state[h] IN
    \/ chat[h].read <= Max2(server[h].read, refused[h])
    \/ chat[h].read <= s.willReadTill
    \/ \E q \in LiveOf(h, "ReadInbox") : chat[h].read <= q.sent.till

\* Nothing about the chat is under way.
Quiet(h) ==
  /\ \A i \in DOMAIN inbox : inbox[i].kind # "answer" => inbox[i].chat # h
  /\ applying = {}
  /\ LiveOf(h, "ReadInbox") \cup LiveOf(h, "Entries") = {}
  /\ h \notin histories.pending \cup histories.asked
  /\ histories.state[h].willReadTill = 0
  /\ refused[h] = 0

\* Then the chat shows what is unread for the server, until the switch hides
\* reads from it.
CountRight == Untoggled =>
  \A h \in Chats : Quiet(h) =>
    /\ chat[h].read = server[h].read
    /\ h \notin stale =>
         chat[h].unread = server[h].top - server[h].read

\* The read requests of the user that are out.
Reads == { q \in histories.live :
             q.sent.type = "ReadInbox" /\ q.sent.finishes }

\* With "send read messages" off no read of the user goes to the server.
ReadsHidden ==
  [][~histories.sendReadMessages => Reads' \subseteq Reads]_histories

\* A postponed page is sent in the end.
PageComes == \A h \in Chats :
  histories.state[h].postponed # {} ~> histories.state[h].postponed = {}

\* The dialog entry of the chat is asked for, or is about to be.
Wanted(h) == h \in histories.pending \cup histories.asked

\* An entry that was asked for comes in the end, or is refused.
EntryComes == \A h \in Chats : Wanted(h) ~> ~Wanted(h)

\* A read of the chat waits to be sent, or is out.
Reading(h) == histories.state[h].willReadTill # 0
                \/ histories.state[h].sentReadTill # 0

\* A read that was taken is sent and answered in the end.
ReadComes == \A h \in Chats : Reading(h) ~> ~Reading(h)
=============================================================================
