----------------------------- MODULE MtpSession -----------------------------
(***************************************************************************)
(* One session of the MTProto instance (mtproto/session.cpp,               *)
(* mtproto/session_private.cpp) with what mtproto/mtp_instance.cpp keeps   *)
(* of its requests.                                                        *)
(*                                                                         *)
(* Two threads share two maps under two locks.  The main thread queues     *)
(* requests in toSend, cancels them in both maps and hands the answers to  *)
(* the callbacks.  The session's thread moves requests from toSend to      *)
(* haveSent when it sends them and back when they must be sent again, and  *)
(* takes them out when they are answered.  A step is what a thread does    *)
(* under its locks: between two of them the other one may run.             *)
(*                                                                         *)
(* A map from message ids to requests is a set of pairs <<id, request>>.   *)
(* Times, sizes, keys, salts' values and the service messages (pings, acks *)
(* of the client, state requests) are left out.                            *)
(***************************************************************************)
EXTENDS Integers, FiniteSets, FiniteSetsExt

CONSTANTS Requests,    \* request ids: positive, a later request has a larger one
          IdsBuffer,   \* kIdsBufferSize
          MaxEvents    \* bound: requests made, and what the network and the
                       \* server do wrong, together

ASSUME MtpSessionAssumption ==
  /\ Requests \subseteq Nat \ {0} /\ IsFiniteSet(Requests)
  /\ IdsBuffer \in Nat \ {0} /\ MaxEvents \in Nat

VARIABLES
  (* main thread *)
  told,        \* history: what became of each request for its caller
  parser,      \* _parserMap: requests with a callback
  delayed,     \* _delayedRequests
  main,        \* what the main thread is in the middle of
  (* shared: SessionData, and the requests themselves *)
  toSend, haveSent,
  msgId,       \* request -> the message id written in it, 0 if none
  forced,      \* requests with forceSendInContainer
  received,    \* _receivedMessages: answers for the main thread
  wake,        \* a tryToSend() is queued, or a timer that queues one runs
  (* the session's thread: SessionPrivate *)
  state,       \* "none": stopped; "off", "connecting", "connected"
  salt,        \* _sessionSalt is known
  binding,     \* _keyCreator: the new key is not bound yet
  started,     \* _sessionMarkedAsStarted
  lastId,      \* the last message id made
  resending, acked, containers,
  todo,        \* ids resend() is still to be called for
  hold,        \* what resend() took out of haveSent and has not queued yet
  sending,     \* the request tryToSend() took out of toSend, 0 if none
  (* server and network *)
  wire,        \* <<id, request>> sent in this session and not answered yet
  fresh,       \* the server has yet to tell of the new session it made
  troubles,
  (* history *)
  slipped,     \* requests dropped while somebody waited for their answer
  rejected     \* requests that got the client's own PROTOCOL_ERROR

mainVars == <<told, parser, delayed, main>>
dataVars == <<toSend, haveSent, msgId, forced, received, wake>>
linkVars == <<state, salt, binding, started>>
mapVars  == <<lastId, resending, acked, containers>>
workVars == <<todo, hold, sending>>
farVars  == <<wire, fresh, troubles>>
pastVars == <<slipped, rejected>>
vars == <<mainVars, dataVars, linkVars, mapVars, workVars, farVars, pastVars>>

Ids(map) == { p[1] : p \in map }
Owners(map) == { p[2] : p \in map }

Events == troubles + Cardinality({ r \in Requests : told[r] # "new" })

Free == [at |-> "free", r |-> 0, id |-> 0]

Init ==
  /\ told = [r \in Requests |-> "new"] /\ parser = {} /\ delayed = {} /\ main = Free
  /\ toSend = {} /\ haveSent = {} /\ msgId = [r \in Requests |-> 0]
  /\ forced = {} /\ received = {} /\ wake = FALSE
  /\ state = "off" /\ salt = FALSE /\ binding = FALSE /\ started = FALSE
  /\ lastId = 0 /\ resending = {} /\ acked = {} /\ containers = {}
  /\ todo = {} /\ hold = {} /\ sending = 0
  /\ wire = {} /\ fresh = TRUE /\ troubles = 0
  /\ slipped = {} /\ rejected = {}

-----------------------------------------------------------------------------
(* The main thread. *)

SendPrepared(r) ==
  /\ toSend' = toSend \cup {r}
  /\ msgId' = [msgId EXCEPT ![r] = 0]
  /\ wake' = TRUE
  /\ UNCHANGED <<haveSent, forced, received>>

\* Request ids are given in order.
SendRequest(r) ==
  /\ main = Free /\ told[r] = "new"
  /\ \A q \in Requests : q < r => told[q] # "new"
  /\ Events < MaxEvents
  /\ told' = [told EXCEPT ![r] = "asked"]
  /\ parser' = parser \cup {r}
  /\ SendPrepared(r)
  /\ UNCHANGED <<delayed, main, linkVars, mapVars, workVars, farVars, pastVars>>

\* tryToReceive(), processCallback(): the callback is out of its map until
\* the answer is dealt with.
TakeAnswer(a) ==
  /\ main = Free
  /\ received' = received \ {a}
  /\ IF a.r \in parser
       THEN /\ parser' = parser \ {a.r}
            /\ main' = [Free EXCEPT !.at = a.kind, !.r = a.r]
            /\ UNCHANGED delayed
       ELSE /\ delayed' = delayed \ {a.r}
            /\ UNCHANGED <<parser, main>>
  /\ UNCHANGED <<told, toSend, haveSent, msgId, forced, wake,
                 linkVars, mapVars, workVars, farVars, pastVars>>

\* The callback gets the result.
TellResult ==
  /\ main.at = "result"
  /\ told' = [told EXCEPT ![main.r] = "answered"]
  /\ delayed' = delayed \ {main.r}
  /\ main' = Free
  /\ UNCHANGED <<parser, dataVars, linkVars, mapVars, workVars, farVars, pastVars>>

\* onErrorDefault(): an error 500 or a flood wait is tried again later ...
DelayRequest ==
  /\ main.at = "retry"
  /\ delayed' = delayed \cup {main.r}
  /\ parser' = parser \cup {main.r}
  /\ main' = Free
  /\ UNCHANGED <<told, dataVars, linkVars, mapVars, workVars, farVars, pastVars>>

\* ... a connection that is not inited, at once: the callback is put back after.
SendAgain ==
  /\ main.at = "again"
  /\ SendPrepared(main.r)
  /\ main' = [main EXCEPT !.at = "restore"]
  /\ UNCHANGED <<told, parser, delayed, linkVars, mapVars, workVars, farVars, pastVars>>

RestoreCallback ==
  /\ main.at = "restore"
  /\ parser' = parser \cup {main.r}
  /\ main' = Free
  /\ UNCHANGED <<told, delayed, dataVars, linkVars, mapVars, workVars, farVars, pastVars>>

CheckDelayed(r) ==
  /\ main = Free /\ r \in delayed
  /\ delayed' = delayed \ {r}
  /\ SendPrepared(r)
  /\ UNCHANGED <<told, parser, main, linkVars, mapVars, workVars, farVars, pastVars>>

\* cancel(): the message id is read, then each map is locked in its turn.
Cancel(r) ==
  /\ main = Free /\ told[r] = "asked"
  /\ told' = [told EXCEPT ![r] = "cancelled"]
  /\ delayed' = delayed \ {r}
  /\ main' = [at |-> "toSend", r |-> r, id |-> msgId[r]]
  /\ UNCHANGED <<parser, dataVars, linkVars, mapVars, workVars, farVars, pastVars>>

CancelToSend ==
  /\ main.at = "toSend"
  /\ toSend' = toSend \ {main.r}
  /\ main' = [main EXCEPT !.at = "haveSent"]
  /\ UNCHANGED <<told, parser, delayed, haveSent, msgId, forced, received, wake,
                 linkVars, mapVars, workVars, farVars, pastVars>>

CancelHaveSent ==
  /\ main.at = "haveSent"
  /\ haveSent' = { p \in haveSent : p[1] # main.id }
  /\ main' = [main EXCEPT !.at = "parser"]
  /\ UNCHANGED <<told, parser, delayed, toSend, msgId, forced, received, wake,
                 linkVars, mapVars, workVars, farVars, pastVars>>

CancelParser ==
  /\ main.at = "parser"
  /\ parser' = parser \ {main.r}
  /\ main' = Free
  /\ UNCHANGED <<told, delayed, dataVars, linkVars, mapVars, workVars, farVars, pastVars>>

-----------------------------------------------------------------------------
(* The session's thread sends. *)

\* In the middle of nothing: the next event of the thread can come.
Idle == todo = {} /\ hold = {} /\ sending = 0

\* "sendAll"
CanSend == state = "connected" /\ ~binding

\* tryToSend() with nothing to send, or no way to: the requests stay queued.
TryToSendNothing ==
  /\ wake /\ Idle /\ state # "none"
  /\ ~CanSend \/ toSend = {}
  /\ wake' = FALSE
  /\ started' = (started \/ CanSend)
  /\ UNCHANGED <<mainVars, toSend, haveSent, msgId, forced, received,
                 state, salt, binding, mapVars, workVars, farVars, pastVars>>

\* needToResumeAndSend() of a stopped session: a new SessionPrivate.
Resume ==
  /\ wake /\ state = "none"
  /\ state' = "off" /\ wake' = FALSE
  /\ UNCHANGED <<mainVars, toSend, haveSent, msgId, forced, received, salt, binding,
                 started, mapVars, workVars, farVars, pastVars>>

\* One request and no service message: it is out of toSend before it is in
\* haveSent.  It was never sent yet: what is sent again goes in a container.
TakeAlone ==
  /\ wake /\ Idle /\ CanSend /\ toSend # {}
  /\ LET r == Min(toSend)
     IN /\ r \notin forced
        /\ toSend' = toSend \ {r}
        /\ sending' = r
        /\ wake' = (toSend # {r})
  /\ started' = TRUE
  /\ UNCHANGED <<mainVars, haveSent, msgId, forced, received, state, salt, binding,
                 mapVars, todo, hold, farVars, pastVars>>

SendAlone ==
  /\ sending # 0
  /\ lastId' = lastId + 1
  /\ msgId' = [msgId EXCEPT ![sending] = lastId + 1]
  /\ haveSent' = haveSent \cup {<<lastId + 1, sending>>}
  /\ wire' = wire \cup {<<lastId + 1, sending>>}
  /\ sending' = 0
  /\ UNCHANGED <<mainVars, toSend, forced, received, wake, linkVars,
                 resending, acked, containers, todo, hold, fresh, troubles, pastVars>>

\* replaceMsgId() for every pair of a map.
Renamed(map, new) ==
  { << IF p[1] = msgId[p[2]] THEN new[p[2]] ELSE p[1], p[2] >> : p \in map }

\* The first requests of toSend go in a container, under both locks.  In a
\* session that only starts, those that have a message id get another one.
SendContainer(batch) ==
  LET renewed == { r \in batch : msgId[r] = 0 \/ ~started }
      new == [ r \in Requests |->
                 IF r \in renewed
                   THEN lastId + Cardinality({ q \in renewed : q <= r })
                   ELSE msgId[r] ]
      sent == { <<new[r], r>> : r \in batch }
      old  == { msgId[r] : r \in renewed }
      newOf(id) == IF id \in old THEN new[CHOOSE r \in renewed : msgId[r] = id] ELSE id
  IN /\ wake /\ Idle /\ CanSend /\ batch # {}
     /\ \A r \in batch, q \in toSend \ batch : r < q
     /\ toSend' = toSend \ batch
     /\ wake' = (toSend # batch)
     /\ started' = TRUE
     /\ msgId' = new
     /\ lastId' = lastId + Cardinality(renewed) + 1
     /\ resending' = { p \in resending : \A r \in batch : msgId[r] # p[1] }
     /\ acked' = Renamed(acked, new)
     /\ haveSent' = Renamed(haveSent, new) \cup sent
     /\ containers' = { <<c[1], { newOf(id) : id \in c[2] }>> : c \in containers }
                        \cup {<<lastId + Cardinality(renewed) + 1, Ids(sent)>>}
     /\ wire' = wire \cup sent
     /\ UNCHANGED <<mainVars, forced, received, state, salt, binding,
                    workVars, fresh, troubles, pastVars>>

TryToSend ==
  \/ TryToSendNothing
  \/ Resume
  \/ TakeAlone
  \/ \E batch \in SUBSET toSend : SendContainer(batch)

\* resend() of the next id: nothing is done for one that is not there.
ResendNext ==
  /\ todo # {} /\ hold = {}
  /\ LET id == Min(todo)
     IN /\ todo' = todo \ {id}
        /\ hold' = { p \in haveSent : p[1] = id }
        /\ wake' = (wake \/ (todo' = {} /\ hold' = {}))
  /\ haveSent' = haveSent \ hold'
  /\ UNCHANGED <<mainVars, toSend, msgId, forced, received, linkVars, mapVars,
                 sending, farVars, pastVars>>

\* The end of resend(), under the other lock, and of resendAll().
Place ==
  /\ hold # {}
  /\ toSend' = toSend \cup Owners(hold)
  /\ forced' = forced \cup Owners(hold)
  /\ resending' = resending \cup hold
  /\ hold' = {}
  /\ wake' = (wake \/ todo = {})
  /\ UNCHANGED <<mainVars, haveSent, msgId, received, linkVars, lastId, acked,
                 containers, todo, sending, farVars, pastVars>>

ResendAll ==
  /\ hold' = haveSent /\ haveSent' = {}
  /\ wake' = TRUE
  /\ UNCHANGED <<toSend, msgId, forced, received, todo, sending>>

-----------------------------------------------------------------------------
(* The connection. *)

Trouble == Events < MaxEvents /\ troubles' = troubles + 1

\* mistake: what was sent over the broken connection is not sent again
ConnectOnly ==
  /\ state = "off" /\ Idle
  /\ state' = IF salt THEN "connected" ELSE "connecting"
  /\ wake' = TRUE
  /\ UNCHANGED <<mainVars, toSend, haveSent, msgId, forced, received, workVars,
                 salt, binding, started, mapVars, farVars, pastVars>>

\* authKeyChecked(): with no salt yet only a ping is sent.
Connect ==
  /\ state = "off" /\ Idle
  /\ IF salt
       THEN state' = "connected" /\ ResendAll
       ELSE /\ state' = "connecting" /\ wake' = TRUE
            /\ UNCHANGED <<toSend, haveSent, msgId, forced, received, workVars>>
  /\ UNCHANGED <<mainVars, salt, binding, started, mapVars, farVars, pastVars>>

\* The answer to the ping brings the salt.
SaltComes ==
  /\ state = "connecting" /\ Idle
  /\ state' = "connected" /\ salt' = TRUE
  /\ ResendAll
  /\ UNCHANGED <<mainVars, binding, started, mapVars, farVars, pastVars>>

\* mistake: nothing is sent when the key is bound
KeyBoundQuietly ==
  /\ state = "connected" /\ Idle /\ binding
  /\ binding' = FALSE
  /\ UNCHANGED <<mainVars, dataVars, state, salt, started, mapVars, workVars,
                 farVars, pastVars>>

\* handleBindResponse()
KeyBound ==
  /\ state = "connected" /\ Idle /\ binding
  /\ binding' = FALSE /\ wake' = TRUE
  /\ UNCHANGED <<mainVars, toSend, haveSent, msgId, forced, received, state, salt,
                 started, mapVars, workVars, farVars, pastVars>>

\* doDisconnect(): what the server has not got by then is lost.
Break ==
  /\ state \in {"connecting", "connected"} /\ Idle /\ Trouble
  /\ state' = "off"
  /\ wire' \in SUBSET wire
  /\ UNCHANGED <<mainVars, dataVars, salt, binding, started, mapVars, workVars,
                 fresh, pastVars>>

\* changeSessionId(): after resetSession(), and with another key.
ChangeSession ==
  /\ started' = FALSE
  /\ wire' = {} /\ fresh' = TRUE

ResetSession ==
  /\ state = "connected" /\ Idle /\ Trouble
  /\ state' = "off"
  /\ ChangeSession
  /\ UNCHANGED <<mainVars, dataVars, salt, binding, mapVars, workVars, pastVars>>

\* destroyTemporaryKey(): the key made instead comes with a salt.
DestroyKey ==
  /\ state = "connected" /\ Idle /\ Trouble
  /\ state' = "off" /\ binding' = TRUE /\ salt' = TRUE
  /\ ChangeSession
  /\ UNCHANGED <<mainVars, dataVars, mapVars, workVars, pastVars>>

\* Session::stop(), when its user waits for no answer: SessionPrivate and its
\* maps are gone, the shared ones stay.
Stop ==
  /\ main = Free /\ parser = {} /\ state # "none" /\ Idle /\ Trouble
  /\ state' = "none" /\ salt' = FALSE /\ binding' = FALSE
  /\ ChangeSession
  /\ resending' = {} /\ acked' = {} /\ containers' = {}
  /\ UNCHANGED <<mainVars, dataVars, lastId, workVars, pastVars>>

-----------------------------------------------------------------------------
(* What the server sends, handled by handleOneReceived(). *)

Heard == state = "connected" /\ ~binding /\ Idle /\ ~fresh

\* The newest IdsBuffer of the ids.
Trim(map) ==
  { p \in map : Cardinality({ q \in map : q[1] > p[1] }) < IdsBuffer }

\* mistake: an ack ends the wait of a request that needs a response
RequestsAckedAll(ids, byResponse) ==
  LET done    == { p \in haveSent : p[1] \in ids }
      again   == { p \in resending : p[1] \in ids /\ p[1] \notin Ids(haveSent) }
      dropped == { p \in again : p[2] \in toSend }
  IN /\ haveSent' = haveSent \ done
     /\ resending' = resending \ again
     /\ toSend' = toSend \ Owners(dropped)
     /\ acked' = Trim(acked \cup done \cup dropped)

\* mistake: a request queued to be sent again stays queued when it is answered
RequestsAckedSent(ids, byResponse) ==
  LET done == { p \in haveSent : p[1] \in ids /\ (byResponse \/ p[2] \notin parser) }
  IN /\ haveSent' = haveSent \ done
     /\ acked' = Trim(acked \cup done)
     /\ UNCHANGED <<resending, toSend>>

\* requestsAcked(): an answer, or no callback that needs one, ends the wait.
RequestsAcked(ids, byResponse) ==
  LET ends(p) == p[1] \in ids /\ (byResponse \/ p[2] \notin parser)
      done    == { p \in haveSent : ends(p) }
      again   == { p \in resending : ends(p) /\ p[1] \notin Ids(haveSent) }
      dropped == { p \in again : p[2] \in toSend }
  IN /\ haveSent' = haveSent \ done
     /\ resending' = resending \ again
     /\ toSend' = toSend \ Owners(dropped)
     /\ acked' = Trim(acked \cup done \cup dropped)

\* wasSent()
WasSent(p) == p \in resending' \cup acked' \cup haveSent'

\* rpc_result for message p: a result, or an error the instance deals with.
Answer(p, kind) ==
  /\ Heard /\ p \in wire
  /\ IF kind = "result" THEN UNCHANGED troubles ELSE Trouble
  /\ wire' = wire \ {p}
  /\ RequestsAcked({p[1]}, TRUE)
  /\ received' = IF WasSent(p) THEN received \cup {[r |-> p[2], kind |-> kind]}
                               ELSE received
  /\ slipped' = IF WasSent(p) \/ told[p[2]] # "asked" THEN slipped ELSE slipped \cup {p[2]}
  /\ UNCHANGED <<mainVars, msgId, forced, wake, linkVars, lastId, containers,
                 workVars, fresh, rejected>>

\* msgs_ack, msg_detailed_info, or a state "received": of a message or of a
\* container with all that is in it.
Ack(id) ==
  LET inner == UNION { c[2] : c \in { d \in containers : d[1] = id } }
      ids   == IF id \in Ids(containers) THEN inner ELSE {id}
  IN /\ Heard /\ ids \subseteq Ids(wire)
     /\ containers' = { c \in containers : c[1] # id }
     /\ RequestsAcked(ids, FALSE)
     /\ slipped' = slipped \cup
          { r \in Owners(haveSent \ haveSent') \cup (toSend \ toSend') :
              told[r] = "asked" /\ main.r = r }
     /\ UNCHANGED <<mainVars, msgId, forced, received, wake, linkVars, lastId,
                    workVars, farVars, rejected>>

\* resend() of a message or a container the server did not take: bad_server_salt,
\* bad_msg_notification 16, 17 or 64, or a state "not received".
Refuse(id) ==
  LET inner == UNION { c[2] : c \in { d \in containers : d[1] = id } }
      ids   == IF id \in Ids(containers) THEN inner ELSE {id}
  IN /\ Heard /\ ids # {} /\ ids \subseteq Ids(wire) /\ Trouble
     /\ wire' = { p \in wire : p[1] \notin ids }
     /\ containers' = { c \in containers : c[1] # id }
     /\ todo' = ids
     /\ UNCHANGED <<mainVars, dataVars, linkVars, lastId, resending, acked,
                    hold, sending, fresh, pastVars>>

\* Any other bad_msg_notification: the client makes an error 500 for itself.
Reject(p) ==
  /\ Heard /\ p \in wire /\ Trouble
  /\ wire' = wire \ {p}
  /\ p \in resending \cup acked \cup haveSent
  /\ received' = received \cup {[r |-> p[2], kind |-> "retry"]}
  /\ rejected' = rejected \cup {p[2]}
  /\ UNCHANGED <<mainVars, toSend, haveSent, msgId, forced, wake, linkVars, mapVars,
                 workVars, fresh, slipped>>

\* The server forgets the session and what it got of it; later messages are
\* still on their way.
Forget ==
  /\ Heard /\ Trouble
  /\ fresh' = TRUE
  /\ \E from \in Ids(wire) \cup {lastId + 1} : wire' = { p \in wire : p[1] >= from }
  /\ UNCHANGED <<mainVars, dataVars, linkVars, mapVars, workVars, pastVars>>

\* new_session_created, after the first message it got, be it a ping.
NewSession ==
  LET first == IF wire = {} THEN lastId + 1 ELSE Min(Ids(wire))
  IN /\ state = "connected" /\ ~binding /\ Idle /\ fresh
     /\ fresh' = FALSE
     /\ todo' = { id \in Ids(haveSent) : id < first }
     /\ UNCHANGED <<mainVars, dataVars, linkVars, mapVars, hold, sending,
                    wire, troubles, pastVars>>

\* clearOldContainers(): what went in an old container is sent again.
ClearOld(c) ==
  /\ Idle /\ state # "none" /\ Trouble
  /\ containers' = containers \ {c}
  /\ todo' = c[2]
  /\ UNCHANGED <<mainVars, dataVars, linkVars, lastId, resending, acked,
                 hold, sending, wire, fresh, pastVars>>

-----------------------------------------------------------------------------
Answers == \E p \in wire, kind \in {"result", "retry", "again"} : Answer(p, kind)

Server ==
  \/ Answers
  \/ \E id \in Ids(wire) \cup Ids(containers) : Ack(id) \/ Refuse(id)
  \/ \E p \in wire : Reject(p)
  \/ Forget
  \/ NewSession

Link ==
  \/ Connect
  \/ SaltComes
  \/ KeyBound
  \/ Break
  \/ ResetSession
  \/ DestroyKey
  \/ Stop

\* The main thread goes on with what it is in the middle of.
MainGoesOn ==
  \/ \E a \in received : TakeAnswer(a)
  \/ TellResult
  \/ DelayRequest
  \/ SendAgain
  \/ RestoreCallback
  \/ CancelToSend
  \/ CancelHaveSent
  \/ CancelParser

ThreadGoesOn ==
  \/ SendAlone
  \/ ResendNext
  \/ Place

Next ==
  \/ \E r \in Requests : SendRequest(r) \/ Cancel(r) \/ CheckDelayed(r)
  \/ MainGoesOn
  \/ ThreadGoesOn
  \/ TryToSend
  \/ Link
  \/ Server
  \/ \E c \in containers : ClearOld(c)

Spec == Init /\ [][Next]_vars

\* Both threads go on; a connection is made again, a key is bound and the
\* server answers in the end: each of them is retried without end.
Fairness ==
  /\ WF_vars(MainGoesOn) /\ WF_vars(ThreadGoesOn) /\ WF_vars(TryToSend)
  /\ WF_vars(Connect) /\ WF_vars(SaltComes) /\ WF_vars(KeyBound) /\ WF_vars(NewSession)
  /\ \A r \in Requests :
       /\ WF_vars(CheckDelayed(r))
       /\ WF_vars(\E p \in wire : p[2] = r /\ Answer(p, "result"))

FairSpec == Spec /\ Fairness

-----------------------------------------------------------------------------
Asked(r) == told[r] = "asked"

\* Where a request can be found.
Kept ==
  toSend \cup Owners(haveSent \cup hold) \cup {sending, main.r}
    \cup { a.r : a \in received } \cup delayed

\* A request somebody waits for is never dropped between the maps: it is
\* queued, sent, between two locks, answered or put off (tryToSend(),
\* resend(), resendAll(), requestsAcked() of one thread, sendPrepared() and
\* cancel() of the other).
NoLostRequest == \A r \in Requests : Asked(r) => r \in Kept

\* The same, but for the two ways a request does slip: its answer finds the
\* id pushed out of _ackedIds, or an ack comes while its callback is out.
RequestKept == \A r \in Requests \ slipped : Asked(r) => r \in Kept

\* An answered request is in neither map, so nothing sends it a second time
\* (requestsAcked() after a resend() that is still queued), unless the
\* client answered it with its own PROTOCOL_ERROR before.
AnsweredGone ==
  \A r \in Requests \ rejected : told[r] = "answered" =>
    r \notin toSend \cup Owners(haveSent \cup hold) \cup {sending}

\* No wake-up is lost: a queued request that could be sent has a tryToSend()
\* coming, whatever was queued, resent, connected or bound in between.
SendWatched ==
  (state = "none" \/ CanSend) /\ (\E r \in toSend : Asked(r)) => wake \/ ~Idle

\* Every request is answered in the end, over broken connections, changed
\* sessions, refused messages and errors, unless it is cancelled or slips.
Answered ==
  \A r \in Requests : Asked(r) ~> (~Asked(r) \/ r \in slipped)
=============================================================================
