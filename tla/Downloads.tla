----------------------------- MODULE Downloads -----------------------------
(***************************************************************************)
(* Downloads by parts from one data center                                 *)
(* (storage/download_manager_mtproto.cpp): the sessions and what is asked  *)
(* for through each, the queue of tasks with their priorities, and the     *)
(* parts of a task, straight from the data center or from a CDN, where a   *)
(* part waits for its hash.  A task is the loader of a file                *)
(* (file_download_mtproto.cpp) or of a stream that a player reads          *)
(* (media_streaming_loader_mtproto.cpp).                                   *)
(*                                                                         *)
(* All runs on the main thread: a handler is one step, with the loop that  *)
(* fills the sessions.  Time is left out: an answer is slow, and the delay *)
(* before a new session is over, as it likes.  Amounts count parts.        *)
(***************************************************************************)
EXTENDS Integers, Sequences, SequencesExt, FiniteSets, FiniteSetsExt, TLC

CONSTANTS Files, Streams,     \* the tasks
          Parts,              \* parts of each
          Cdn,                \* tasks that the server sends to a CDN
          StartWaited,        \* kStartWaitedInSession
          MaxWaited,          \* kMaxWaitedInSession
          MaxSessions,        \* kMaxSessionsCount
          RetrySuccesses,     \* kRetryAddSessionSuccesses
          MaxRemoves,         \* kMaxTrackedSessionRemoves
          RemoveAfter,        \* kRemoveSessionAfterTimeouts
          MaxTroubles,        \* bound: slow answers, time-outs, refusals
          MaxByUser           \* bound: parts the player asks for, files asked for again

Tasks == Files \cup Streams

ASSUME DownloadsAssumption ==
  /\ IsFiniteSet(Tasks) /\ Files \cap Streams = {} /\ Cdn \subseteq Tasks
  /\ Parts \in [Tasks -> Nat \ {0}]
  /\ {StartWaited, MaxWaited, MaxSessions, RetrySuccesses, MaxRemoves, RemoveAfter}
       \subseteq Nat \ {0}
  /\ StartWaited <= MaxWaited /\ MaxSessions > 1

VARIABLES d,         \* the manager, its tasks and what the player waits for
          troubles,  \* troubles so far
          byUser     \* parts the player asked for, files asked for again

vars == <<d, troubles, byUser>>

Offsets(t) == 0..(Parts[t] - 1)

NewSession == [requested |-> 0, successes |-> 0, max |-> StartWaited]

\* RequestData of a task's request, by what is asked: a part, one from the CDN,
\* hashes, that the CDN is given the part.  "at": with the server, waiting for a
\* new file reference, or refused and kept.
Request(t, o, kind, s) ==
  [task |-> t, offset |-> o, kind |-> kind, session |-> s,
   amount |-> 0, old |-> FALSE, at |-> "server"]

NoTask ==
  [ next |-> 0,            \* _nextRequestOffset of a file
    loaded |-> {},         \* parts of a file that were fed
    wanted |-> {},         \* _requested of a stream: <<level, offset>>, 0 the
                           \* current level and those before it below
    priority |-> 0,        \* _priority of a stream
    waits |-> {},          \* the player: _loadingOffsets of the Reader
    unchecked |-> <<>>,    \* _cdnUncheckedParts: offset -> session
    hashes |-> {},         \* _cdnFileHashes
    cdn |-> FALSE,         \* _cdnDcId is set
    more |-> FALSE,        \* requestMoreCdnFileHashes() is posted
    lostRef |-> FALSE,     \* a reference is asked for a request that is gone
    astray |-> FALSE,      \* history: CDN left with parts unchecked
    state |-> "new" ]      \* "new", "on", or how it ended

Init ==
  /\ d = [ sessions |-> <<NewSession>>, total |-> 0, timeouts |-> 0,
           removes |-> 0, removeIndex |-> 1, removed |-> FALSE,
           kill |-> FALSE,     \* the time to kill the sessions is set
           queue |-> <<>>,
           sent |-> {},        \* _sentRequests of all tasks
           posted |-> <<>>,    \* posted sessionTimedOut()
           idle |-> FALSE,     \* history: room was made and not looked at
           broken |-> {},      \* history: assertions that failed
           task |-> [t \in Tasks |-> NoTask] ]
  /\ troubles = 0 /\ byUser = 0

\* The only member of S; TLC works it out once only.
The(S) == CHOOSE x \in S : TRUE

SentOf(m, t) == { r \in m.sent : r.task = t }

\* _requestByOffset
Asked(m, t) == { r.offset : r \in SentOf(m, t) }

Unchecked(m, t) == DOMAIN m.task[t].unchecked

\* haveSentRequests(), haveSentRequestForOffset()
HaveSent(m, t) == SentOf(m, t) # {} \/ Unchecked(m, t) # {}
HaveSentFor(m, t, o) == o \in Asked(m, t) \cup Unchecked(m, t)

-----------------------------------------------------------------------------
(* Amounts and the queue. *)

\* changeRequestedAmount() for a request through session s
AddRequested(m, s) ==
  IF s \notin DOMAIN m.sessions
  THEN [m EXCEPT !.broken = @ \cup {"no such session"}]
  ELSE [m EXCEPT !.sessions[s].requested = @ + 1, !.total = @ + 1, !.kill = FALSE]

\* changeRequestedAmount() for each of the requests R, which are over; the
\* sessions are to be killed when nothing is asked for through any.
RemoveRequested(m, R) ==
  LET known == { r \in R : r.session \in DOMAIN m.sessions }
      left == [s \in DOMAIN m.sessions |-> [m.sessions[s] EXCEPT
                 !.requested = @ - Cardinality({ r \in R : r.session = s })]]
  IN [m EXCEPT !.sessions = left, !.total = @ - Cardinality(known),
               !.kill = @ \/ (known # {} /\ \A s \in DOMAIN left : left[s].requested <= 0),
               !.broken = @ \cup (IF known = R THEN {} ELSE {"no such session"})]

\* The session with the least asked for; first of equals.
ChooseSession(m) ==
  Min({ s \in DOMAIN m.sessions : \A k \in DOMAIN m.sessions :
          m.sessions[s].requested <= m.sessions[k].requested })

\* The best session for one more part in trySendNextPart(), 0 if all are full.
BestSession(m) ==
  LET load(s) == IF m.sessions[s].requested < m.sessions[s].max
                 THEN m.sessions[s].requested ELSE MaxWaited
      best == Min({ s \in DOMAIN m.sessions :
                      \A k \in DOMAIN m.sessions : load(s) <= load(k) })
  IN IF m.sessions[best].requested < m.sessions[best].max THEN best ELSE 0

ReadyToRequest(m, t) ==
  IF t \in Files THEN m.task[t].next < Parts[t] ELSE m.task[t].wanted # {}

\* nextTask(): while something is asked for, a high priority keeps out others.
NextPlaces(m) ==
  LET first == m.queue[1].priority
  IN { k \in DOMAIN m.queue :
         /\ ReadyToRequest(m, m.queue[k].task)
         /\ m.total > 0 /\ first > 0 => m.queue[k].priority = first }

CanSend(m) == BestSession(m) # 0 /\ NextPlaces(m) # {}

\* placeSentRequest(): the amount is looked at when a part comes.
Place(m, r) ==
  LET amount == IF r.session \in DOMAIN m.sessions /\ r.kind \in {"part", "cdn"}
                THEN m.sessions[r.session].requested + 1 ELSE 0
  IN [AddRequested(m, r.session) EXCEPT
        !.broken = @ \cup (IF r.offset \in Asked(m, r.task) THEN {"asked twice"} ELSE {}),
        !.sent = @ \cup {[r EXCEPT !.amount = amount]}]

MakeRequest(m, t, o, s) ==
  Place(m, Request(t, o, IF m.task[t].cdn THEN "cdn" ELSE "part", s))

\* takeNextRequestOffset() of a stream: the highest level, then the first.
NextWanted(m, t) ==
  CHOOSE w \in m.task[t].wanted : \A v \in m.task[t].wanted :
    w[1] > v[1] \/ (w[1] = v[1] /\ w[2] <= v[2])

LoadPart(m, t, s) ==
  IF t \in Files
  THEN MakeRequest([m EXCEPT !.task[t].next = @ + 1], t, m.task[t].next, s)
  ELSE LET w == NextWanted(m, t)
       IN MakeRequest([m EXCEPT !.task[t].wanted = @ \ {w}], t, w[2], s)

SendNext(m) ==
  IF m.queue # <<>> /\ CanSend(m)
  THEN LoadPart(m, m.queue[Min(NextPlaces(m))].task, BestSession(m))
  ELSE m

\* The loop of checkSendNext(), in as many rounds as there are parts.
Rounds == Cardinality(UNION { {t} \X Offsets(t) : t \in Tasks })

CheckSendNext(m) ==
  LET after[n \in 0 .. Rounds] ==
        IF n = 0 THEN m ELSE The({ SendNext(v) : v \in {after[n - 1]} })
  IN [after[Rounds] EXCEPT !.idle = FALSE]

\* Place of the task in the queue, 0 if it is not there.
PlaceInQueue(m, t) ==
  Max({0} \cup { k \in DOMAIN m.queue : m.queue[k].task = t })

\* Queue::remove()
Unqueue(m, t) ==
  LET k == PlaceInQueue(m, t)
  IN IF k = 0 THEN m ELSE [m EXCEPT !.queue = RemoveAt(@, k)]

\* A task goes before those of its priority, or is moved there.
Enqueue(m, t, p) ==
  LET from == PlaceInQueue(m, t)
      to == Min({ k \in DOMAIN m.queue : m.queue[k].priority <= p }
                  \cup {Len(m.queue) + 1})
      at == IF from # 0 /\ to > from THEN to - 1 ELSE to
  IN CheckSendNext([Unqueue(m, t) EXCEPT
       !.queue = InsertAt(@, at, [task |-> t, priority |-> p])])

DequeueQuietly(m, t) ==  \* mistake: nobody looks whether others may be sent now
  Unqueue(m, t)

\* remove()
Dequeue(m, t) == CheckSendNext(Unqueue(m, t))

-----------------------------------------------------------------------------
(* A request ends; sessions come and go. *)

\* finishSentRequest() but for requestSucceeded(), for each of the requests R
Finish(m, R) ==
  RemoveRequested([m EXCEPT !.sent = @ \ R], R)

\* requestMoreCdnFileHashes()
RequestMore(m, t) ==
  IF Unchecked(m, t) = {} \/ \E r \in SentOf(m, t) : r.kind = "hashes"
  THEN m
  ELSE LET o == Min(Unchecked(m, t))
       IN Place(m, Request(t, o, "hashes", m.task[t].unchecked[o]))

\* cancelRequest(), for each of the requests R of the task: one for hashes is to
\* be made again.
CancelRequests(m, t, R) ==
  [Finish(m, R) EXCEPT
     !.task[t].more = @ \/ (Unchecked(m, t) # {} /\ \E r \in R : r.kind = "hashes"),
     !.task[t].lostRef = @ \/ \E r \in R : r.at = "reference"]

Through(m, t, s) == { r \in SentOf(m, t) : r.session = s }

RedirectNone(m, t, s) ==  \* mistake: what is cancelled is not asked for again
  CancelRequests(m, t, Through(m, t, s))

\* The request is made again through another session; one for hashes is
\* cancelled only, and posted.
MoveRequest(m, r) ==
  LET n == CancelRequests(m, r.task, {r})
  IN IF r.kind = "hashes" THEN [n EXCEPT !.idle = TRUE]
     ELSE MakeRequest(n, r.task, r.offset, ChooseSession(n))

\* All requests of the task through session s, one after the other.
MoveRequests(m, t, s) ==
  LET of == Through(m, t, s)
      move(v, r) == [m |-> MoveRequest(v.m, r), left |-> v.left \ {r}]
      after[n \in 0 .. Cardinality(of)] ==
        IF n = 0 THEN [m |-> m, left |-> of]
        ELSE The({ move(v, CHOOSE r \in v.left : TRUE) : v \in {after[n - 1]} })
  IN after[Cardinality(of)].m

RedirectSent(m, t, s) ==  \* mistake: parts not checked yet keep their session
  MoveRequests(m, t, s)

\* DownloadMtprotoTask::removeSession()
Redirect(m, t, s) ==
  MoveRequests(
    [m EXCEPT !.task[t].unchecked =
       [o \in DOMAIN @ |-> IF @[o] = s THEN ChooseSession(m) ELSE @[o]]], t, s)

Much == MaxWaited * MaxSessions

\* The tasks of the queue move their requests through session s to others.
RedirectAll(m, s) ==
  LET after[n \in 0 .. Len(m.queue)] ==
        IF n = 0 THEN m
        ELSE The({ Redirect(v, m.queue[n].task, s) : v \in {after[n - 1]} })
  IN after[Len(m.queue)]

\* The last session is removed.
RemoveSession(m) ==
  LET s == Len(m.sessions)
      shut == [m EXCEPT !.sessions[s].requested = @ + Much,
                        !.removes = IF m.removeIndex = s
                                    THEN Min({@ + 1, MaxRemoves}) ELSE 1,
                        !.removeIndex = s]
      gone(n) == [n EXCEPT
        !.broken = @ \cup (IF n.sessions[s].requested # Much
                           THEN {"left in a removed session"} ELSE {}),
        !.sessions = [k \in 1 .. s - 1 |-> @[k]], !.removed = TRUE,
        !.sent = { [r EXCEPT !.old = TRUE, !.amount = 0] : r \in @ }]
  IN The({ gone(n) : n \in {RedirectAll(shut, s)} })

NoSuccesses(m) ==
  [m EXCEPT !.sessions = [s \in DOMAIN @ |-> [@[s] EXCEPT !.successes = 0]]]

SessionTimedOut(m, s) ==
  LET n == NoSuccesses(m)
  IN CASE s \notin DOMAIN m.sessions  -> m
       [] s \in DOMAIN m.sessions /\ Len(m.sessions) = 1 -> n
       [] s \in DOMAIN m.sessions /\ Len(m.sessions) > 1
            /\ m.timeouts + 1 < RemoveAfter -> [n EXCEPT !.timeouts = @ + 1]
       [] OTHER -> RemoveSession([n EXCEPT !.timeouts = 0])

\* The session of a request may have more asked for, and one more success.
Grown(m, r) ==
  [m EXCEPT
     !.sessions[r.session].max =
        IF r.amount = @ THEN Min({@ + 1, MaxWaited}) ELSE @,
     !.sessions[r.session].successes = Min({@ + 1, RetrySuccesses * MaxRemoves})]

\* requestSucceeded(): "waited" if the delay for a new session is over.
RequestSucceeded(m, r, slow, waited) ==
  LET s == r.session
      mine == m.sessions[s]
      grown == Grown(m, r)
      enough == \A k \in DOMAIN grown.sessions :
        grown.sessions[k].successes >= (m.removes + 1) * RetrySuccesses
      start == NoSuccesses(grown)
  IN CASE s \notin DOMAIN m.sessions ->
            [m EXCEPT !.broken = @ \cup {"no such session"}]
       [] s \in DOMAIN m.sessions /\ (r.old \/ r.amount > mine.max) -> m
       [] s \in DOMAIN m.sessions /\ ~(r.old \/ r.amount > mine.max) ->
            CASE slow               -> [m EXCEPT !.posted = Append(@, s)]
              [] ~slow /\ ~enough   -> grown
              [] ~slow /\ enough /\ m.timeouts > 0 ->
                   [start EXCEPT !.timeouts = @ - 1]
              [] ~slow /\ enough /\ m.timeouts = 0 ->
                   IF Len(m.sessions) < MaxSessions /\ (m.removed => waited)
                   THEN [start EXCEPT !.sessions = Append(@, NewSession)]
                   ELSE start

Succeed(m, r, slow, waited) ==
  RequestSucceeded(Finish(m, {r}), r, slow, waited)

\* A file's loader is destroyed by its owner at once, in whatever way it ends.
End(m, t, how) ==
  Dequeue([CancelRequests(m, t, SentOf(m, t)) EXCEPT
             !.task[t] = [NoTask EXCEPT !.state = how,
                                        !.loaded = m.task[t].loaded]], t)

\* cancelOnFail(): the player of a stream is told, its requests stay.
CancelOnFail(m, t) ==
  IF t \in Files THEN End(m, t, "failed")
  ELSE [m EXCEPT !.task[t].state = "failed", !.task[t].waits = {}]

\* feedPart(), for each of the parts F
FeedParts(m, t, F) ==
  LET n == IF t \in Files THEN [m EXCEPT !.task[t].loaded = @ \cup F]
           ELSE [m EXCEPT !.task[t].waits = @ \ F]
  IN IF t \in Files /\ F # {} /\ ~HaveSent(m, t) /\ m.task[t].next >= Parts[t]
     THEN End(n, t, "done") ELSE n

\* The requests R of the task are made, one after the other.
MakeRequests(m, t, R) ==
  LET make(v, r) == [m |-> MakeRequest(v.m, t, r.offset, r.session),
                     left |-> v.left \ {r}]
      after[n \in 0 .. Cardinality(R)] ==
        IF n = 0 THEN [m |-> m, left |-> R]
        ELSE The({ make(v, CHOOSE r \in v.left : TRUE) : v \in {after[n - 1]} })
  IN after[Cardinality(R)].m

\* changeCDNParams(): all requests of the task are made again.
ChangeCdn(m, r, on) ==
  LET t == r.task
      mine == SentOf(m, t)
      away == [Finish(m, mine) EXCEPT
        !.task[t].cdn = on,
        !.task[t].lostRef = @ \/ \E q \in mine : q.at = "reference",
        !.task[t].astray = @ \/ (~on /\ Unchecked(m, t) # {})]
  IN MakeRequest(MakeRequests(away, t, mine), t, r.offset, r.session)

-----------------------------------------------------------------------------
(* Files. *)

Trouble == troubles < MaxTroubles /\ troubles' = troubles + 1
ByUser == byUser < MaxByUser /\ byUser' = byUser + 1

\* start(), startLoadingWithPartial(): "have" parts are in the cache.
Start(f, have) ==
  /\ d.task[f].state = "new"
  /\ d' = Enqueue([d EXCEPT !.task[f] = [@ EXCEPT !.state = "on", !.next = have,
                                                  !.loaded = 0..(have - 1)]], f, 0)
  /\ UNCHANGED <<troubles, byUser>>

\* The user asks for it again.
StartAgain(f) ==
  /\ d.task[f].state = "on"
  /\ ByUser
  /\ d' = Enqueue(d, f, 0)
  /\ UNCHANGED troubles

Cancel(f) ==
  /\ d.task[f].state = "on"
  /\ d' = End(d, f, "cancelled")
  /\ UNCHANGED <<troubles, byUser>>

-----------------------------------------------------------------------------
(* Streams.  The player's thread posts its calls to the loader. *)

\* setPriority()
SetPriority(m, s, p) ==
  LET n == [m EXCEPT !.task[s].priority = p]
  IN IF m.task[s].priority # p /\ HaveSent(m, s) THEN Enqueue(n, s, p) ELSE n

\* The player stops; what it has asked for stays with the loader.
StopStreaming(s) ==
  /\ d.task[s].priority = 1
  /\ d' = SetPriority([d EXCEPT !.task[s].waits = {}], s, 0)
  /\ UNCHANGED <<troubles, byUser>>

\* load() while the player plays (startStreaming()); "first" if it wants the
\* part before all others (resetPriorities()).
Load(s, o, first) ==
  LET x == d.task[s]
      lower == IF first THEN { <<w[1] - 1, w[2]>> : w \in x.wanted } ELSE x.wanted
      m == SetPriority([d EXCEPT !.task[s].waits = @ \cup {o},
                                 !.task[s].wanted = lower], s, 1)
      added == [m EXCEPT !.task[s].wanted = { w \in @ : w[2] # o } \cup {<<0, o>>}]
  IN /\ x.state = "new" /\ o \notin x.waits
     /\ ByUser
     /\ d' = IF HaveSentFor(m, s, o) \/ <<0, o>> \in m.task[s].wanted
             THEN m ELSE Enqueue(added, s, 1)
     /\ UNCHANGED troubles

\* cancel(): nothing is sent in its place when nothing more is wanted.
CancelLoad(s, o) ==
  LET x == d.task[s]
      m == [d EXCEPT !.task[s].waits = @ \ {o}]
      cut == [CancelRequests(m, s, { r \in SentOf(m, s) : r.offset = o }) EXCEPT !.task[s].unchecked =
                         [p \in DOMAIN @ \ {o} |-> @[p]]]
  IN /\ x.state = "new" /\ o \in x.waits
     /\ d' = IF ~HaveSentFor(d, s, o)
             THEN [m EXCEPT !.task[s].wanted = { w \in @ : w[2] # o }]
             ELSE IF x.wanted # {} THEN Enqueue(cut, s, 1)
             ELSE [cut EXCEPT !.idle = TRUE]
     /\ UNCHANGED <<troubles, byUser>>

\* tryRemoveFromQueue()
Leave(s) ==
  /\ PlaceInQueue(d, s) # 0
  /\ d.task[s].wanted = {} /\ ~HaveSent(d, s)
  /\ d' = Dequeue(d, s)
  /\ UNCHANGED <<troubles, byUser>>

Destroy(s) ==
  /\ d.task[s].state \in {"new", "failed"} /\ d.task[s].priority = 0
  /\ d' = End(d, s, "gone")
  /\ UNCHANGED <<troubles, byUser>>

-----------------------------------------------------------------------------
(* Answers. *)

\* A request is done, at some speed; Op is what its handler does with the rest.
Done(r, Op(_)) ==
  \E slow \in BOOLEAN, waited \in (IF d.removed THEN BOOLEAN ELSE {TRUE}) :
    /\ IF slow THEN Trouble ELSE UNCHANGED troubles
    /\ d' = The({ CheckSendNext(Op(m)) : m \in {Succeed(d, r, slow, waited)} })
    /\ UNCHANGED byUser

\* normalPartLoaded()
PartCame(r) ==
  /\ r.kind = "part"
  /\ Done(r, LAMBDA m : FeedParts(m, r.task, {r.offset}))

AddHashes(m, t, H) == [m EXCEPT !.task[t].hashes = @ \cup H]

\* switchToCDN()
SwitchToCdn(r, H) ==
  /\ r.kind = "part" /\ r.task \in Cdn
  /\ Done(r, LAMBDA m : ChangeCdn(AddHashes(m, r.task, H), r, TRUE))

\* Part o, which came through session s, waits for its hash.
WithUnchecked(m, t, o, s) ==
  [m EXCEPT !.task[t].unchecked =
     [p \in DOMAIN @ \cup {o} |-> IF p \in DOMAIN @ THEN @[p] ELSE s]]

\* cdnPartLoaded()
CdnPartCame(r) ==
  /\ r.kind = "cdn"
  /\ Done(r, LAMBDA m :
       IF r.offset \in m.task[r.task].hashes THEN FeedParts(m, r.task, {r.offset})
       ELSE RequestMore(WithUnchecked(m, r.task, r.offset, r.session), r.task))

CdnPartWrong(r) ==
  /\ r.kind = "cdn" /\ r.offset \in d.task[r.task].hashes
  /\ Trouble
  /\ d' = CheckSendNext(CancelOnFail(Succeed(d, r, FALSE, FALSE), r.task))
  /\ UNCHANGED byUser

ReuploadNeeded(r) ==
  /\ r.kind = "cdn"
  /\ Trouble
  /\ d' = Place(Finish(d, {r}), Request(r.task, r.offset, "reupload", r.session))
  /\ UNCHANGED byUser

ReuploadDone(r, H) ==
  /\ r.kind = "reupload"
  /\ d' = MakeRequest(AddHashes(Finish(d, {r}), r.task, H), r.task, r.offset, r.session)
  /\ UNCHANGED <<troubles, byUser>>

\* getCdnFileHashesDone(): nobody looks whether there is room for a part now,
\* unless the task ends.  Parts are checked in their order, up to one that is
\* not what its hash says ("wrong", the number of parts if there is none).
HashesCame(r, H, wrong) ==
  LET t == r.task
      m == [AddHashes(Finish(d, {r}), t, H) EXCEPT !.idle = TRUE]
      known == Unchecked(m, t) \cap m.task[t].hashes
      good == { o \in known : o < wrong }
      failed == wrong \in known \/ good = {}
      checked == [m EXCEPT !.task[t].unchecked = [o \in DOMAIN @ \ good |-> @[o]]]
      fed == FeedParts(checked, t, good)
  IN /\ r.kind = "hashes"
     /\ wrong \in known \cup {Parts[t]}
     /\ IF failed THEN Trouble ELSE UNCHANGED troubles
     /\ d' = IF failed THEN CancelOnFail(fed, t) ELSE RequestMore(fed, t)
     /\ UNCHANGED byUser

\* cdnPartFailed(): back to the data center.
TokenRefused(r) ==
  /\ r.kind # "part"
  /\ Trouble
  /\ d' = ChangeCdn(Finish(d, {r}), r, FALSE)
  /\ UNCHANGED byUser

\* The request is kept, with its amount, until its task is destroyed.
Kept(r) ==
  CancelOnFail([d EXCEPT !.sent = (@ \ {r}) \cup {[r EXCEPT !.at = "failed"]}],
               r.task)

\* partFailed()
Refused(r) ==
  /\ Trouble
  /\ d' = Kept(r)
  /\ UNCHANGED byUser

\* normalPartFailed(): the file reference is out of date.
ReferenceRefused(r) ==
  /\ r.kind = "part"
  /\ Trouble
  /\ d' = [d EXCEPT !.sent = (@ \ {r}) \cup {[r EXCEPT !.at = "reference"]}]
  /\ UNCHANGED byUser

\* refreshFileReferenceFrom(): "fresh" if there is a new one.
ReferenceCame(r, fresh) ==
  /\ r.at = "reference"
  /\ d' = IF fresh THEN MakeRequest(Finish(d, {r}), r.task, r.offset, r.session)
          ELSE Kept(r)
  /\ UNCHANGED <<troubles, byUser>>

\* The same for a request that was cancelled or moved meanwhile.
LostReferenceCame(t, fresh) ==
  /\ d.task[t].lostRef
  /\ d' = LET m == [d EXCEPT !.task[t].lostRef = FALSE]
          IN IF fresh THEN m ELSE CancelOnFail(m, t)
  /\ UNCHANGED <<troubles, byUser>>

-----------------------------------------------------------------------------
(* Time-outs, timers and posted calls. *)

SessionRestarts(s) ==
  /\ Trouble
  /\ d' = SessionTimedOut(d, s)
  /\ UNCHANGED byUser

PostedTimeOut ==
  /\ d.posted # <<>>
  /\ d' = SessionTimedOut([d EXCEPT !.posted = Tail(@)], Head(d.posted))
  /\ UNCHANGED <<troubles, byUser>>

PostedMore(t) ==
  /\ d.task[t].more
  /\ d' = RequestMore([d EXCEPT !.task[t].more = FALSE], t)
  /\ UNCHANGED <<troubles, byUser>>

KillSessions ==
  /\ d.kill
  /\ d' = [d EXCEPT
       !.broken = @ \cup (IF d.total # 0 \/ \E s \in DOMAIN d.sessions :
                                               d.sessions[s].requested # 0
                          THEN {"killed in use"} ELSE {}),
       !.kill = FALSE, !.sessions = [s \in DOMAIN @ |-> NewSession],
       !.timeouts = 0, !.removes = 0, !.removeIndex = 1, !.removed = FALSE]
  /\ UNCHANGED <<troubles, byUser>>

\* Tasks of this generation go behind those to come.  The timer is set while a
\* task has priority 0, for enqueue() sets it.
ResetGeneration ==
  LET zeros == { k \in DOMAIN d.queue : d.queue[k].priority = 0 }
      from == Min(zeros \cup {Len(d.queue) + 1})
      till == Min({ k \in from..Len(d.queue) : k \notin zeros }
                    \cup {Len(d.queue) + 1})
  IN /\ zeros # {}
     /\ d' = [d EXCEPT
          !.broken = @ \cup (IF till \in DOMAIN d.queue
                                /\ d.queue[till].priority # -1
                             THEN {"generation"} ELSE {}),
          !.queue = [k \in DOMAIN @ |->
             IF k \in from..(till - 1) THEN [@[k] EXCEPT !.priority = -1] ELSE @[k]]]
     /\ UNCHANGED <<troubles, byUser>>

-----------------------------------------------------------------------------
\* What comes back to the request for part o of task t.
Answer(t, o) ==
  \E r \in { q \in SentOf(d, t) : q.offset = o /\ q.at = "server" } :
    \/ PartCame(r) \/ CdnPartCame(r) \/ CdnPartWrong(r)
    \/ \E H \in {{}, Offsets(t)} : SwitchToCdn(r, H)
    \/ \E H \in {{}, {o}, Offsets(t)}, wrong \in 0..Parts[t] : HashesCame(r, H, wrong)
    \/ ReuploadDone(r, {o}) \/ ReuploadNeeded(r)
    \/ TokenRefused(r) \/ Refused(r) \/ ReferenceRefused(r)

Reference(t) ==
  \E fresh \in BOOLEAN :
    \/ \E r \in SentOf(d, t) : ReferenceCame(r, fresh)
    \/ LostReferenceCame(t, fresh)

Player(s) ==
  \/ StopStreaming(s) \/ Leave(s) \/ Destroy(s)
  \/ \E o \in Offsets(s) :
       CancelLoad(s, o) \/ \E first \in BOOLEAN : Load(s, o, first)

\* A failed assertion ends the program.
Next ==
  /\ d.broken = {}
  /\ \/ \E f \in Files : StartAgain(f) \/ Cancel(f)
                         \/ \E have \in Offsets(f) : Start(f, have)
     \/ \E s \in Streams : Player(s)
     \/ \E t \in Tasks : Reference(t) \/ PostedMore(t)
                         \/ \E o \in Offsets(t) : Answer(t, o)
     \/ \E s \in 1..MaxSessions : SessionRestarts(s)
     \/ PostedTimeOut \/ KillSessions \/ ResetGeneration

Spec == Init /\ [][Next]_vars

-----------------------------------------------------------------------------
(* What must hold. *)

\* The amounts by which sessions are chosen are those of the requests that are
\* out, whatever is redirected, cancelled, made again or removed meanwhile; the
\* sessions are not to be killed while one is out.  No assertion of the code
\* fails, but for a task that left its CDN with parts not checked yet
\* (changeRequestedAmount(), removeSession(), placeSentRequest()).
AmountsRight ==
  /\ \A s \in DOMAIN d.sessions :
       d.sessions[s].requested = Cardinality({ r \in d.sent : r.session = s })
         \/ d.broken # {}
  /\ d.total = Cardinality(d.sent) \/ d.broken # {}
  /\ d.kill => d.sent = {}
  /\ d.broken # {} => \E t \in Tasks : d.task[t].astray

\* Each part of a file that was taken from the front is loaded, asked for or
\* waiting for its hash, and one of these only; what a player waits for is
\* wanted, asked for or waiting for its hash; a file is done when all its parts
\* are there.  A task that left its CDN with parts unchecked is the exception.
PartsKept ==
  \A t \in Tasks :
    LET x == d.task[t]
        out == Asked(d, t)
        kept == Unchecked(d, t)
        parts == { r.offset : r \in { q \in SentOf(d, t) : q.kind # "hashes" } }
        wanted == { w[2] : w \in x.wanted }
    IN ~x.astray =>
         /\ parts \cap kept = {} /\ wanted \cap (parts \cup kept) = {}
         /\ x.state = "on" =>
              /\ x.loaded \cup parts \cup kept = 0..(x.next - 1)
              /\ x.loaded \cap (parts \cup kept) = {}
         /\ x.waits \subseteq wanted \cup out \cup kept
         /\ x.state = "done" => x.loaded = Offsets(t)

\* Room that was made without a look at the queue, and still is there.
Forgotten == d.idle /\ BestSession(d) # 0 /\ NextPlaces(d) # {}

\* A part of a stream failed: its request still counts, so while the stream is
\* first with a high priority all others wait until it is destroyed.
Blocked ==
  d.queue # <<>> /\ d.queue[1].priority > 0 /\ \E r \in d.sent : r.at = "failed"

\* Nothing that is out or posted will come back: no answer, no file reference,
\* no time-out, no request for hashes, no stop of a player that failed.
Quiet ==
  /\ \A r \in d.sent : r.at = "failed"
  /\ d.posted = <<>>
  /\ \A t \in Tasks : ~d.task[t].more
  /\ \A s \in Streams : d.task[s].state = "failed" => d.task[s].priority = 0

\* When all is quiet no file is still to be downloaded and no player waits: what
\* waits in the queue is sent by the answers to what is out, at the latest.
\* Exceptions: getCdnFileHashesDone() and the cancellation of the last part of a
\* stream do not call checkSendNext(), so the room they make may be forgotten;
\* a failed stream may keep out the others; and a task that left its CDN with
\* parts unchecked never ends.
NoneStranded ==
  Quiet /\ ~Forgotten /\ ~Blocked /\ d.broken = {} =>
    \A t \in Tasks : d.task[t].astray
                       \/ (d.task[t].state # "on" /\ d.task[t].waits = {})
=============================================================================
