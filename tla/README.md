# TLA+ models of Miogram Desktop

Specifications of the protocol logic of this client (Telegram Desktop with the
AyuGram and Miogram changes): how it keeps in step with the server's updates,
how it orders its requests about chats, how it keeps data on disk, how a session
carries requests over connections that break, and how files go up and come down
by parts. TLC
checks small instances, TLAPS proves theorems for every value of the constants.
Paths below are relative to `src/Telegram/SourceFiles/`.

    tlc -config MCUpdates.cfg MCUpdates     # one run; the cfgs name them all
    tlapm UpdatesProofs.tla                 # one component's proofs; 7 more modules

`PROJECT.json` maps every definition to the lines it models, lists the runs, a
mistake that each property catches, the hazards and the theorems.


## 1. Inventory

### 1.1 Boxes of updates (`data/data_pts_waiter`, `api/api_updates`)

*State.* The server numbers events of a *box* (the common one of the account,
and one per channel) with `pts`; an update carries the `pts` after it and the
count of events it stands for. A `PtsWaiter` holds `good` (all events up to here
are applied), `last` (the largest `pts` seen), `count`, a queue of early updates,
the flag `requesting`, and two reasons to wait, a gap and the short poll, that
share one timer. `Updates` adds the number `seq` of containers, those kept
because they came early, and timers: by pts, by seq and after a failure.

*Operations.* Apply a push, apply the answer of an own request, take the server's
state, ask for a difference and apply it in slices, retry after a failure, note a
new session, show and leave a channel.

*Interaction.* Pushes and answers come from the MTProto session in order, handled
one by one on the main thread; `ApiWrap` passes the `pts` of answers; windows say
which channel they show.

*Hard.* Lost, late and reordered pushes against differences; duplicates; pushes
thrown away while a difference is asked for; one timer for two reasons.

*Correct when* no event is skipped without a trace, none is applied over a gap,
whatever is missing is always waited for by something that will fetch it, and it
is fetched in the end.

### 1.2 Requests about chats (`data/data_histories`, read marks of `history/history`)

*State.* Per chat the requests sent (pages, reads, deletions, messages), pages
postponed, the read to send with its time, the read sent and whether it is done,
whether its entry waits. Per client the entries asked for and pending with
callbacks, one timer for the delayed reads, a posted call. In the chat: top
message, read mark, unread count if known.

*Operations.* Send a request, finish it, cancel it; read till a message here;
ask for a chat's entry and apply it; fire the timer; switch AyuGram's "send read
messages" off, which forgets every state.

*Hard.* Stale entries against reads and new messages; pages against deletions;
answers in any order; refusals; requests whose handlers never call `finish()`.

*Correct when* no page is under way with a deletion, whatever is postponed has
something that will send it, the unread count is right when it is known, a read
reaches the server, and the code's own assertions hold.

### 1.3 Files (`storage/details/storage_file_utilities`, `storage/storage_account`)

*State.* On disk a file `s` per name, or `0` after a fallback. A writer's thread
with its queue of calls and of entries; in the account the keys of what is
stored, `_mapChanged`, a timer and posted calls that write the file `map`.

*Operations.* Write, replace, read and clear a file; write the map; start, quit,
be killed; remove files no key speaks of.

*Hard.* A kill between any two steps, the main thread that removes files under
the writer, operations that fail, removal of unknown files on a third thread.

*Correct when* what has come to the disk stays there until the user changes it,
what the user sees gets there, and is shown again after a start.

### 1.4 MTProto session (`mtproto/session_private`, `session`, `mtp_instance`)

*State.* Requests to send (`toSend`) and sent and not answered (`haveSent`), both
shared by two threads under a lock each; for the session's thread alone the ids
being resent, acknowledged and of containers, the connection, salt and binding of
the key; for the main thread the callbacks, delayed requests and answers.

*Operations.* Queue, cancel and delay a request, hand an answer over; send what is
queued alone or in a container; take an answer, an acknowledgement, a refusal, a
new session; connect, break, reset, stop.

*Interaction.* Everything else sends its requests through it; it feeds 1.1.

*Hard.* An acknowledgement, an answer and a resend that cross; a request between
two locks; ids that change; early returns that must be made up for.

*Correct when* a request is queued, sent, or being dealt with until its caller is
told, is not sent again after that, is told in the end, and no wake-up is lost.

### 1.5 Downloads and uploads (`storage/download_manager_mtproto`, `file_download_mtproto`, `storage/file_upload`, `media/streaming/media_streaming_loader_mtproto`)

*State.* Per data center the sessions with the amount out through each and what
they have shown to bear; a queue of tasks by priority; per task the parts asked
for, and those of a CDN that wait for a hash. Of uploads a queue, the parts in
flight with their session, the parts to send again, videos that wait for covers.

*Operations.* Start, cancel and prioritise; send the next part; take a part, a
redirect, hashes, a refusal, a new file reference; add a session after successes,
remove one after time-outs and move what it carries; kill idle sessions.

*Hard.* Sessions removed with parts in flight, posted time-outs with an old index,
requests that end in ways of their own (kept, redirected, remade), loops that
re-enter, failures of one part of several.

*Correct when* amounts are those in flight, every part is loaded, asked for or
still to be asked for and once only, what waits goes when there is room, what is
said to be uploaded is there, and the assertions hold.

### 1.6 Sparse lists (`storage/storage_sparse_ids_list`, `storage_shared_media`)

Slices of the ids of media messages with the ranges they cover, and a count.
*Correct when* a slice holds exactly the messages of its range and the count is
theirs. Not modelled.

### 1.7 AyuGram and Miogram (`ayu/`)

The switch of read receipts and AyuGram's own reads are in the model of 1.2. The
worker that sends "offline" packets (one timer for all accounts) is not modelled.
Forwarding is a loop that blocks on semaphores, the saved history a thin layer
over SQLite, the rest user interface.

### 1.8 Not modelled by choice

Key exchange and connections (cryptography, I/O), streaming and calls (threads of
external libraries; the loader of streams is in 1.5), the data model and user
interface, export, passport, payments, instant view (features that send requests
and show answers), vendored SQLite and JSON, code generators and tests. `PROJECT.json` lists them.


## 2. Modules

| Module | Models | State |
| --- | --- | --- |
| `PtsWaiter` | `data_pts_waiter.cpp` | operators on a record |
| `EventBox` | what a box promises (abstract) | `applied`, `good` |
| `Updates` | the common box | waiter, request, timers, seq, server and net |
| `EventLog` | the events of a box and the stretches of pts they take, for both boxes' proofs | |
| `ChannelUpdates` | the box of a channel | waiter, request, timers, windows, server and net |
| `Histories` | `data_histories.cpp`, read marks | `histories`, `chat`, `inbox`, `server` |
| `WriteManager` | the writer of files | queue, entries, step, disk |
| `Drafts` | account storage over `WriteManager` | drafts, keys, phase, cleanup |
| `MtpSession` | `session_private.cpp`, `session.cpp`, requests of `mtp_instance.cpp` | both threads, two maps, link, server |
| `Uploader` | `file_upload.cpp` | `up`, files that cannot be read, server |
| `Downloads` | `download_manager_mtproto.cpp`, loaders of files and streams | `d`: sessions, queue, tasks, requests |
| `UpdatesInvariant`, `ChannelInvariant`, `HistoriesInvariant`, `HistoriesCounts`, `MtpSessionInvariant`, `DraftsInvariant`, `UploaderInvariant`, `DownloadsInvariant` | what is inductive, section 6 | |
| `UpdatesProofs`, `ChannelProofs`, `HistoriesProofs`, `MtpSessionProofs`, `DraftsProofs`, `UploaderProofs`, `DownloadsProofs` | theorems | |
| `PtsWaiterProofs` | lemmas about the waiter's operators | |
| `MCUpdates`, `MCChannel`, `MCHistories`, `MCDrafts`, `MCMtpSession`, `MCUploader`, `MCDownloads` | instances for TLC | |

An action is a whole handler: what a handler calls before it returns is in it.
The client has one main thread, so handlers do not interleave; the places where
the code gives up control are actions of their own: posted calls
(`crl::on_main`), timers, answers, and each operation of the writer's thread.
Where two threads share data a step is what one does under its locks.
Definitions marked *mistake* are the wrong variants that show that a property
can fail; no specification uses them.

**PtsWaiter.** One record for the C++ object. `Check`, `Updated`,
`ApplySkippedUpdates`, `UpdateAndApply` follow the functions of the same names;
the callbacks into the owner (feed an update, start a timer) become the set
`applied` of an outcome and the field `timer`.

**Updates.** `net` is the session's stream to this client, first in, first out;
the server puts pushes into it late and in any order, loses them with a session,
and answers a difference whole, in slices or with a failure. An own request's
answer carries its `pts` (`AnswerSent`, `ReceiveSent`). History variables:
`log` (what the server's events are), `applied`, `early`, `seqDone`.

**ChannelUpdates.** The same waiter with the callers of `getChannelDifference`
(gap or short poll, after failure, from the channel's own loading, too long
difference), `whenGetDiff...` timers, and windows that show and leave the
channel. `PtsKnown` holds the ways it may start: with its pts known or not.
`shownKnown` (history) says that a window came when the pts was known.

**Histories.** `histories` is the object, its timer and posted call, and the
live requests of the API; `chat` the `History` objects. `FinishSentRequest`,
`SendRequest`, `SendReadRequests`, `ReadInboxTill`, `ApplyDialogFields` and so
on bear the names of the functions. An answer with several entries is applied
chat by chat through `applying`, as the code's loop does, with nothing else in
between. Messages 1 .. `top` of a chat are incoming. Requests with
`finishes = FALSE` are those whose handlers never call `finish()`: the deletion
of a channel and AyuGram's `readHistory()`. `Elsewhere` are the chats that are
also read on another device.

**WriteManager** and **Drafts.** `calls` is the thread's queue, `scheduled` the
deque, `now` the next operation of `writeNow()`. Every operation on the disk is
a step, and a kill may come between any two. `commit()` and a rename replace a
file in one step; a plain file is cut from its opening to its last byte.
`drafts` stays over a kill: it is what the user last saw. `Stored` is the text that
the map on the disk leads to. `OpenChat` never shows it: the first opening of a chat
after a start clears the file, whatever is in it (section 5).

**MtpSession.** The main thread: `SendRequest`, `TakeAnswer` and what may follow
it (`TellResult`, `DelayRequest`, `SendAgain` then `RestoreCallback`, for the
callback is taken out of its map before the answer is looked at), `CheckDelayed`,
and `Cancel`, which reads the id and then locks one map after the other in steps
of their own. The session's thread: `TryToSend` is an empty look, the start of a
stopped session, a request alone (`TakeAlone` .. `SendAlone`: out of one map
before it is in the other) or a container under both locks; `ResendNext` ..
`Place` has the same window the other way, `ResendAll` also. Link: `Connect`,
`SaltComes`, `KeyBound`, `Break`, `ResetSession`, `DestroyKey`, `Stop`. Server:
`Answer` (a result or two kinds of errors), `Ack` of a message or a container,
`Refuse`, `Reject`, `Forget` (a new session on its side) and `NewSession`, and
`ClearOld` for containers that nobody answered. Ids are numbers in the order they
are made. History variables: `told`, `slipped`, `rejected`.

**Uploader.** `up` is the object. The code's functions call one another and loop:
`maybeSend()` fills the sessions and on the way meets a file that cannot be read,
`failed()` finishes the front, which begins the upload of a cover, which sends again.
`Make` is one call, or one round of a loop: it gives the object after it and the calls
that follow; `Do` makes them in the order of the code, those of a call before the
calls that wait behind it. An action is one handler with all of its calls.
`PartLoaded` is an answer with whatever its time may change (`Timed`). `saved` is what
the server has: which bytes are in which place. A cover goes as an item of its own.
`MaxCalls` bounds `Do`: in the runs an assertion in it says that the bound is never
met, so that every handler is whole.

**Downloads.** `d` is the manager with its tasks and, for a stream, what its
player waits for. The code's loops are recursive functions: `CheckSendNext` makes as
many rounds of `SendNext` (`trySendNextPart()`) as there are parts, and a round with
nothing to send changes nothing; `RedirectAll` takes the queue task by task,
`MoveRequests` and `MakeRequests` a set of requests one by one, the order of ids being
arbitrary. `Enqueue` and `Dequeue` end in `CheckSendNext` as the code's do, `Done` is the order of a successful handler:
finish the request, judge the session, feed the part, look at the queue.
`RemoveSession` has each task of the queue `Redirect` its requests, each to the
session that is best then. A request is a part, a part of a CDN, hashes, or
a reupload, and is with the server, refused and kept, or waiting for a reference.
Amounts count parts of 128 KB. History: `idle` (room was made and not looked at),
`astray` (a task left its CDN with parts unchecked), `broken` (assertions).


## 3. Runs

Bounds are constants of the modules, each with a comment; the runs below pass
with every reachable state explored, in `histories_reads` every one that its
`CONSTRAINT` admits.

| Run | Shows | Bounds, and why they do |
| --- | --- | --- |
| `updates` | the common box never skips, never applies over a gap, always waits for what is missing; it implements `EventBox`; containers are fed without holes and a kept one has its timer; requests end and gaps are repaired | 4 pts with counts 1 and 2: a gap, a covering and a queued update at once; 4 containers: two holes at once; beyond `MixedPts` events are made only where no containers are, which keeps the two from multiplying; two messages under way; one failure, lost session or reset |
| `channel` | the same for a channel, and that a shown one is polled and catches up | 3 pts, counts 1 and 2 (and 0), two windows, pts known at the start or not, one disturbance |
| `histories` | pages, deletions, messages, reads and entries of a chat; a postponed page is sent, an entry comes, a read ends | 2 requests besides reads and an entry: enough for a deletion and a page, asked again; 1 refusal |
| `histories_reads` | the unread count is right when known, the server learns of reads, the code's assertion on answers, one timer for the reads of two chats, with receipts off no read leaves | 2 chats (symmetric: no liveness is checked). One of them alone with 3 messages, a read sent, one waiting and one to come, and an entry or a refusal, both of them on 2 messages; both chats with 2 messages each; or the receipts switched off and a request that never finishes, on 2 messages. `Bounded` of `MCHistories` keeps these from multiplying |
| `histories_ghost_read` | violation, section 5 | 3 messages, 2 switches |
| `drafts` | a saved draft stays until its chat is opened again, a quit saves, a change gets to the disk | 2 texts under 2 keys: a draft cleared and written again while its first file is being written; 1 kill or quit and start; 1 failing disk operation |
| `drafts_shown` | violation, section 5 | the same |
| `session` | no request is lost between maps, threads and sessions, none is sent after its answer, no wake-up is lost, each is answered | 2 requests: one in each map, a container of two, one resent while one is answered; ids kept 1, so that they are dropped; 3 events (requests and disturbances) |
| `session_slip` | violation, section 5 | the same, 2 events |
| `uploader` | amounts and counters are those of the parts in flight, a document is complete, each upload ends | a photo, a video with a thumbnail and a cover; 2 sessions, sizes such that a session takes more than one part; 1 failure, 1 call of the user; 24 calls in a handler, more than any makes |
| `uploader_sliced` | violation, section 5 | the same with no failure |
| `downloads` | amounts and parts survive whatever becomes of sessions, requests and CDNs, and nothing is stranded | a file that goes to a CDN and a stream, 2 parts each; 2 sessions of 2 to 3 parts, removed after 1 time-out and added after 1 success, so that one request's fate decides; 1 trouble (slow answer, time-out, refusal) besides any speed and order; 2 calls of the player or repeated starts. One trouble does not reach a posted time-out whose session is gone meanwhile, nor a removal while a reference is refreshed: the theorems `AmountsHold` and `PartsKeptHold` do |

Deadlock is not checked: once the bounds are used up and all is quiet these
systems rightly stop. In `downloads` there must be fewer troubles than a session
takes parts (`MaxTroubles < StartWaited`): a part that a stream failed to get keeps
its place in the session, and enough of them fill it.

### What the main properties say

`NoLostEvent`: an event below `good` was applied, or is in an own answer on its
way. `NotAhead`: nothing is applied above `good` but what own requests return.
`GapWatched`, `QueueWatched`: a known gap, a queued update, wait with a timer.
`RequestAlive`: "requesting" is true exactly while a request is under way or the
retry timer is set. `BoxSpec`: the detailed box implements the abstract one.

`PollKept`: a shown channel is polled, or has its timer for it. `SeqInOrder`,
`SeqWatched`: the same for containers.

`NoPageWithDelete`: a page never crosses a deletion. `ReadsWatched`: a read that
waits has a request, a timer or a posted call that will release it. `ReadTold`: a
read shown here is, or will be, told to the server. `CountRight`: a
known unread count is the number of unread messages. `FinishedAssert`,
`EntryAsserts`: the assertions in the code; `ReadsInOrder` is the first of them as
long as the switch of read receipts was not touched, and so are `ReadTold` and
`CountRight`, for the switch forgets what is to be read.

`SavedStays`: once the user's draft is on the disk, where the map leads to it, it
stays there until he changes it or opens its chat after the next start.
`SavedShown`, that it is shown then, is false (section 5). `Settled`: after a quit,
and whenever nothing is left to write, the disk says what the user sees. They hold in spite of the order of
writes: an entry takes the place of an older one for the same name, so the map
may be written before a file it speaks of; and a cleared file may be written
once more by the thread. Between such moments a kill can leave a draft on the disk
that was just cleared; `Settled` is stated for quiet moments for that reason. The
exceptions named in the properties are the code's: a write cut short by a full
disk is renamed over the good file (`storage_file_utilities.cpp:125`), and an
entry whose files cannot be opened is dropped (`:122`).

`RequestKept`: a request somebody waits for is in a map, in a thread's hands, or
among the answers, but for the two ways the code does drop one (section 5).
`AnsweredGone`: an answered one is nowhere from where it could be sent.
`SendWatched`: if something could be sent, an attempt is coming. `Answered`: it is,
in the end.

`Balanced`, `AmountsRight`: the amount of each session, by which sessions are
chosen, added and removed, is that of the requests out through it, and every index
is of a session there is. `PartsAccounted`, `PartsKept`: each part is in one place
only. `DocumentComplete`: the bytes are each in their place on the server. `UploadEnds`:
an upload is told to be ready or failed. `NoneStranded`: when nothing is out and
nothing is posted, no file is unfinished and no player waits.


## 4. Fairness

Liveness assumes only that what is runnable runs: weak fairness of the handler of
the next message, of each timer, of posted calls and of the writer's thread (Qt's
event loop and `crl` queues serve everything in them), and that the server serves
a live request. It is not assumed that pushes arrive or that a request succeeds;
the number of failures is bounded, without which no retry need ever succeed.

`session` also assumes that a connection is made again, a salt comes and a key is
bound in the end: the code retries each without end. `uploader` assumes that the
parts in flight are answered. `Downloads` states no fairness: its actions use up what is out, or
the bounds on calls and troubles, so that what must happen in the end is what
holds when all is quiet, and `NoneStranded` says it as an invariant.


## 5. Where the code departs from what it says

- `histories_ghost_read`: with read receipts off `_states` is cleared
  (`data_histories.cpp:702`); a lower read sent after the switch is back lets the
  first answer fail the assertion at `:757`.
- `drafts_shown`: `writeDrafts()` begins a file with `kDraftsTag2`
  (`storage_account.cpp:1346`), which is none of the three tags that
  `readDraftsWithCursors()` goes on with (`:1565`), though it asks for it later
  (`:1583`). The file goes to `readDraftsWithCursorsLegacy()`, which takes the tag for
  the id of a chat, finds another than the one opened, and clears the file and its key
  (`:1701`). So each draft that was saved is lost when its chat is opened after a
  start, while `changelog.txt:4843` says that drafts are saved.
- `uploader_sliced`: `sendSlicedPart()` (`file_upload.cpp:633`) keeps no number of
  the part in its request; when the session is removed, the part is sent again as
  part 0, over the first one, and the photo is said to be complete.
- `session_slip`: `requestsAcked()` puts the id of an answered request among the
  acknowledged ones and then drops the smallest ids (`session_private.cpp:2191`);
  when later messages were answered before, that is the id just put, and the answer
  is thrown away at `:1876` with nobody left to ask again. It takes 400 later ids
  (`kIdsBufferSize`; the run has 1).

Seen while modelling, without a run of their own:

- A failed `updates.getState` has no handler (`api_updates.cpp:257`), as
  `differenceTooLong` has no way on (`:524`): the box stays "requesting" and throws
  away every push until the program is started again. `RequestEnds` is about
  differences; the first state always comes in the model.
- A gap noticed through a `pts` heard with loaded messages starts and cancels its
  wait in one call (`data_pts_waiter.cpp:165`), while `data_pts_waiter.h:24` says a
  gap waits one second; `QueueWatched` is about gaps with a kept update. What is
  missing is found by a later event or, of a shown channel, by the poll
  (`ShownCatchesUp`).
- A channel shown before its pts is known spends its poll timer to no effect
  (`api_updates.cpp:731`) and is not polled until something else happens to it
  (hence `shownKnown` in `PollKept` and `ShownCatchesUp`).
- A video whose cover fails while the cover is in the queue is never told
  (`file_upload.cpp:370`; the exception of `UploadEnds`).
- A CDN that refuses its token while parts wait for hashes has the request for
  hashes remade as one for a part that is there already
  (`download_manager_mtproto.cpp:1038`): asked for twice, or a file that never ends
  (`astray`).
- `getCdnFileHashesDone()` and the cancellation of a stream's last wanted part make
  room without a look at the queue (`Forgotten`); a failed stream keeps its place
  and its amount until it is destroyed (`Blocked`).
- Successes are counted up to 192, but 195 are needed after 64 removals
  (`download_manager_mtproto.cpp:272`, `:275`): no session is added any more, while
  the comment at `:36` promises it after 192.


## 6. Proofs

Theorems hold for every value of the constants that satisfies the named `ASSUME`s of
the modules: types and bounds of numbers, no more. Bounds on disturbances, requests or
texts are any naturals. TLC evaluates the assumptions in the runs. In no component
is what the runs check inductive as it stands; the module `...Invariant` of a
component adds what is missing and says why. Each action has lemmas of its own, and
`InvariantHolds` (`Invariance` in `Updates`) combines them; the theorems about single
properties follow from it.

| Component | Theorems, and the property of section 3 they state |
| --- | --- |
| `Updates` | `TypeCorrect`, `NothingIsLost` (`NoLostEvent`), `NothingIsAhead`, `GapsAreWatched`, `RequestsAreAlive`, `TheBoxNeverGoesBack`, `UpdatesImplementsEventBox` (`BoxSpec`); of seq `ContainersInOrder`, `KeptContainersAreWatched` |
| `ChannelUpdates` | `TypeCorrect`, `InvariantHolds`, `RequestsAreAlive`, `QueuesAreWatched`, `PollsAreKept`, `ChannelImplementsEventBox` |
| `Histories` | `TypeCorrect`, `InvariantHolds`, `EntriesAreAskedAgainOnce` (`EntryAsserts`), `ReadsAreWatched`, `PagesStayApart` (`NoPageWithDelete`), `ReadsEndInOrder` (`ReadsInOrder`), `ReadsStayHidden`; of counts `CountsInvariant`, `ReadsAreTold` (`ReadTold`), `CountsAreRight` (`CountRight`) |
| `MtpSession` | `TypeCorrect`, `InvariantHolds`, `QueuedRequestsAreWatched` (`SendWatched`), `RequestsAreKept`, `AnsweredRequestsAreGone` |
| `WriteManager`, `Drafts` | `TypeCorrect`, `InvariantHolds`, `DraftsAreSettled`, `SavedDraftsStay` |
| `Uploader` | `TypeCorrect`, `InvariantHolds`, `BalancedHolds` (`Balanced`), `PartsAccountedHold` (`PartsAccounted`), `DocumentCompleteHolds` (`DocumentComplete`) |
| `Downloads` | `TypeCorrect`, `InvariantHolds`, `PartsKeptHold` (`PartsKept`), `AmountsHold` (`AmountsRight` as long as no assertion has failed) |

**Updates.** That `good` may move to `last` when `count` reaches it is sound only
because of what `count` adds up. The invariant says that `count` is `good` plus the
number of pts taken by the events counted so far (`pending`), that these are events of
the server's log, which take disjoint stretches of pts, all above `good` and at most
`last`, that an event is in one place at most (to be sent, under way, or counted), and
what answer is under way. The step that matters: if the stretches lie between `good`
and `last` and take as many pts as there are, they cover them, so nothing between is
missing. The properties of seq need nothing of the server: `RunEnd`, the last of a run
without holes, is followed through each way a container may come.

**ChannelUpdates.** The same argument, but the waiter of a channel starts anywhere,
hears pts that come without an event, and nothing remembers which events were counted, so the
invariant says that *there is* a set of events that accounts for `count`
(`CountOK`), and each step names the next one. Which timer waits for what (a gap and the poll share
one) is `QueueWatched` and `PollKept` themselves, with what is known of a channel that
knows no pts.

**Histories.** Handlers call one another, and one changes the object several times. The
parts of the invariant are therefore predicates of an object (`Kept`, `ArmedOK`,
`Strict`), and a lemma for each operator says what it keeps, which the lemma of an
action chains. Inside a handler a chat may for a moment have nothing that waits
for it: `Kept(d, hs)` names the chats of which this is so. `PagesOK` and
`MarksOK` (no read that is out goes past the one remembered) hold only until the switch
of read receipts drops the states, which is also what `histories_ghost_read` shows;
so `PagesStayApart` and `ReadsEndInOrder` speak of the time before (`Untoggled`), as
do the theorems on counts, while the others hold with any use of the switch.

`CountRight` and `ReadTold` need more, in `HistoriesCounts`: what is under way in
`inbox` for a chat, against what the client shows and what the server has. Each message fits
between the two (`Fits`), any two are in the order they were sent (`InOrder`), and no
chat message from the client's top to the server's is missing (`AllComes`). What the client shows as read is
known to the server, will be sent or is out (`Told`); what the server has as read is
shown, on its way here, or was read here and is remembered (`Learns`). The step that
matters is an entry against reads: one that the code refuses because `sentReadTill`
is beyond it must be made up for, and one that comes after a read was done must know of
it (`DoneIn`). A count is exact unless a read was refused or the chat is `stale`, and never too small
(`ShownOK`). Before its proof `CInv` was checked by TLC with constants like those of
`histories_reads` and with larger ones.

**MtpSession.** What a step relies on is spread over two threads and their locks:
whose callback is out of the map (`MainOK`), that an id was made for one request,
wherever it is kept (`IdsOK`), that the end of a step still wakes the thread (`WakeOK`),
and in which single place a request is (`PlacesOK`): to be sent, sent, in the hand
that carries it between locks, put off, or among the answers.
`PlacesOK` leaves out requests that the client itself rejected, the second exception of
`RequestKept`.

**WriteManager and Drafts.** A file's content goes through a queue of calls, a queue of
entries and a step of `writeNow()` before it is on the disk; the invariant follows all
its copies. `Follows` orders them by when they reach the disk, `Latest` is the one that
will be there in the end, `Pending` says that one is on its way. Inductive is: texts of
a key follow one another upwards (`TextsOK`), a key was generated for one chat
(`KeysOK`), once a copy of the map knows a key those after it do (`MapsOK`), and
what is latest is what the account and the user know unless the map is still to be
written (`LatestOK`). That `Put` replaces an entry in its place, and so may write the map before
a file it leads to, keeps the order of the copies of one file, which is all that is needed.
The rest is what a kill, a start, the opening of a chat and the removal of unknown
files find: nobody writes for a chat that was not opened (`UnseenOK`), and names to be removed are not known to
the account (`CleanupOK`).

**Uploader.** A part is told from the others by its item, its kind and its number
(`Key`). The invariant says where each is: out through a session that is there, or
waiting to be sent again, never both and never twice (`PlacesOK`); an entry of the
queue counts its parts by their numbers, which are below the one it sends next
(`EntryOK`), so a new part is new; a session's amount is what its requests carry
(`AmountsOK`); each part of a document below the next one is on the server in its
place or out for it (`DocsOK`). An upload that is over or waits for its cover is not
in the queue (`QueueOK`), which is why a failure that comes late does not take back
what was told. `partLoaded()` takes the part off the list first and counts it in its
entry later, with `removeDcIndex()` between the two: the predicates carry the set `L`
of parts that are loaded and still counted. Each call of `Make` keeps them and makes
calls that are legal afterwards (`Fine`), hence `Step` does, and `Do` by induction over
its steps (`UpTo`); the theorems hold for any `MaxCalls`. `cancelAll()` is taken with
its loop ended, as the code's `while (!_queue.empty())` is. `SlicedComplete` has no
counterpart to `DocsOK`: it is false (section 5). `IInv` was checked by TLC with the
constants of `uploader` before its proof.

**Downloads.** What holds of a task is a predicate (`TaskOK`) of its record, of its
requests, of the parts `H` in hand and of the parts `W` to be noted. A handler takes a
request off first (`Finish`), so its part is nowhere until it is fed, kept unchecked
or asked for again: it is in hand, and the calls between carry it along. `Load()` makes
room in the set of wanted parts before it adds the part the player waits for: that
part is in `W`. Inductive is: a file that is on has each part below `next` loaded, out,
unchecked or in hand and knows no part beyond it, and one that is not on has no
requests (`FileOK`); a stream knows only its own parts (`StreamOK`); unless the task is
astray, each part is in one of these places, no part is asked for twice, hashes are
asked for once and for a part that is unchecked, and parts are unchecked only while
the task has a CDN, when none is asked for as a part of the data center (`NeatOK`); a
task is in the queue once, and a file only while it is on (`QueueOK`), which is what
makes `nextTask()` safe. Each call has a lemma that it keeps `Good`; a loop that is a
recursive function exists (`LoopExists`) and keeps what each of its rounds keeps
(`LoopEnds`). `IInv` was checked by TLC with the constants of `downloads` before its
proof.

The amounts need an invariant of their own (`Sums`): each request is of a session that
exists, no two are of one part of one task, each amount is the number of the session's
requests and the total that of all. A part asked for once is what keeps the numbers
right: a request for a part that is out already takes the place of one and would still be
counted as two, and that is the code's own assertion, so nothing is said once one has
failed (`Tally`). `removeSession()` raises the amount of the session it empties
(`kMaxWaitedInSession * kMaxSessionsCount`, `Much`), lest `chooseSessionIndex()` choose it,
and drops it only when no request of it is left: the calls inside the loop keep `Sums(m, b)`
with `b` the raised session, those outside with `b = 0`. Each call keeps `Sound` and so
does each round of a loop, as above.

Only model-checked:

- liveness (`ShownCatchesUp`, `Answered`, `DraftSaved`, ...): fairness is out of the prover's reach;
- of `Downloads`, `NoneStranded`, which says that `CheckSendNext` left nothing to send unless
  `idle`, and so needs that as many rounds as there are parts are enough; and of
  `AmountsRight`, that an assertion fails only with a task astray: with more than one
  task on a CDN, what one task left in a removed session is not tied to it by the
  invariant above;
- nothing says of `NoPageWithDelete`, `FinishedAssert`, `ReadTold` and `CountRight` that
  they hold once the switch was touched, neither a theorem nor a run.


## 7. What the models leave out

- `differenceTooLong` of the common box, and a failure of `updates.getState`: the code
  stays "requesting" (section 5).
- Counts of 0 on the common box (answers that affect nothing); they are modelled
  for channels, where `ptsReceived()` makes them common.
- A channel left by the user, a dialog without pts in a too long difference,
  differences of a range; a too long difference that is not final.
- Delivery reports, folders, topics, fake chat list messages, unread marks and
  outgoing messages of `Histories`; a new message that is read already or comes while
  no count is known (`history.cpp:1702`, `:1706`); the second way of counting what is
  still unread, through the messages loaded (`:2154`). A good entry is applied once,
  chat by chat, where the code calls `dialogEntryApplied()` twice, and first applies
  all entries. What the switch of read receipts does to postponed pages and to
  entries to ask for: only reads are checked with it.
- `ReadTold` leaves out reads that the server refused: the code does not send
  them again. `EntryComes` and `PageComes` are checked without requests that
  never finish: with them an entry waits forever, as it does in the code.
- Legacy file `1`, `writeSync()` (no caller), encryption, files of the account
  other than the map and drafts, `reset()` at log out, power failure (a file
  system that loses what was flushed). On Windows a file that the writer has
  open cannot be removed by `ClearKey()`; the model removes it, as POSIX does.
- What the user types between two calls of `writeDrafts()`.
- `writeDrafts()` for a chat whose stored drafts were not read yet (a cloud
  draft that comes in); drafts and maps that an older version wrote, whose tags
  are still read.
- `ClearLegacyFiles` is in a library: the model lists, asks and removes, as its
  use here requires.
- Of the session: times and the corrections of the clock, pings and state requests
  as messages with timers (what they bring is: acknowledgements and refusals),
  `invokeAfter`, sequence numbers, the creation of keys, `ReceivedIdsManager`. A
  container is acknowledged as a whole only while all its messages are out; a final
  error and an answer that cannot be parsed are answers like any other.
- Of downloads: several data centers (each has its own sessions and queue), web
  files and files of unknown size, loading a prefix, a downloader attached to a
  stream, statistics, the local copy. Answers come in any order, at any speed; that
  a new session waits eight seconds after a removal is a choice. Also a redirect
  to a CDN with a key or an iv of a wrong size, which makes the file fail
  (`download_manager_mtproto.cpp:1008`), and a part shorter than asked for, which ends
  a file's requests early (`_lastComplete`, `file_download_mtproto.cpp:132`). A part
  of a CDN that its hash refutes is never slow. `SessionRestarts` names a session by
  its index; the code passes the whole shift (`download_manager_mtproto.cpp:130`),
  which is no index of a session, so the model does more.
- Of uploads: progress and the contents; time as in downloads.
- Sparse lists (slices against reference sets) and the AyuGram worker (one timer
  for all accounts) are not begun; what is not modelled by choice is in 1.8.


## 8. Plan

Done: `PtsWaiter`, `Updates`, `EventBox`, `ChannelUpdates`, `Histories`,
`WriteManager`, `Drafts`, `MtpSession`, `Uploader`, `Downloads` with proofs. Left,
in this order:

1. Proofs: that an assertion of `Downloads` fails only with a task astray.
2. `SparseIds`: slices against a reference set, as operators checked over
   bounded inputs, then `removeOne` and late slices.
3. `AyuWorker` with two accounts; `reset()` in `Drafts`.

Runs are few and each asks several questions of one component; a new component
means merging two runs first.
