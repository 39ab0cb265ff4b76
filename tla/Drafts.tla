------------------------------- MODULE Drafts -------------------------------
(***************************************************************************)
(* Drafts kept on disk (storage/storage_account.cpp): one file per chat    *)
(* under a random key, and the file "map" that says which key is whose.    *)
(* Files are written by the thread of WriteManager, removed at once by the *)
(* main thread, and what no map knows is removed after a start.            *)
(*                                                                         *)
(* The program may be killed at any moment and started again.              *)
(***************************************************************************)
EXTENDS WriteManager, FiniteSets

CONSTANTS Peers,
          MaxTexts,   \* bound: drafts the user writes
          MaxStarts   \* bound: times the program is started again

ASSUME NamesAssumption == "map" \in Names /\ "no key" \notin Names
ASSUME BoundsAssumption == {MaxTexts, MaxStarts} \subseteq Nat

VARIABLES
  drafts,   \* the draft of a chat, 0 for none: History's, or what it was when
            \* the user last saw it
  unseen,   \* chats that were not opened since the start
  account,  \* _draftsMap, _draftsNotReadMap, _mapChanged, the timer of the
            \* map and whether a call of writeMap() is posted
  phase,    \* "running", "quitting", "off", "killed"
  cleanup,  \* the removal of unknown files, and the names it has found
  spent     \* texts and starts so far, and every key ever generated

mainVars == <<drafts, unseen, account, phase, cleanup, spent>>
vars == <<managerVars, mainVars>>

NoKey == "no key"
Keys == Names \ {"map"}
Texts == 0 .. MaxTexts

Empty == [ map |-> [p \in Peers |-> NoKey], notRead |-> {},
           changed |-> FALSE, timer |-> FALSE, posted |-> FALSE ]
NoCleanup == [step |-> "none", names |-> {}]

Entry(name, data) == [name |-> name, data |-> data]
DraftEntry(key, text) == Entry(key, [kind |-> "draft", text |-> text])
MapEntry(a) == Entry("map", [kind |-> "map", keys |-> a.map])

WriteMapDelayed(a) == [a EXCEPT !.changed = TRUE, !.timer = TRUE]
WriteMapUnposted(a) == [a EXCEPT !.changed = TRUE]  \* mistake: no call posted
WriteMapQueued(a) == [a EXCEPT !.changed = TRUE, !.posted = TRUE]

\* writeMap(): what becomes of the account, and of the thread's calls.
MapWritten(a) == [a EXCEPT !.changed = FALSE, !.timer = FALSE]
WriteMap(a, cs) == IF a.changed THEN Write(cs, MapEntry(a)) ELSE cs

\* mistake: drafts are forgotten among the names worth keeping
MapNames(a) == {"map"}

\* collectGoodNames()
GoodNames(a) == {"map"} \cup { a.map[p] : p \in Peers }

Init ==
  /\ ManagerInit
  /\ drafts = [p \in Peers |-> 0] /\ unseen = {}
  /\ account = Empty /\ phase = "running" /\ cleanup = NoCleanup
  /\ spent = [texts |-> 0, starts |-> 0, keys |-> {}]

-----------------------------------------------------------------------------
(* The main thread. *)

\* writeDrafts() with a text: GenerateKey() finds a name nobody has.
WriteDraft(p) ==
  LET text == spent.texts + 1
  IN /\ phase = "running" /\ p \notin unseen /\ text \in Texts
     /\ drafts' = [drafts EXCEPT ![p] = text]
     /\ \/ /\ account.map[p] # NoKey
           /\ account' = [account EXCEPT !.notRead = @ \ {p}]
           /\ calls' = Write(calls, DraftEntry(account.map[p], text))
           /\ spent' = [spent EXCEPT !.texts = text]
        \/ \E key \in Keys \ spent.keys :
             /\ account.map[p] = NoKey
             /\ account' = WriteMapQueued(
                  [account EXCEPT !.map[p] = key, !.notRead = @ \ {p}])
             /\ calls' = Write(calls, DraftEntry(key, text))
             /\ spent' = [spent EXCEPT !.texts = text, !.keys = @ \cup {key}]
     /\ UNCHANGED <<scheduled, now, files, failed, failures,
                    unseen, phase, cleanup>>

\* writeDrafts() without a text: the file is removed at once, the map is
\* written later.
ClearDraft(p) ==
  /\ phase = "running" /\ p \notin unseen /\ drafts[p] # 0
  /\ drafts' = [drafts EXCEPT ![p] = 0]
  /\ IF account.map[p] = NoKey THEN UNCHANGED <<account, files>>
     ELSE /\ files' = ClearKey(files, account.map[p])
          /\ account' = WriteMapDelayed(
               [account EXCEPT !.map[p] = NoKey, !.notRead = @ \ {p}])
  /\ UNCHANGED <<calls, scheduled, now, failed, failures,
                 unseen, phase, cleanup, spent>>

\* clearDraftCursors(): the map is written later if there were any; the cursors
\* themselves, kept in files of their own like the texts, are left out.
CursorsCleared(a) == {a, WriteMapDelayed(a)}

\* readDraftsWithCursors(): a file that cannot be read is cleared, and the map
\* is not written because of it.  A file that can be read begins with the tag
\* kDraftsTag2 of writeDrafts(), which is none of the three that are looked for:
\* readDraftsWithCursorsLegacy() takes it for the id of a chat, finds that it is
\* not this one, and clears the file in the same way.
OpenChat(p) ==
  LET key == account.map[p]
      known == p \in account.notRead
      a == [account EXCEPT !.notRead = @ \ {p}]
  IN /\ phase = "running" /\ p \in unseen
     /\ unseen' = unseen \ {p}
     /\ drafts' = [drafts EXCEPT ![p] = 0]
     /\ \/ /\ ~known
           /\ account' \in CursorsCleared(account)
           /\ UNCHANGED files
        \/ /\ known
           /\ account' \in CursorsCleared([a EXCEPT !.map[p] = NoKey])
           /\ files' = ClearKey(files, key)
     /\ UNCHANGED <<calls, scheduled, now, failed, failures,
                    phase, cleanup, spent>>

WritesMap ==
  /\ calls' = WriteMap(account, calls)
  /\ UNCHANGED <<scheduled, now, files, failed, failures,
                 drafts, unseen, phase, cleanup, spent>>

\* The call writeMapQueued() has posted
PostedWriteMap ==
  /\ phase = "running" /\ account.posted
  /\ account' = [MapWritten(account) EXCEPT !.posted = FALSE]
  /\ WritesMap

TimerFires ==
  /\ phase = "running" /\ account.timer
  /\ account' = MapWritten(account)
  /\ WritesMap

-----------------------------------------------------------------------------
(* Quitting, being killed, starting again. *)

\* ~Account(), and finish() that waits for writeSyncAll().
Quit ==
  /\ phase = "running"
  /\ phase' = "quitting"
  /\ account' = [MapWritten(account) EXCEPT !.posted = FALSE]
  /\ calls' = Append(WriteMap(account, calls), SyncAll)
  /\ cleanup' = NoCleanup
  /\ UNCHANGED <<scheduled, now, files, failed, failures,
                 drafts, unseen, spent>>

Ended ==
  /\ calls' = <<>> /\ scheduled' = <<>> /\ now' = Idle
  /\ cleanup' = NoCleanup
  /\ UNCHANGED <<files, failed, failures, drafts, unseen, account, spent>>

QuitEnds ==
  /\ phase = "quitting" /\ SyncAll \notin { calls[i] : i \in DOMAIN calls }
  /\ phase' = "off" /\ Ended

Killed ==
  /\ phase \in {"running", "quitting"} /\ spent.starts < MaxStarts
  /\ phase' = "killed" /\ Ended

\* start(): readMap() or, without a map, an account that is not logged in.
Start ==
  LET data == ReadFile("map")
      map == IF Readable("map") THEN data.keys ELSE Empty.map
  IN /\ phase \in {"off", "killed"} /\ spent.starts < MaxStarts
     /\ phase' = "running" /\ unseen' = Peers
     /\ account' = [Empty EXCEPT !.map = map,
                                 !.notRead = { p \in Peers : map[p] # NoKey }]
     /\ cleanup' = [step |-> "list", names |-> {}]
     /\ spent' = [spent EXCEPT !.starts = @ + 1]
     /\ UNCHANGED <<managerVars, drafts>>

\* ClearLegacyFiles() lists the folder on a thread of its own, ...
ListFiles ==
  /\ phase = "running" /\ cleanup.step = "list"
  /\ cleanup' = [ step |-> "ask",
                  names |-> { name \in Names : files[name] # Nowhere } ]
  /\ UNCHANGED <<managerVars, drafts, unseen, account, phase, spent>>

\* ... asks the main thread what is good, ...
AskGoodNames ==
  /\ phase = "running" /\ cleanup.step = "ask"
  /\ cleanup' = [ step |-> "remove", names |-> cleanup.names \ GoodNames(account) ]
  /\ UNCHANGED <<managerVars, drafts, unseen, account, phase, spent>>

\* ... and removes the rest.
RemoveFiles ==
  /\ phase = "running" /\ cleanup.step = "remove"
  /\ files' = [name \in Names |->
                 IF name \in cleanup.names THEN Nowhere ELSE files[name]]
  /\ cleanup' = NoCleanup
  /\ UNCHANGED <<calls, scheduled, now, failed, failures,
                 drafts, unseen, account, phase, spent>>

ThreadStep == Thread /\ UNCHANGED mainVars
Cleans == ListFiles \/ AskGoodNames \/ RemoveFiles

Next ==
  \/ \E p \in Peers : WriteDraft(p) \/ ClearDraft(p) \/ OpenChat(p)
  \/ PostedWriteMap \/ TimerFires
  \/ Quit \/ QuitEnds \/ Killed \/ Start
  \/ Cleans
  \/ ThreadStep

Spec == Init /\ [][Next]_vars

\* Posted calls and timers run, and so does the thread.
Fairness ==
  /\ WF_vars(PostedWriteMap) /\ WF_vars(TimerFires)
  /\ WF_vars((TakeWrite \/ TakeScheduled \/ TakeSync \/ Disk)
               /\ UNCHANGED mainVars)

FairSpec == Spec /\ Fairness

-----------------------------------------------------------------------------
\* The text of the chat's draft on the disk, found by the map on the disk.
Stored(p) ==
  LET map == ReadFile("map")
      key == IF map.kind = "map" THEN map.keys[p] ELSE NoKey
      data == IF key = NoKey THEN Nothing ELSE ReadFile(key)
  IN IF data.kind = "draft" THEN data.text ELSE 0

Saved(p) == drafts[p] # 0 /\ Stored(p) = drafts[p]
Spoiled(p) ==
  \/ ReadFile("map") = Cut
  \/ account.map[p] # NoKey /\ ReadFile(account.map[p]) = Cut

(* A draft that has come to the disk stays there, whatever other chats do,
   when the program is killed and started again and when unknown files are
   removed, until the user changes it, or opens its chat after the next start -
   or a write cut short by a full disk takes its file or the map. *)
SavedStays ==
  [][ \A p \in Peers :
        Saved(p) => \/ Saved(p)' \/ Spoiled(p)'
                    \/ WriteDraft(p) \/ ClearDraft(p) \/ OpenChat(p) ]_vars

(* A draft that has come to the disk is shown when its chat is opened after a
   start.  In the code it is removed then, by a reader that does not look for
   the tag it was written with. *)
SavedShown ==
  [][ \A p \in Peers : Saved(p) /\ OpenChat(p) => Saved(p)' ]_vars

Quiet == calls = <<>> /\ scheduled = <<>> /\ now = Idle /\ ~account.changed

(* When nothing is left to write, and after every quit, the disk holds what
   the user sees: the last text of each chat he has opened, and none for a
   chat whose draft is cleared, even though its file may have been written
   once more after it was removed. *)
Settled ==
  phase = "off" \/ (phase = "running" /\ Quiet) =>
    \A p \in Peers \ unseen :
      \/ Stored(p) = drafts[p]
      \/ {"map", account.map[p]} \cap failed # {}

(* What the user has changed comes to the disk, unless the program ends
   before or a write fails. *)
DraftSaved ==
  \A p \in Peers :
    phase = "running" /\ p \notin unseen /\ Stored(p) # drafts[p]
      ~> phase # "running" \/ Stored(p) = drafts[p] \/ failed # {}
=============================================================================
