---------------------------- MODULE WriteManager ----------------------------
(***************************************************************************)
(* How local files are written (storage/details/storage_file_utilities.    *)
(* cpp): a thread of its own takes entries from a queue, gathers them per  *)
(* name, and replaces the file of a name: the new content is written aside *)
(* and renamed over the file "s" (QSaveFile); when that fails, it is       *)
(* written in place to the file "0", which is then renamed over "s".       *)
(*                                                                         *)
(* File "1" is only removed by this code and never written: it is left     *)
(* out.  An entry and a file's content are records that only their kind    *)
(* tells apart here.                                                       *)
(***************************************************************************)
EXTENDS Integers, Sequences

CONSTANTS Names,        \* the files of the account
          MaxFailures   \* bound: operations on files that fail

ASSUME FailuresAssumption == MaxFailures \in Nat

VARIABLES
  calls,      \* the thread's queue of calls
  scheduled,  \* _scheduled
  now,        \* writeNow() under way: the entry and what is done next
  files,      \* the disk: content of "s" and of "0" of every name
  failed,     \* history: names whose last entry did not reach the disk whole
  failures    \* how much of MaxFailures is used

managerVars == <<calls, scheduled, now, files, failed, failures>>

Nothing == [kind |-> "nothing"]
Cut == [kind |-> "cut"]      \* fails the check of its signature
Nowhere == [s |-> Nothing, simple |-> Nothing]

Idle == [step |-> "idle"]
Scheduled == [call |-> "scheduled"]
SyncAll == [call |-> "sync"]

\* AsyncWriteManager::write(), from the main thread.
Write(cs, entry) == Append(cs, [call |-> "write", entry |-> entry])

\* ReadFile(): "0" is only looked at when there is no "s".
ReadFile(name) ==
  IF files[name].s # Nothing THEN files[name].s ELSE files[name].simple

Readable(name) == ReadFile(name) \notin {Nothing, Cut}

\* ClearKey(), from the main thread.
ClearKey(fs, name) == [fs EXCEPT ![name] = Nowhere]

ManagerInit ==
  /\ calls = <<>> /\ scheduled = <<>> /\ now = Idle
  /\ files = [name \in Names |-> Nowhere]
  /\ failed = {} /\ failures = 0

-----------------------------------------------------------------------------
(* The thread's calls. *)

\* mistake: a name that waits for its turn is not put again
PutOnce(q, entry) ==
  IF \E i \in DOMAIN q : q[i].name = entry.name THEN q ELSE Append(q, entry)

\* An entry takes the place of the older one for the same name.
Put(q, entry) ==
  IF \E i \in DOMAIN q : q[i].name = entry.name
  THEN [i \in DOMAIN q |-> IF q[i].name = entry.name THEN entry ELSE q[i]]
  ELSE Append(q, entry)

Called(call) == now = Idle /\ calls # <<>> /\ Head(calls).call = call

TakeWrite ==
  /\ Called("write")
  /\ scheduled' = Put(scheduled, Head(calls).entry)
  /\ calls' = Append(Tail(calls), Scheduled)
  /\ UNCHANGED <<now, files, failed, failures>>

StartWriting(sync) ==
  /\ now' = [step |-> "save", entry |-> Head(scheduled), sync |-> sync]
  /\ scheduled' = Tail(scheduled)

\* writeScheduled(): one entry per call.
TakeScheduled ==
  /\ Called("scheduled")
  /\ IF scheduled = <<>> THEN UNCHANGED <<now, scheduled>>
     ELSE StartWriting(FALSE)
  /\ calls' = Tail(calls)
  /\ UNCHANGED <<files, failed, failures>>

\* writeSyncAll(): until there is none.
TakeSync ==
  /\ Called("sync")
  /\ IF scheduled = <<>>
     THEN calls' = Tail(calls) /\ UNCHANGED <<now, scheduled>>
     ELSE StartWriting(TRUE) /\ UNCHANGED calls
  /\ UNCHANGED <<files, failed, failures>>

\* The entry is done with; writeScheduled() posts another call for the rest.
Done(fs) ==
  /\ files' = fs
  /\ now' = Idle
  /\ calls' = IF ~now.sync /\ scheduled # <<>> THEN Append(calls, Scheduled)
              ELSE calls

-----------------------------------------------------------------------------
(* writeNow(), one operation on the disk at a time. *)

At(step) == now.step = step
Proceed(step) == now' = [now EXCEPT !.step = step]
Fails == failures < MaxFailures /\ failures' = failures + 1

\* commit(): the new file takes the place of "s" in one step.
Commit ==
  /\ At("save")
  /\ files' = [files EXCEPT ![now.entry.name].s = now.entry.data]
  /\ failed' = failed \ {now.entry.name}
  /\ Proceed("clean")
  /\ UNCHANGED <<calls, scheduled, failures>>

CommitFails ==
  /\ At("save") /\ Fails
  /\ Proceed("plain")
  /\ UNCHANGED <<calls, scheduled, files, failed>>

RemoveSimple ==
  /\ At("clean")
  /\ Done([files EXCEPT ![now.entry.name].simple = Nothing])
  /\ UNCHANGED <<scheduled, failed, failures>>

\* Opening the plain file truncates it.
OpenPlain ==
  /\ At("plain")
  /\ files' = [files EXCEPT ![now.entry.name].simple = Cut]
  /\ Proceed("fill")
  /\ UNCHANGED <<calls, scheduled, failed, failures>>

\* Neither file could be opened: the entry is dropped.
OpenPlainFails ==
  /\ At("plain") /\ Fails
  /\ Done(files)
  /\ failed' = failed \cup {now.entry.name}
  /\ UNCHANGED scheduled

FillPlain ==
  /\ At("fill")
  /\ files' = [files EXCEPT ![now.entry.name].simple =
                 IF @ = Nothing THEN Nothing ELSE now.entry.data]
  /\ failed' = failed \ {now.entry.name}
  /\ Proceed("rename")
  /\ UNCHANGED <<calls, scheduled, failures>>

\* The disk is full: what QFile::write() returns is not looked at.
FillPlainFails ==
  /\ At("fill") /\ Fails
  /\ failed' = failed \cup {now.entry.name}
  /\ Proceed("rename")
  /\ UNCHANGED <<calls, scheduled, files>>

Rename ==
  /\ At("rename") /\ files[now.entry.name].simple # Nothing
  /\ Done([files EXCEPT ![now.entry.name] =
             [s |-> @.simple, simple |-> Nothing]])
  /\ UNCHANGED <<scheduled, failed, failures>>

\* "0" stays, "s" is removed so that "0" is read.
RemoveSafe ==
  /\ At("rename")
  /\ Done([files EXCEPT ![now.entry.name].s = Nothing])
  /\ UNCHANGED <<scheduled, failed>>

RenameFails == RemoveSafe /\ Fails

\* The main thread has cleared the name meanwhile.
NothingToRename ==
  /\ RemoveSafe /\ files[now.entry.name].simple = Nothing
  /\ UNCHANGED failures

Disk ==
  Commit \/ RemoveSimple \/ OpenPlain \/ FillPlain \/ Rename \/ NothingToRename
DiskFails ==
  CommitFails \/ OpenPlainFails \/ FillPlainFails \/ RenameFails

Thread == TakeWrite \/ TakeScheduled \/ TakeSync \/ Disk \/ DiskFails

=============================================================================
