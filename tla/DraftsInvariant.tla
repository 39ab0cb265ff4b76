--------------------------- MODULE DraftsInvariant ---------------------------
(***************************************************************************)
(* The inductive invariant behind the theorems about Drafts.  It follows   *)
(* the copies of what belongs into a file: the one on the disk, the one    *)
(* being written, the one scheduled and those the thread was called with.  *)
(***************************************************************************)
EXTENDS Drafts

Maps == [Peers -> Keys \cup {NoKey}]

MapData == [kind : {"map"}, keys : Maps]
DraftData == [kind : {"draft"}, text : Texts \ {0}]

DataOf(n) == IF n = "map" THEN MapData ELSE DraftData

Contents(n) == DataOf(n) \cup {Nothing, Cut}

Entries == { e \in [name : Names, data : MapData \cup DraftData] : e.data \in DataOf(e.name) }

Calls == [call : {"write"}, entry : Entries] \cup {Scheduled, SyncAll}

Steps == {"save", "clean", "plain", "fill", "rename"}

Contained == MapData \cup DraftData \cup {Nothing, Cut}

TypeManager ==
  /\ calls \in Seq(Calls) /\ scheduled \in Seq(Entries)
  /\ now \in {Idle} \cup [step : Steps, entry : Entries, sync : BOOLEAN]
  /\ files \in [Names -> [s : Contained, simple : Contained]]
  /\ \A n \in Names : files[n].s \in Contents(n) /\ files[n].simple \in Contents(n)
  /\ failed \subseteq Names /\ failures \in Nat

TypeMain ==
  /\ drafts \in [Peers -> Texts] /\ unseen \subseteq Peers
  /\ account \in [ map : Maps, notRead : SUBSET Peers, changed : BOOLEAN,
                   timer : BOOLEAN, posted : BOOLEAN ]
  /\ phase \in {"running", "quitting", "off", "killed"}
  /\ cleanup \in [step : {"none", "list", "ask", "remove"}, names : SUBSET Names]
  /\ spent \in [texts : Texts, starts : Nat, keys : SUBSET Keys]

TypeOK == TypeManager /\ TypeMain

-----------------------------------------------------------------------------
(* The copies of what belongs into the file n, and their order. *)

Wrote(n, x) == [call |-> "write", entry |-> Entry(n, x)]

InCalls(cs, n, x) == \E i \in DOMAIN cs : cs[i] = Wrote(n, x)
InQueue(q, n, x) == \E i \in DOMAIN q : q[i] = Entry(n, x)
InNow(n, x) == now # Idle /\ now.entry = Entry(n, x)

\* One call comes before the other, or is it.
Before(cs, n, x, y) ==
  \E i, j \in DOMAIN cs : i <= j /\ cs[i] = Wrote(n, x) /\ cs[j] = Wrote(n, y)

IsCalled(cs, n) == \E i \in DOMAIN cs : cs[i].call = "write" /\ cs[i].entry.name = n
Queued(q, n) == \E i \in DOMAIN q : q[i].name = n
Writing(n) == now # Idle /\ now.entry.name = n

\* The last call for n.
LastCall(cs, n, x) ==
  \E i \in DOMAIN cs : /\ cs[i] = Wrote(n, x)
                       /\ \A j \in DOMAIN cs : j > i =>
                            ~(cs[j].call = "write" /\ cs[j].entry.name = n)

Pending(n) == IsCalled(calls, n) \/ Queued(scheduled, n) \/ Writing(n)

Copy(n, x) ==
  x = ReadFile(n) \/ InNow(n, x) \/ InQueue(scheduled, n, x) \/ InCalls(calls, n, x)

\* y is a copy of n that is x, or reaches the disk after it.
Follows(n, x, y) ==
  \/ x = ReadFile(n) /\ Copy(n, y)
  \/ InNow(n, x) /\ (InNow(n, y) \/ InQueue(scheduled, n, y) \/ InCalls(calls, n, y))
  \/ InQueue(scheduled, n, x) /\ (InQueue(scheduled, n, y) \/ InCalls(calls, n, y))
  \/ Before(calls, n, x, y)

\* The copy of n that the disk will hold in the end.
Latest(n, x) ==
  IF IsCalled(calls, n) THEN LastCall(calls, n, x)
  ELSE IF Queued(scheduled, n) THEN InQueue(scheduled, n, x)
  ELSE IF Writing(n) THEN InNow(n, x)
  ELSE x = ReadFile(n)

Lost(n) == n \in failed /\ ~Pending(n)

DraftOf(text) == [kind |-> "draft", text |-> text]

\* The files of what the account knows.
Tracked(n) == n = "map" \/ \E p \in Peers : account.map[p] = n

-----------------------------------------------------------------------------
\* Nothing is left of the thread when the program does not run.
StoppedOK == phase \in {"off", "killed"} => calls = <<>> /\ scheduled = <<>> /\ now = Idle

\* The queue holds an entry for a name once.
QueueOK == \A i, j \in DOMAIN scheduled : scheduled[i].name = scheduled[j].name => i = j

\* What a step of writeNow() finds; the main thread may have cleared a file that
\* is not tracked any more.
NowOK ==
  LET n == now.entry.name
      f == files[n]
  IN /\ now.step = "clean" /\ Tracked(n) => f.s = now.entry.data
     /\ now.step = "fill" => f.simple \in {Cut, Nothing} /\ (Tracked(n) => f.simple = Cut)
     /\ now.step = "rename" =>
          /\ f.simple \in {now.entry.data, Cut, Nothing}
          /\ Tracked(n) => /\ f.simple # Nothing
                          /\ (f.simple = now.entry.data \/ n \in failed)

\* The maps there are: the account's, and those in the copies.
IsMap(m) == m = account.map \/ Copy("map", [kind |-> "map", keys |-> m])

\* Every key was generated, and for one chat.
KeysOK ==
  /\ \A k \in Keys : files[k] # Nowhere \/ Pending(k) => k \in spent.keys
  /\ \A m \in Maps, p \in Peers : IsMap(m) /\ m[p] # NoKey => m[p] \in spent.keys
  /\ \A l, m \in Maps, p, q \in Peers :
       IsMap(l) /\ IsMap(m) /\ l[p] = m[q] /\ l[p] # NoKey => p = q

\* A text of k: in a copy, or what the user sees under it.
IsText(k, t) ==
  \/ Copy(k, DraftOf(t))
  \/ \E p \in Peers \ unseen : account.map[p] = k /\ drafts[p] = t

\* Texts are written under one key each, and a later one comes to the disk later.
TextsOK ==
  /\ \A k \in Keys, t \in Texts \ {0} : IsText(k, t) => t <= spent.texts
  /\ \A k, j \in Keys, t \in Texts \ {0} : IsText(k, t) /\ IsText(j, t) => k = j
  /\ \A k \in Keys, t, u \in Texts \ {0} : Follows(k, DraftOf(t), DraftOf(u)) => t <= u
  /\ \A p \in Peers \ unseen, t \in Texts \ {0} :
       account.map[p] # NoKey /\ Copy(account.map[p], DraftOf(t)) => t <= drafts[p]

\* A chat that was opened has a key while it has a draft.
SeenOK == \A p \in Peers \ unseen : account.map[p] = NoKey <=> drafts[p] = 0

\* A chat that was not opened is as the start has found it.
UnseenOK ==
  \A p \in unseen :
    /\ p \in account.notRead <=> account.map[p] # NoKey
    /\ ~Pending(account.map[p])
    /\ \A m \in Maps : IsMap(m) => m[p] = account.map[p]

\* Once a copy of the map knows the key of a chat, the later ones do.
MapsOK ==
  \A x, y \in MapData, p \in Peers :
    Follows("map", x, y) /\ x.keys[p] = account.map[p] /\ account.map[p] # NoKey
      => y.keys[p] = account.map[p]

\* What is to be removed is not known to the account, and nobody gets its name.
CleanupOK ==
  /\ cleanup.names \subseteq {"map"} \cup spent.keys
  /\ cleanup.step = "remove" => \A n \in cleanup.names : ~Tracked(n)

\* Nothing is called after writeSyncAll() when the program quits.
QuitOK ==
  /\ phase = "running" => \A i \in DOMAIN calls : calls[i] # SyncAll
  /\ phase = "quitting" =>
       /\ \A i, j \in DOMAIN calls : calls[i] = SyncAll /\ calls[j].call = "write" => j < i
       /\ (\A i \in DOMAIN calls : calls[i] # SyncAll) =>
            scheduled = <<>> /\ now = Idle /\ \A i \in DOMAIN calls : calls[i].call # "write"
  /\ phase \in {"quitting", "off"} => ~account.changed

-----------------------------------------------------------------------------
\* A file of a draft that cannot be read and that nobody writes.
Dead(k) == k \in Keys /\ ~Pending(k) /\ ~Readable(k) /\ ~Tracked(k)

\* The map x tells of the chat what the account knows, or leads to nothing.
Agrees(x, p) ==
  LET k == IF x.kind = "map" THEN x.keys[p] ELSE NoKey
  IN k = account.map[p] \/ (account.map[p] = NoKey /\ Dead(k))

\* What the disk will hold is what the account knows and what the user sees.
LatestOK ==
  phase # "killed" =>
    /\ \/ account.changed \/ Lost("map")
       \/ \E x \in Contents("map") : Latest("map", x) /\ \A p \in Peers : Agrees(x, p)
    /\ \A p \in Peers \ unseen : account.map[p] # NoKey =>
         Lost(account.map[p]) \/ Latest(account.map[p], DraftOf(drafts[p]))

IInv ==
  /\ TypeOK
  /\ StoppedOK /\ QueueOK /\ NowOK /\ KeysOK /\ TextsOK /\ SeenOK /\ UnseenOK
  /\ MapsOK /\ CleanupOK /\ QuitOK /\ LatestOK
=============================================================================
