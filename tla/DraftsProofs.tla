---------------------------- MODULE DraftsProofs ----------------------------
(***************************************************************************)
(* Theorems about Drafts: for any chats, keys and bounds, what is on the   *)
(* disk stays there, and what the user sees gets there.                    *)
(***************************************************************************)
EXTENDS DraftsInvariant, SequenceTheorems, TLAPS

(***************************************************************************)
(* The kinds of data.                                                      *)
(***************************************************************************)

\* Names, and what the file of each is about.
LEMMA NameFacts ==
  /\ "map" \in Names /\ "map" \notin Keys /\ NoKey \notin Names /\ NoKey \notin Keys
  /\ Keys \subseteq Names /\ Names = Keys \cup {"map"}
  /\ DataOf("map") = MapData /\ \A k \in Keys : DataOf(k) = DraftData
  /\ Texts \subseteq Nat /\ MaxTexts \in Nat /\ 0 \in Texts
<1>1. /\ "map" \in Names /\ "map" \notin Keys /\ NoKey \notin Names /\ NoKey \notin Keys
      /\ Keys \subseteq Names /\ Names = Keys \cup {"map"}
  BY NamesAssumption DEF Keys, NoKey
<1>2. DataOf("map") = MapData /\ \A k \in Keys : DataOf(k) = DraftData
  BY DEF DataOf, Keys
<1>3. MaxTexts \in Nat
  BY BoundsAssumption
<1>4. Texts \subseteq Nat /\ 0 \in Texts
  BY <1>3 DEF Texts
<1> QED
  BY <1>1, <1>2, <1>3, <1>4

\* Data is neither nothing nor cut.
LEMMA DataFacts ==
  /\ \A n : Nothing \notin DataOf(n) /\ Cut \notin DataOf(n)
  /\ Nothing # Cut /\ Nothing.kind = "nothing" /\ Cut.kind = "cut"
  /\ \A x \in MapData : x.kind = "map" /\ x.keys \in Maps /\ x = [kind |-> "map", keys |-> x.keys]
  /\ \A m \in Maps : [kind |-> "map", keys |-> m] \in MapData
  /\ \A x \in DraftData : x.kind = "draft" /\ x.text \in Texts \ {0} /\ x = DraftOf(x.text)
  /\ \A t \in Texts \ {0} : DraftOf(t) \in DraftData /\ DraftOf(t).text = t
<1>1. \A x \in MapData : x.kind = "map" /\ x.keys \in Maps /\ x = [kind |-> "map", keys |-> x.keys]
  BY DEF MapData
<1>2. \A x \in DraftData : x.kind = "draft" /\ x.text \in Texts \ {0} /\ x = DraftOf(x.text)
  BY DEF DraftData, DraftOf
<1>3. Nothing # Cut /\ Nothing.kind = "nothing" /\ Cut.kind = "cut"
  BY DEF Nothing, Cut
<1>4. \A n : Nothing \notin DataOf(n) /\ Cut \notin DataOf(n)
  BY <1>1, <1>2, <1>3 DEF DataOf
<1>5. \A t \in Texts \ {0} : DraftOf(t) \in DraftData /\ DraftOf(t).text = t
  BY DEF DraftOf, DraftData
<1>6. \A m \in Maps : [kind |-> "map", keys |-> m] \in MapData
  BY DEF MapData
<1> QED
  BY <1>1, <1>2, <1>3, <1>4, <1>5, <1>6

\* A call to write is one for a name and its data.
LEMMA CallFacts ==
  ASSUME NEW c \in Calls
  PROVE  /\ \A n, x : c = Wrote(n, x) =>
              c.call = "write" /\ c.entry.name = n /\ n \in Names /\ x \in DataOf(n)
         /\ c.call = "write" => c = Wrote(c.entry.name, c.entry.data)
         /\ c.call # "write" => c = Scheduled \/ c = SyncAll
         /\ Scheduled.call = "scheduled" /\ SyncAll.call = "sync"
<1>1. Scheduled.call = "scheduled" /\ SyncAll.call = "sync"
  BY DEF Scheduled, SyncAll
<1>2. \A e \in Entries : e = Entry(e.name, e.data) /\ e.name \in Names /\ e.data \in DataOf(e.name)
  BY DEF Entries, Entry
<1>3. \A n, x : Wrote(n, x).call = "write" /\ Wrote(n, x).entry = Entry(n, x)
                /\ Entry(n, x).name = n /\ Entry(n, x).data = x
  BY DEF Wrote, Entry
<1>4. c \in [call : {"write"}, entry : Entries] \/ c = Scheduled \/ c = SyncAll
  BY DEF Calls
<1>5. CASE c \in [call : {"write"}, entry : Entries]
  <2>1. c.call = "write" /\ c.entry \in Entries /\ c = [call |-> "write", entry |-> c.entry]
    BY <1>5
  <2> QED
    BY <2>1, <1>1, <1>2, <1>3 DEF Wrote
<1>6. CASE c = Scheduled \/ c = SyncAll
  BY <1>1, <1>3, <1>6
<1> QED
  BY <1>4, <1>5, <1>6

\* An entry is one of a name and its data.
LEMMA EntryFacts ==
  /\ \A e \in Entries : /\ e = Entry(e.name, e.data) /\ e.name \in Names
                        /\ e.data \in DataOf(e.name)
  /\ \A n, x : Entry(n, x).name = n /\ Entry(n, x).data = x
  /\ \A n, x, m, y : Entry(n, x) = Entry(m, y) => n = m /\ x = y
  /\ \A n \in Names : \A x \in DataOf(n) : Entry(n, x) \in Entries
<1>1. \A e \in Entries : e = Entry(e.name, e.data) /\ e.name \in Names /\ e.data \in DataOf(e.name)
  BY DEF Entries, Entry
<1>2. \A n, x : Entry(n, x).name = n /\ Entry(n, x).data = x
  BY DEF Entry
<1>3. \A n \in Names : \A x \in DataOf(n) : Entry(n, x) \in Entries
  BY DEF Entries, Entry, DataOf
<1>4. \A n, x, m, y : Entry(n, x) = Entry(m, y) => n = m /\ x = y
  BY <1>2
<1> QED
  BY <1>1, <1>2, <1>3, <1>4

-----------------------------------------------------------------------------
(***************************************************************************)
(* The calls of the thread: one more at the end, one less at the start.    *)
(***************************************************************************)

\* The main thread calls for m to be written.
LEMMA CallWritten ==
  ASSUME NEW cs \in Seq(Calls), NEW m \in Names, NEW d \in DataOf(m),
         NEW n, NEW x
  PROVE  LET ds == Write(cs, Entry(m, d)) IN
         /\ ds \in Seq(Calls)
         /\ IsCalled(ds, n) <=> IsCalled(cs, n) \/ n = m
         /\ InCalls(ds, n, x) <=> InCalls(cs, n, x) \/ (n = m /\ x = d)
         /\ n # m => (LastCall(cs, n, x) => LastCall(ds, n, x))
         /\ LastCall(ds, m, d)
         /\ \A y : Before(ds, n, x, y) =>
              \/ Before(cs, n, x, y)
              \/ n = m /\ y = d /\ (x = d \/ InCalls(cs, n, x))
<1> DEFINE c == Wrote(m, d)
           ds == Append(cs, c)
<1>0. Write(cs, Entry(m, d)) = ds
  BY DEF Write, Wrote
<1>1. c \in Calls /\ c.call = "write" /\ c.entry.name = m
  BY EntryFacts DEF Calls, Wrote
<1>2. \A y, z : c = Wrote(y, z) <=> y = m /\ z = d
  BY EntryFacts DEF Wrote
<1> HIDE DEF c
<1>3. /\ ds \in Seq(Calls) /\ Len(ds) = Len(cs) + 1 /\ ds[Len(cs) + 1] = c
      /\ \A i \in 1 .. Len(cs) : ds[i] = cs[i]
      /\ Len(cs) \in Nat /\ DOMAIN cs = 1 .. Len(cs) /\ DOMAIN ds = 1 .. Len(cs) + 1
  BY <1>1, AppendProperties, LenProperties
<1> HIDE DEF ds
<1>4. IsCalled(ds, n) <=> IsCalled(cs, n) \/ n = m
  BY <1>1, <1>3 DEF IsCalled
<1>5. InCalls(ds, n, x) <=> InCalls(cs, n, x) \/ (n = m /\ x = d)
  BY <1>2, <1>3 DEF InCalls
<1>6. n # m => (LastCall(cs, n, x) => LastCall(ds, n, x))
  BY <1>1, <1>3 DEF LastCall
<1>7. LastCall(ds, m, d)
  BY <1>2, <1>3 DEF LastCall
<1>8. ASSUME NEW y, Before(ds, n, x, y)
      PROVE  Before(cs, n, x, y) \/ (n = m /\ y = d /\ (x = d \/ InCalls(cs, n, x)))
  BY <1>2, <1>3, <1>8 DEF Before, InCalls
<1> QED
  BY <1>0, <1>3, <1>4, <1>5, <1>6, <1>7, <1>8

\* The thread or the main thread calls for something else.
LEMMA CallOther ==
  ASSUME NEW cs \in Seq(Calls), NEW c \in {Scheduled, SyncAll},
         NEW n, NEW x
  PROVE  LET ds == Append(cs, c) IN
         /\ ds \in Seq(Calls)
         /\ IsCalled(ds, n) <=> IsCalled(cs, n)
         /\ InCalls(ds, n, x) <=> InCalls(cs, n, x)
         /\ LastCall(cs, n, x) => LastCall(ds, n, x)
         /\ \A y : Before(ds, n, x, y) => Before(cs, n, x, y)
<1> DEFINE ds == Append(cs, c)
<1>1. c \in Calls /\ c.call # "write" /\ \A y, z : c # Wrote(y, z)
  BY DEF Calls, Wrote, Scheduled, SyncAll
<1>3. /\ ds \in Seq(Calls) /\ Len(ds) = Len(cs) + 1 /\ ds[Len(cs) + 1] = c
      /\ \A i \in 1 .. Len(cs) : ds[i] = cs[i]
      /\ Len(cs) \in Nat /\ DOMAIN cs = 1 .. Len(cs) /\ DOMAIN ds = 1 .. Len(cs) + 1
  BY <1>1, AppendProperties, LenProperties
<1> HIDE DEF ds
<1>4. IsCalled(ds, n) <=> IsCalled(cs, n)
  BY <1>1, <1>3 DEF IsCalled
<1>5. InCalls(ds, n, x) <=> InCalls(cs, n, x)
  BY <1>1, <1>3 DEF InCalls
<1>6. LastCall(cs, n, x) => LastCall(ds, n, x)
  BY <1>1, <1>3 DEF LastCall
<1>8. ASSUME NEW y, Before(ds, n, x, y)
      PROVE  Before(cs, n, x, y)
  BY <1>1, <1>3, <1>8 DEF Before
<1> QED
  BY <1>3, <1>4, <1>5, <1>6, <1>8 DEF ds

\* The thread takes the first call.
LEMMA CallTaken ==
  ASSUME NEW cs \in Seq(Calls), cs # <<>>, NEW n, NEW x
  PROVE  LET ds == Tail(cs)
             c == Head(cs)
             takes == c.call = "write" /\ c.entry.name = n IN
         /\ ds \in Seq(Calls) /\ c \in Calls
         /\ IsCalled(cs, n) <=> IsCalled(ds, n) \/ takes
         /\ InCalls(ds, n, x) => InCalls(cs, n, x)
         /\ takes => InCalls(cs, n, c.entry.data)
         /\ LastCall(cs, n, x) => LastCall(ds, n, x) \/ (takes /\ x = c.entry.data /\ ~IsCalled(ds, n))
         /\ \A y : Before(ds, n, x, y) => Before(cs, n, x, y)
         /\ \A y : takes /\ x = c.entry.data /\ InCalls(ds, n, y) => Before(cs, n, x, y)
<1> DEFINE ds == Tail(cs)
           c == Head(cs)
           takes == c.call = "write" /\ c.entry.name = n
<1>1. /\ ds \in Seq(Calls) /\ Len(ds) = Len(cs) - 1 /\ cs[1] = c /\ c \in Calls
      /\ \A i \in 1 .. Len(ds) : ds[i] = cs[i + 1]
      /\ Len(cs) \in Nat /\ Len(cs) > 0
      /\ DOMAIN cs = 1 .. Len(cs) /\ DOMAIN ds = 1 .. Len(cs) - 1
  BY HeadTailProperties, LenProperties, EmptySeq
<1>2. \A y, z : c = Wrote(y, z) <=> c.call = "write" /\ y = c.entry.name /\ z = c.entry.data
  <2>1. \A y, z : Wrote(y, z).call = "write" /\ Wrote(y, z).entry.name = y /\ Wrote(y, z).entry.data = z
    BY EntryFacts DEF Wrote
  <2> QED
    BY <1>1, <2>1, CallFacts
<1>3. \A i \in 1 .. Len(cs) : cs[i] \in Calls
  BY <1>1, ElementOfSeq
<1> HIDE DEF ds, c
<1>4. \A i \in 1 .. Len(cs) : i = 1 \/ (i - 1 \in 1 .. Len(ds) /\ ds[i - 1] = cs[i])
  BY <1>1
<1>4a. \A i \in DOMAIN ds : i + 1 \in DOMAIN cs /\ cs[i + 1] = ds[i]
  BY <1>1
<1>5. IsCalled(cs, n) <=> IsCalled(ds, n) \/ takes
  <2>1. takes => IsCalled(cs, n)
    BY <1>1 DEF IsCalled
  <2>2. IsCalled(ds, n) => IsCalled(cs, n)
    BY Zenon, <1>4a DEF IsCalled
  <2>3. IsCalled(cs, n) => IsCalled(ds, n) \/ takes
    <3>1. \A i \in DOMAIN cs : i = 1 \/ (i - 1 \in DOMAIN ds /\ ds[i - 1] = cs[i])
      BY <1>1, <1>4
    <3> HIDE DEF takes
    <3>2. cs[1].call = "write" /\ cs[1].entry.name = n => takes
      BY <1>1 DEF takes
    <3> QED
      BY Zenon, <3>1, <3>2 DEF IsCalled
  <2> QED
    BY <2>1, <2>2, <2>3
<1>6. InCalls(ds, n, x) => InCalls(cs, n, x)
  BY Zenon, <1>4a DEF InCalls
<1>7. takes => InCalls(cs, n, c.entry.data)
  BY <1>1, <1>2 DEF InCalls
<1>8. ASSUME LastCall(cs, n, x) PROVE LastCall(ds, n, x) \/ (takes /\ x = c.entry.data /\ ~IsCalled(ds, n))
  <2>1. PICK i \in 1 .. Len(cs) : /\ cs[i] = Wrote(n, x)
                       /\ \A j \in 1 .. Len(cs) : j > i =>
                            ~(cs[j].call = "write" /\ cs[j].entry.name = n)
    BY <1>1, <1>8 DEF LastCall
  <2>2. CASE i = 1
    BY <1>1, <1>2, <2>1, <2>2 DEF IsCalled
  <2>3. CASE i # 1
    <3>1. i - 1 \in DOMAIN ds /\ ds[i - 1] = Wrote(n, x)
      BY <1>1, <1>4, <2>1, <2>3
    <3>2. \A j \in DOMAIN ds : j > i - 1 => ~(ds[j].call = "write" /\ ds[j].entry.name = n)
      BY <1>1, <2>1
    <3> QED
      BY <3>1, <3>2 DEF LastCall
  <2> QED
    BY <2>2, <2>3
<1>9. ASSUME NEW y, Before(ds, n, x, y) PROVE Before(cs, n, x, y)
  <2>1. PICK i, j \in DOMAIN ds : i <= j /\ ds[i] = Wrote(n, x) /\ ds[j] = Wrote(n, y)
    BY <1>9 DEF Before
  <2>2. i + 1 \in DOMAIN cs /\ j + 1 \in DOMAIN cs /\ i + 1 <= j + 1
        /\ cs[i + 1] = Wrote(n, x) /\ cs[j + 1] = Wrote(n, y)
    BY <1>1, <2>1
  <2> QED
    BY <2>2 DEF Before
<1>10. ASSUME NEW y, takes, x = c.entry.data, InCalls(ds, n, y) PROVE Before(cs, n, x, y)
  <2>1. PICK j \in DOMAIN ds : ds[j] = Wrote(n, y)
    BY <1>10 DEF InCalls
  <2>2. 1 \in DOMAIN cs /\ j + 1 \in DOMAIN cs /\ 1 <= j + 1
        /\ cs[1] = Wrote(n, x) /\ cs[j + 1] = Wrote(n, y)
    BY <1>1, <1>2, <1>10, <2>1
  <2> QED
    BY <2>2 DEF Before
<1> QED
  BY <1>1, <1>5, <1>6, <1>7, <1>8, <1>9, <1>10 DEF ds, c
-----------------------------------------------------------------------------
(***************************************************************************)
(* The queue of entries.                                                   *)
(***************************************************************************)

\* A queue that holds an entry for a name once.
Single(q) == \A i, j \in DOMAIN q : q[i].name = q[j].name => i = j

\* An entry takes the place of the one for its name.
LEMMA EntryPut ==
  ASSUME NEW q \in Seq(Entries), Single(q), NEW e \in Entries, NEW n, NEW x
  PROVE  LET r == Put(q, e) IN
         /\ r \in Seq(Entries) /\ Single(r)
         /\ Queued(r, n) <=> Queued(q, n) \/ n = e.name
         /\ InQueue(r, n, x) <=> IF n = e.name THEN x = e.data ELSE InQueue(q, n, x)
<1> DEFINE r == Put(q, e)
<1>1. Len(q) \in Nat /\ DOMAIN q = 1 .. Len(q) /\ \A i \in 1 .. Len(q) : q[i] \in Entries
  BY LenProperties, ElementOfSeq
<1>2. CASE \E i \in DOMAIN q : q[i].name = e.name
  <2>1. r = [i \in DOMAIN q |-> IF q[i].name = e.name THEN e ELSE q[i]]
    BY <1>2 DEF Put
  <2>2. /\ DOMAIN r = DOMAIN q
        /\ \A i \in DOMAIN q : r[i] = IF q[i].name = e.name THEN e ELSE q[i]
    BY <2>1
  <2>3. r \in [1 .. Len(q) -> Entries]
    BY <1>1, <2>1
  <2>4. r \in Seq(Entries)
    BY <1>1, <2>3
  <2> HIDE DEF r
  <2>5. Single(r)
    BY <2>2 DEF Single
  <2>6. Queued(r, n) <=> Queued(q, n) \/ n = e.name
    BY <1>2, <2>2 DEF Queued
  <2>7. InQueue(r, n, x) <=> IF n = e.name THEN x = e.data ELSE InQueue(q, n, x)
    <3>1. CASE n = e.name
      BY <1>2, <2>2, <3>1, EntryFacts DEF InQueue
    <3>2. CASE n # e.name
      BY <2>2, <3>2, EntryFacts DEF InQueue
    <3> QED
      BY <3>1, <3>2
  <2> QED
    BY <2>4, <2>5, <2>6, <2>7 DEF r
<1>3. CASE ~ \E i \in DOMAIN q : q[i].name = e.name
  <2>1. r = Append(q, e)
    BY <1>3 DEF Put
  <2>2. /\ r \in Seq(Entries) /\ Len(r) = Len(q) + 1 /\ r[Len(q) + 1] = e
        /\ \A i \in 1 .. Len(q) : r[i] = q[i]
        /\ DOMAIN r = 1 .. Len(q) + 1
    BY <2>1, AppendProperties, LenProperties
  <2> HIDE DEF r
  <2>5. Single(r)
    BY <1>1, <1>3, <2>2 DEF Single
  <2>6. Queued(r, n) <=> Queued(q, n) \/ n = e.name
    BY <1>1, <2>2 DEF Queued
  <2>7. InQueue(r, n, x) <=> IF n = e.name THEN x = e.data ELSE InQueue(q, n, x)
    <3>0. Entry(n, x).name = n /\ Entry(n, x).data = x /\ e = Entry(e.name, e.data)
      BY EntryFacts
    <3>1. CASE n = e.name
      <4>1. \A i \in 1 .. Len(q) : r[i] # Entry(n, x)
        BY <1>1, <1>3, <2>2, <3>0, <3>1
      <4> QED
        BY <1>1, <2>2, <3>0, <3>1, <4>1 DEF InQueue
    <3>2. CASE n # e.name
      BY <1>1, <2>2, <3>2, <3>0 DEF InQueue
    <3> QED
      BY <3>1, <3>2
  <2> QED
    BY <2>2, <2>5, <2>6, <2>7 DEF r
<1> QED
  BY <1>2, <1>3

\* The first entry leaves the queue.
LEMMA EntryTaken ==
  ASSUME NEW q \in Seq(Entries), Single(q), q # <<>>, NEW n, NEW x
  PROVE  LET r == Tail(q)
             e == Head(q) IN
         /\ r \in Seq(Entries) /\ Single(r) /\ e \in Entries
         /\ Queued(q, n) <=> Queued(r, n) \/ n = e.name
         /\ InQueue(q, n, x) <=> InQueue(r, n, x) \/ (n = e.name /\ x = e.data)
         /\ ~Queued(r, e.name) /\ ~InQueue(r, e.name, x)
<1> DEFINE r == Tail(q)
           e == Head(q)
<1>1. /\ r \in Seq(Entries) /\ Len(r) = Len(q) - 1 /\ q[1] = e /\ e \in Entries
      /\ \A i \in 1 .. Len(r) : r[i] = q[i + 1]
      /\ Len(q) \in Nat /\ Len(q) > 0
      /\ DOMAIN q = 1 .. Len(q) /\ DOMAIN r = 1 .. Len(q) - 1
  BY HeadTailProperties, LenProperties, EmptySeq
<1>2. e = Entry(e.name, e.data) /\ Entry(n, x).name = n /\ Entry(n, x).data = x
      /\ Entry(e.name, x).name = e.name
  BY <1>1, EntryFacts
<1> HIDE DEF r, e
<1>3. \A i \in 1 .. Len(q) : i = 1 \/ (i - 1 \in 1 .. Len(r) /\ r[i - 1] = q[i])
  BY <1>1
<1>4. ~Queued(r, e.name)
  BY <1>1 DEF Queued, Single
<1>5. ~InQueue(r, e.name, x)
  BY <1>4, <1>2 DEF Queued, InQueue
<1>6. Single(r)
  <2> SUFFICES ASSUME NEW i \in DOMAIN r, NEW j \in DOMAIN r, r[i].name = r[j].name
               PROVE  i = j
    BY DEF Single
  <2>1. i + 1 \in DOMAIN q /\ j + 1 \in DOMAIN q /\ q[i + 1].name = q[j + 1].name
    BY <1>1
  <2>2. i + 1 = j + 1
    BY <2>1 DEF Single
  <2> QED
    BY <1>1, <2>2
<1>7. Queued(q, n) <=> Queued(r, n) \/ n = e.name
  <2>1. Queued(r, n) => Queued(q, n)
    BY <1>1 DEF Queued
  <2>3. n = e.name => Queued(q, n)
    BY <1>1 DEF Queued
  <2>2. Queued(q, n) => Queued(r, n) \/ n = e.name
    BY <1>1, <1>3 DEF Queued
  <2> QED
    BY <2>1, <2>2, <2>3
<1>8. InQueue(q, n, x) <=> InQueue(r, n, x) \/ (n = e.name /\ x = e.data)
  <2>1. InQueue(r, n, x) \/ (n = e.name /\ x = e.data) => InQueue(q, n, x)
    BY <1>1, <1>2 DEF InQueue
  <2>2. ASSUME NEW i \in 1 .. Len(q), q[i] = Entry(n, x)
        PROVE  InQueue(r, n, x) \/ (n = e.name /\ x = e.data)
    <3>1. CASE i = 1
      BY <1>1, <1>2, <2>2, <3>1
    <3>2. CASE i # 1
      BY <1>1, <1>3, <2>2, <3>2 DEF InQueue
    <3> QED
      BY <3>1, <3>2
  <2> QED
    BY <1>1, <2>1, <2>2 DEF InQueue
<1> QED
  BY <1>1, <1>4, <1>5, <1>6, <1>7, <1>8 DEF r, e
-----------------------------------------------------------------------------
(***************************************************************************)
(* What a step of the thread does to the copies of what belongs into a     *)
(* file: they move towards the disk in their order, and none appears.      *)
(***************************************************************************)
CopiesKept == \A n \in Names : \A x \in DataOf(n) : Copy(n, x)' => Copy(n, x)

OrderKept ==
  \A n \in Names : \A x, y \in DataOf(n) : Follows(n, x, y)' => Follows(n, x, y)

PendingKept == \A n \in Names : Pending(n)' => Pending(n)

OthersKept ==
  \A n \in Names : ~Pending(n) =>
    files'[n] = files[n] /\ (n \in failed' <=> n \in failed)

LatestKept ==
  \A n \in Names : Tracked(n) =>
    \A x \in Contents(n) : Latest(n, x) => Latest(n, x)' \/ Lost(n)'

\* A file changes to what is being written, is cut or, when the account does not
\* know it any more, goes away.
DiskKept ==
  \A n \in Names :
    \/ ReadFile(n)' = ReadFile(n)
    \/ InNow(n, ReadFile(n)')
    \/ ReadFile(n)' = Cut
    \/ ReadFile(n)' = Nothing /\ ~Tracked(n)

Flows == CopiesKept /\ OrderKept /\ PendingKept /\ OthersKept /\ LatestKept /\ DiskKept

\* The thread is idle, or it writes an entry.
LEMMA NowFacts ==
  ASSUME TypeManager
  PROVE  /\ Idle.step = "idle"
         /\ now = Idle <=> now.step = "idle"
         /\ now # Idle => /\ now \in [step : Steps, entry : Entries, sync : BOOLEAN]
                          /\ now.entry.name \in Names
                          /\ now.entry.data \in DataOf(now.entry.name)
                          /\ now.entry = Entry(now.entry.name, now.entry.data)
         /\ \A n, x : InNow(n, x) <=> Writing(n) /\ x = now.entry.data
<1>1. Idle.step = "idle"
  BY DEF Idle
<1>2. now # Idle => now \in [step : Steps, entry : Entries, sync : BOOLEAN]
  BY DEF TypeManager
<1>3. now = Idle <=> now.step = "idle"
  BY <1>1, <1>2 DEF Steps
<1>4. now # Idle => /\ now.entry \in Entries
                    /\ now.entry.name \in Names
                    /\ now.entry.data \in DataOf(now.entry.name)
                    /\ now.entry = Entry(now.entry.name, now.entry.data)
  BY <1>2, EntryFacts
<1>5. \A n, x : InNow(n, x) <=> Writing(n) /\ x = now.entry.data
  BY <1>4, EntryFacts DEF InNow, Writing
<1> QED
  BY <1>1, <1>2, <1>3, <1>4, <1>5

\* A copy that is called for or queued makes the name one that is.
LEMMA PendingFacts ==
  ASSUME TypeManager, NEW n \in Names
  PROVE  /\ \A x : InCalls(calls, n, x) =>
              IsCalled(calls, n) /\ x \in DataOf(n) /\ Before(calls, n, x, x)
         /\ \A x : InQueue(scheduled, n, x) => Queued(scheduled, n) /\ x \in DataOf(n)
         /\ \A x : InNow(n, x) => Writing(n) /\ x \in DataOf(n)
         /\ \A x : LastCall(calls, n, x) => InCalls(calls, n, x)
         /\ \A x, y : Before(calls, n, x, y) => InCalls(calls, n, x) /\ InCalls(calls, n, y)
         /\ IsCalled(calls, n) => \E x \in DataOf(n) : InCalls(calls, n, x)
         /\ Queued(scheduled, n) => \E x \in DataOf(n) : InQueue(scheduled, n, x)
<1>1. \A i \in DOMAIN calls : calls[i] \in Calls
  BY LenProperties, ElementOfSeq DEF TypeManager
<1>2. \A i \in DOMAIN scheduled : scheduled[i] \in Entries
  BY LenProperties, ElementOfSeq DEF TypeManager
<1>3. DOMAIN calls \subseteq Nat /\ \A i \in DOMAIN calls : i <= i
  BY LenProperties DEF TypeManager
<1>4. \A x : InCalls(calls, n, x) =>
              IsCalled(calls, n) /\ x \in DataOf(n) /\ Before(calls, n, x, x)
  BY <1>1, <1>3, CallFacts DEF InCalls, IsCalled, Before
<1>5. \A x : InQueue(scheduled, n, x) => Queued(scheduled, n) /\ x \in DataOf(n)
  BY <1>2, EntryFacts DEF InQueue, Queued
<1>6. \A x : InNow(n, x) => Writing(n) /\ x \in DataOf(n)
  BY NowFacts DEF Writing
<1>7. \A x : LastCall(calls, n, x) => InCalls(calls, n, x)
  BY DEF LastCall, InCalls
<1>8. \A x, y : Before(calls, n, x, y) => InCalls(calls, n, x) /\ InCalls(calls, n, y)
  BY DEF Before, InCalls
<1>9. IsCalled(calls, n) => \E x \in DataOf(n) : InCalls(calls, n, x)
  <2> SUFFICES ASSUME NEW i \in DOMAIN calls, calls[i].call = "write", calls[i].entry.name = n
               PROVE  \E x \in DataOf(n) : InCalls(calls, n, x)
    BY DEF IsCalled
  <2>1. calls[i] = Wrote(n, calls[i].entry.data)
    BY <1>1, CallFacts
  <2>2. InCalls(calls, n, calls[i].entry.data)
    BY <2>1 DEF InCalls
  <2> QED
    BY <1>4, <2>2
<1>10. Queued(scheduled, n) => \E x \in DataOf(n) : InQueue(scheduled, n, x)
  <2> SUFFICES ASSUME NEW i \in DOMAIN scheduled, scheduled[i].name = n
               PROVE  \E x \in DataOf(n) : InQueue(scheduled, n, x)
    BY DEF Queued
  <2>1. scheduled[i] = Entry(n, scheduled[i].data)
    BY <1>2, EntryFacts
  <2>2. InQueue(scheduled, n, scheduled[i].data)
    BY <2>1 DEF InQueue
  <2> QED
    BY <1>5, <2>2
<1> QED
  BY <1>4, <1>5, <1>6, <1>7, <1>8, <1>9, <1>10

-----------------------------------------------------------------------------
(***************************************************************************)
(* The steps of the thread, one by one.                                    *)
(***************************************************************************)

\* A step that changes no file leaves what can be read of it.
LEMMA ReadSame ==
  ASSUME NEW n \in Names, files'[n] = files[n]
  PROVE  ReadFile(n)' = ReadFile(n)
BY DEF ReadFile

\* A call to write is put into the queue.
LEMMA TakeWriteFlows ==
  ASSUME TypeManager, QueueOK, TakeWrite
  PROVE  /\ Flows
         /\ calls' \in Seq(Calls) /\ scheduled' \in Seq(Entries) /\ QueueOK'
<1> DEFINE c == Head(calls)
           e == c.entry
           ds == Tail(calls)
<1>1. /\ now = Idle /\ calls # <<>> /\ c.call = "write"
      /\ scheduled' = Put(scheduled, e) /\ calls' = Append(ds, Scheduled)
      /\ UNCHANGED <<now, files, failed, failures>>
  BY DEF TakeWrite, Called
<1>2. calls \in Seq(Calls) /\ scheduled \in Seq(Entries) /\ Single(scheduled)
  BY DEF TypeManager, QueueOK, Single
<1>3. ds \in Seq(Calls) /\ c \in Calls
  BY <1>1, <1>2, CallTaken
<1>4. e \in Entries /\ e.name \in Names /\ e.data \in DataOf(e.name)
  BY <1>1, <1>3, CallFacts, EntryFacts DEF Calls, Scheduled, SyncAll
<1>5. \A n, x : /\ IsCalled(calls, n) <=> IsCalled(ds, n) \/ n = e.name
                /\ InCalls(ds, n, x) => InCalls(calls, n, x)
                /\ n = e.name => InCalls(calls, n, e.data)
                /\ LastCall(calls, n, x) =>
                     LastCall(ds, n, x) \/ (n = e.name /\ x = e.data /\ ~IsCalled(ds, n))
                /\ \A y : Before(ds, n, x, y) => Before(calls, n, x, y)
                /\ \A y : n = e.name /\ x = e.data /\ InCalls(ds, n, y) => Before(calls, n, x, y)
  BY <1>1, <1>2, CallTaken
<1>6. \A n, x : /\ IsCalled(calls', n) <=> IsCalled(ds, n)
                /\ InCalls(calls', n, x) <=> InCalls(ds, n, x)
                /\ LastCall(ds, n, x) => LastCall(calls', n, x)
                /\ \A y : Before(calls', n, x, y) => Before(ds, n, x, y)
  BY <1>1, <1>3, CallOther
<1>7. /\ scheduled' \in Seq(Entries) /\ Single(scheduled')
      /\ \A n, x : /\ Queued(scheduled', n) <=> Queued(scheduled, n) \/ n = e.name
                   /\ InQueue(scheduled', n, x) <=>
                        IF n = e.name THEN x = e.data ELSE InQueue(scheduled, n, x)
  BY <1>1, <1>2, <1>4, EntryPut
<1>8. calls' \in Seq(Calls)
  BY <1>1, <1>3, CallOther
<1> HIDE DEF c, e, ds
<1>9. \A n, x : ~InNow(n, x) /\ ~InNow(n, x)' /\ ~Writing(n) /\ ~Writing(n)'
  BY <1>1 DEF InNow, Writing
<1>10. \A n \in Names : ReadFile(n)' = ReadFile(n)
  BY <1>1, ReadSame
<1>11. \A n, x : Copy(n, x)' <=> \/ x = ReadFile(n)' \/ InNow(n, x)'
                                 \/ InQueue(scheduled', n, x) \/ InCalls(calls', n, x)
  BY DEF Copy, InQueue, InCalls
<1>12. CopiesKept
  BY <1>5, <1>6, <1>7, <1>9, <1>10, <1>11 DEF CopiesKept, Copy
<1>13. OrderKept
  <2> SUFFICES ASSUME NEW n \in Names, NEW x \in DataOf(n), NEW y \in DataOf(n),
                      Follows(n, x, y)'
               PROVE  Follows(n, x, y)
    BY DEF OrderKept
  <2>1. \/ x = ReadFile(n)' /\ Copy(n, y)'
        \/ InQueue(scheduled', n, x) /\ (InQueue(scheduled', n, y) \/ InCalls(calls', n, y))
        \/ Before(calls', n, x, y)
    BY <1>9 DEF Follows
  <2>2. CASE x = ReadFile(n)' /\ Copy(n, y)'
    BY <1>10, <1>12, <2>2 DEF CopiesKept, Follows
  <2>3. CASE Before(calls', n, x, y)
    BY <1>5, <1>6, <2>3 DEF Follows
  <2>4. CASE InQueue(scheduled', n, x) /\ InQueue(scheduled', n, y)
    <3>1. CASE n = e.name
      BY <1>5, <1>7, <2>4, <3>1, PendingFacts DEF Follows
    <3>2. CASE n # e.name
      BY <1>7, <2>4, <3>2 DEF Follows
    <3> QED
      BY <3>1, <3>2
  <2>5. CASE InQueue(scheduled', n, x) /\ InCalls(calls', n, y)
    BY <1>5, <1>6, <1>7, <2>5 DEF Follows
  <2> QED
    BY <2>1, <2>2, <2>3, <2>4, <2>5
<1>14. \A n : Pending(n)' <=> Pending(n)
  BY <1>5, <1>6, <1>7, <1>9 DEF Pending
<1>15. LatestKept
  <2> SUFFICES ASSUME NEW n \in Names, NEW x \in Contents(n), Latest(n, x)
               PROVE  Latest(n, x)'
    BY DEF LatestKept
  <2>1. Latest(n, x)' <=> IF IsCalled(calls', n) THEN LastCall(calls', n, x)
                          ELSE IF Queued(scheduled', n) THEN InQueue(scheduled', n, x)
                          ELSE x = ReadFile(n)'
    BY <1>9 DEF Latest
  <2>2. CASE IsCalled(calls, n)
    <3>1. LastCall(calls, n, x)
      BY <2>2 DEF Latest
    <3>2. CASE LastCall(ds, n, x)
      <4>1. IsCalled(ds, n)
        BY <3>2, EntryFacts DEF LastCall, IsCalled, Wrote
      <4> QED
        BY <1>6, <2>1, <3>2, <4>1
    <3>3. CASE n = e.name /\ x = e.data /\ ~IsCalled(ds, n)
      BY <1>6, <1>7, <2>1, <3>3
    <3> QED
      BY <1>5, <3>1, <3>2, <3>3
  <2>3. CASE ~IsCalled(calls, n)
    BY <1>5, <1>6, <1>7, <1>9, <1>10, <2>1, <2>3 DEF Latest
  <2> QED
    BY <2>2, <2>3
<1> QED
  BY <1>1, <1>7, <1>8, <1>10, <1>12, <1>13, <1>14, <1>15
  DEF Flows, PendingKept, OthersKept, DiskKept, QueueOK, Single
\* An entry leaves the queue to be written.
LEMMA StartWritingFlows ==
  ASSUME TypeManager, QueueOK, NEW sync \in BOOLEAN,
         now = Idle, scheduled # <<>>, StartWriting(sync),
         calls' = calls \/ (calls' = Tail(calls) /\ calls # <<>> /\ Head(calls) = Scheduled),
         UNCHANGED <<files, failed>>
  PROVE  /\ Flows
         /\ calls' \in Seq(Calls) /\ scheduled' \in Seq(Entries) /\ QueueOK'
         /\ now' \in [step : Steps, entry : Entries, sync : BOOLEAN] /\ now'.step = "save"
<1> DEFINE e == Head(scheduled)
<1>1. /\ now' = [step |-> "save", entry |-> e, sync |-> sync]
      /\ scheduled' = Tail(scheduled)
  BY DEF StartWriting
<1>2. calls \in Seq(Calls) /\ scheduled \in Seq(Entries) /\ Single(scheduled)
  BY DEF TypeManager, QueueOK, Single
<1>3. /\ scheduled' \in Seq(Entries) /\ Single(scheduled') /\ e \in Entries
      /\ \A n, x : /\ Queued(scheduled, n) <=> Queued(scheduled', n) \/ n = e.name
                   /\ InQueue(scheduled, n, x) <=>
                        InQueue(scheduled', n, x) \/ (n = e.name /\ x = e.data)
                   /\ ~Queued(scheduled', e.name) /\ ~InQueue(scheduled', e.name, x)
  BY <1>1, <1>2, EntryTaken
<1> HIDE DEF e
<1>4. /\ calls' \in Seq(Calls)
      /\ \A n, x : /\ IsCalled(calls', n) <=> IsCalled(calls, n)
                   /\ InCalls(calls', n, x) => InCalls(calls, n, x)
                   /\ LastCall(calls, n, x) => LastCall(calls', n, x)
                   /\ \A y : Before(calls', n, x, y) => Before(calls, n, x, y)
  <2>1. CASE calls' = calls
    BY <1>2, <2>1
  <2>2. CASE calls' = Tail(calls) /\ calls # <<>> /\ Head(calls) = Scheduled
    <3>1. Head(calls).call # "write"
      BY <2>2 DEF Scheduled
    <3>2. calls' \in Seq(Calls)
      BY <1>2, <2>2, CallTaken
    <3> QED
      BY <1>2, <2>2, <3>1, <3>2, CallTaken
  <2> QED
    BY <2>1, <2>2
<1>5. now' \in [step : Steps, entry : Entries, sync : BOOLEAN] /\ now'.step = "save"
      /\ now'.entry = e
  BY <1>1, <1>3 DEF Steps
<1>6. now'.step # "idle"
  BY <1>5
<1>7. now' # Idle
  BY <1>6 DEF Idle
<1>8. \A n, x : /\ ~InNow(n, x) /\ ~Writing(n)
                /\ InNow(n, x)' <=> (n = e.name /\ x = e.data)
                /\ Writing(n)' <=> n = e.name
  BY <1>3, <1>5, <1>7, EntryFacts DEF InNow, Writing
<1>9. \A n \in Names : ReadFile(n)' = ReadFile(n)
  BY ReadSame
<1>10. CopiesKept
  BY <1>3, <1>4, <1>8, <1>9 DEF CopiesKept, Copy
<1>11. OrderKept
  <2> SUFFICES ASSUME NEW n \in Names, NEW x \in DataOf(n), NEW y \in DataOf(n),
                      Follows(n, x, y)'
               PROVE  Follows(n, x, y)
    BY DEF OrderKept
  <2>1. CASE x = ReadFile(n)' /\ Copy(n, y)'
    BY <1>9, <1>10, <2>1 DEF CopiesKept, Follows
  <2>2. CASE InNow(n, x)' /\ (InNow(n, y)' \/ InQueue(scheduled', n, y) \/ InCalls(calls', n, y))
    BY <1>3, <1>4, <1>8, <2>2 DEF Follows
  <2>3. CASE InQueue(scheduled', n, x) /\ (InQueue(scheduled', n, y) \/ InCalls(calls', n, y))
    BY <1>3, <1>4, <2>3 DEF Follows
  <2>4. CASE Before(calls', n, x, y)
    BY <1>4, <2>4 DEF Follows
  <2> QED
    BY <2>1, <2>2, <2>3, <2>4 DEF Follows
<1>12. \A n : Pending(n)' <=> Pending(n)
  BY <1>3, <1>4, <1>8 DEF Pending
<1>13. LatestKept
  <2> SUFFICES ASSUME NEW n \in Names, NEW x \in Contents(n), Latest(n, x)
               PROVE  Latest(n, x)'
    BY DEF LatestKept
  <2>1. Latest(n, x)' <=> IF IsCalled(calls', n) THEN LastCall(calls', n, x)
                          ELSE IF Queued(scheduled', n) THEN InQueue(scheduled', n, x)
                          ELSE IF Writing(n)' THEN InNow(n, x)'
                          ELSE x = ReadFile(n)'
    BY DEF Latest
  <2>2. CASE IsCalled(calls, n)
    BY <1>4, <2>1, <2>2 DEF Latest
  <2>3. CASE ~IsCalled(calls, n) /\ Queued(scheduled, n)
    <3>1. InQueue(scheduled, n, x)
      BY <2>3 DEF Latest
    <3>2. CASE n = e.name
      <4>1. x = e.data /\ ~Queued(scheduled', n)
        BY <1>3, <3>1, <3>2
      <4>2. InNow(n, x)' /\ Writing(n)'
        BY <1>8, <3>2, <4>1
      <4> QED
        BY <1>4, <2>1, <2>3, <4>1, <4>2
    <3>3. CASE n # e.name
      <4>1. InQueue(scheduled', n, x) /\ Queued(scheduled', n)
        BY <1>3, <2>3, <3>1, <3>3
      <4> QED
        BY <1>4, <2>1, <2>3, <4>1
    <3> QED
      BY <3>2, <3>3
  <2>4. CASE ~IsCalled(calls, n) /\ ~Queued(scheduled, n)
    BY <1>3, <1>4, <1>8, <1>9, <2>1, <2>4 DEF Latest
  <2> QED
    BY <2>2, <2>3, <2>4
<1> QED
  BY <1>3, <1>4, <1>5, <1>9, <1>10, <1>11, <1>12, <1>13
  DEF Flows, PendingKept, OthersKept, DiskKept, QueueOK, Single

\* A step of writeNow() touches the file of its entry, and writes that entry,
\* cuts the file, or finds it cleared; an entry is over when it was written or
\* has failed.
LEMMA WriteNowFlows ==
  ASSUME TypeManager, now # Idle, scheduled' = scheduled,
         calls' = calls \/ calls' = Append(calls, Scheduled),
         now' = Idle \/ (now' # Idle /\ now'.entry = now.entry),
         NEW n0, n0 = now.entry.name,
         \A n \in Names \ {n0} : files'[n] = files[n] /\ (n \in failed' <=> n \in failed),
         \/ ReadFile(n0)' = ReadFile(n0)
         \/ ReadFile(n0)' = now.entry.data
         \/ ReadFile(n0)' = Cut
         \/ ReadFile(n0)' = Nothing /\ ~Tracked(n0),
         now' = Idle /\ Tracked(n0) => ReadFile(n0)' = now.entry.data \/ n0 \in failed'
  PROVE  Flows
<1> DEFINE d == now.entry.data
<1>1. /\ \A n, x : InNow(n, x) <=> n = n0 /\ x = d
      /\ \A n : Writing(n) <=> n = n0
      /\ \A n, x : InNow(n, x)' => InNow(n, x)
      /\ \A n : Writing(n)' <=> now' # Idle /\ n = n0
      /\ n0 \in Names
  BY NowFacts DEF InNow, Writing
<1>2. now' # Idle => \A n, x : InNow(n, x)' <=> InNow(n, x)
  BY DEF InNow
<1>3. \A n, x : /\ IsCalled(calls', n) <=> IsCalled(calls, n)
                /\ InCalls(calls', n, x) <=> InCalls(calls, n, x)
                /\ LastCall(calls, n, x) => LastCall(calls', n, x)
                /\ \A y : Before(calls', n, x, y) => Before(calls, n, x, y)
  <2>1. CASE calls' = calls
    BY <2>1
  <2>2. CASE calls' = Append(calls, Scheduled)
    BY <2>2, CallOther DEF TypeManager
  <2> QED
    BY <2>1, <2>2
<1>4. \A n \in Names \ {n0} : ReadFile(n)' = ReadFile(n)
  BY ReadSame
<1>5. \A n, x : InQueue(scheduled', n, x) <=> InQueue(scheduled, n, x)
  OBVIOUS
<1> HIDE DEF d
<1>6. \A n \in Names : \A x \in DataOf(n) : x = ReadFile(n)' => x = ReadFile(n) \/ InNow(n, x)
  BY <1>1, <1>4, DataFacts DEF d
<1>7. CopiesKept
  BY <1>1, <1>3, <1>5, <1>6 DEF CopiesKept, Copy
<1>8. OrderKept
  <2> SUFFICES ASSUME NEW n \in Names, NEW x \in DataOf(n), NEW y \in DataOf(n),
                      Follows(n, x, y)'
               PROVE  Follows(n, x, y)
    BY DEF OrderKept
  <2>1. CASE x = ReadFile(n)' /\ Copy(n, y)'
    <3>1. CASE x = ReadFile(n)
      BY <1>7, <2>1, <3>1 DEF CopiesKept, Follows
    <3>2. CASE x # ReadFile(n)
      <4>1. InNow(n, x) /\ n = n0 /\ x = d
        BY <1>1, <1>6, <2>1, <3>2
      <4>2. InNow(n, y) \/ InQueue(scheduled, n, y) \/ InCalls(calls, n, y)
        BY <1>1, <1>3, <1>5, <2>1, <4>1 DEF Copy
      <4> QED
        BY <4>1, <4>2 DEF Follows
    <3> QED
      BY <3>1, <3>2
  <2>2. CASE InNow(n, x)' /\ (InNow(n, y)' \/ InQueue(scheduled', n, y) \/ InCalls(calls', n, y))
    BY <1>1, <1>3, <1>5, <2>2 DEF Follows
  <2>3. CASE InQueue(scheduled', n, x) /\ (InQueue(scheduled', n, y) \/ InCalls(calls', n, y))
    BY <1>3, <1>5, <2>3 DEF Follows
  <2>4. CASE Before(calls', n, x, y)
    BY <1>3, <2>4 DEF Follows
  <2> QED
    BY <2>1, <2>2, <2>3, <2>4 DEF Follows
<1>9. PendingKept
  BY <1>1, <1>3 DEF PendingKept, Pending
<1>10. OthersKept
  BY <1>1 DEF OthersKept, Pending
<1>11. LatestKept
  <2> SUFFICES ASSUME NEW n \in Names, Tracked(n), NEW x \in Contents(n), Latest(n, x)
               PROVE  Latest(n, x)' \/ Lost(n)'
    BY DEF LatestKept
  <2>1. Latest(n, x)' <=> IF IsCalled(calls', n) THEN LastCall(calls', n, x)
                          ELSE IF Queued(scheduled', n) THEN InQueue(scheduled', n, x)
                          ELSE IF Writing(n)' THEN InNow(n, x)'
                          ELSE x = ReadFile(n)'
    BY DEF Latest
  <2>2. CASE IsCalled(calls, n)
    BY <1>3, <2>1, <2>2 DEF Latest
  <2>3. CASE ~IsCalled(calls, n) /\ Queued(scheduled, n)
    BY <1>3, <1>5, <2>1, <2>3 DEF Latest
  <2>4. CASE ~IsCalled(calls, n) /\ ~Queued(scheduled, n) /\ n # n0
    BY <1>1, <1>3, <1>4, <2>1, <2>4 DEF Latest
  <2>5. CASE ~IsCalled(calls, n) /\ ~Queued(scheduled, n) /\ n = n0
    <3>1. InNow(n, x) /\ x = d
      BY <1>1, <2>5 DEF Latest
    <3>2. CASE now' # Idle
      BY <1>1, <1>2, <1>3, <2>1, <2>5, <3>1, <3>2
    <3>3. CASE now' = Idle /\ ReadFile(n)' = d
      BY <1>1, <1>3, <2>1, <2>5, <3>1, <3>3
    <3>4. CASE now' = Idle /\ n \in failed'
      <4>1. ~Pending(n)'
        BY <1>1, <1>3, <2>5, <3>4 DEF Pending
      <4> QED
        BY <3>4, <4>1 DEF Lost
    <3> QED
      BY <2>5, <3>2, <3>3, <3>4 DEF d
  <2> QED
    BY <2>2, <2>3, <2>4, <2>5
<1>12. DiskKept
  BY <1>1, <1>4 DEF DiskKept, d
<1> QED
  BY <1>7, <1>8, <1>9, <1>10, <1>11, <1>12 DEF Flows
\* What is kept at every step of the thread.
ThreadKept == Flows /\ TypeManager' /\ QueueOK' /\ NowOK'

\* The thread takes a call.
LEMMA CallsKept ==
  ASSUME TypeManager, QueueOK, NowOK, UNCHANGED account,
         TakeWrite \/ TakeScheduled \/ TakeSync
  PROVE  ThreadKept
<1>0. calls \in Seq(Calls) /\ scheduled \in Seq(Entries)
  BY DEF TypeManager
<1>1. CASE TakeWrite
  <2>1. now = Idle /\ UNCHANGED <<now, files, failed, failures>>
    BY <1>1 DEF TakeWrite, Called
  <2>2. NowOK'
    BY <2>1 DEF NowOK, Idle
  <2>3. Flows /\ calls' \in Seq(Calls) /\ scheduled' \in Seq(Entries) /\ QueueOK'
    BY <1>1, TakeWriteFlows
  <2>4. TypeManager'
    BY <2>1, <2>3 DEF TypeManager
  <2> QED
    BY <2>2, <2>3, <2>4 DEF ThreadKept
<1>2. ASSUME NEW sync \in BOOLEAN, now = Idle, scheduled # <<>>, StartWriting(sync),
             calls' = calls \/ (calls' = Tail(calls) /\ calls # <<>> /\ Head(calls) = Scheduled),
             UNCHANGED <<files, failed, failures>>
      PROVE  ThreadKept
  <2>1. /\ Flows /\ calls' \in Seq(Calls) /\ scheduled' \in Seq(Entries) /\ QueueOK'
        /\ now' \in [step : Steps, entry : Entries, sync : BOOLEAN] /\ now'.step = "save"
    BY <1>2, StartWritingFlows
  <2>2. NowOK'
    BY <2>1 DEF NowOK
  <2>3. TypeManager'
    BY <1>2, <2>1 DEF TypeManager
  <2> QED
    BY <2>1, <2>2, <2>3 DEF ThreadKept
<1>3. ASSUME UNCHANGED <<now, scheduled, files, failed, failures>>, now = Idle,
             calls # <<>>, calls' = Tail(calls), Head(calls).call # "write"
      PROVE  ThreadKept
  <2>1. /\ calls' \in Seq(Calls)
        /\ \A n, x : /\ IsCalled(calls', n) <=> IsCalled(calls, n)
                     /\ InCalls(calls', n, x) => InCalls(calls, n, x)
                     /\ LastCall(calls, n, x) => LastCall(calls', n, x)
                     /\ \A y : Before(calls', n, x, y) => Before(calls, n, x, y)
    <3>1. calls' \in Seq(Calls)
      BY <1>0, <1>3, CallTaken
    <3> QED
      BY <1>0, <1>3, <3>1, CallTaken
  <2>2. /\ \A n : (Writing(n)' <=> Writing(n)) /\ (Queued(scheduled', n) <=> Queued(scheduled, n))
        /\ \A n, x : (InNow(n, x)' <=> InNow(n, x))
                     /\ (InQueue(scheduled', n, x) <=> InQueue(scheduled, n, x))
        /\ \A n \in Names : ReadFile(n)' = ReadFile(n)
    BY <1>3, ReadSame DEF Writing, InNow
  <2>3. CopiesKept
    BY <2>1, <2>2 DEF CopiesKept, Copy
  <2>4. OrderKept
    BY <2>1, <2>2, <2>3 DEF OrderKept, CopiesKept, Follows
  <2>5. PendingKept /\ OthersKept /\ DiskKept
    BY <1>3, <2>1, <2>2 DEF PendingKept, OthersKept, DiskKept, Pending
  <2>6. LatestKept
    BY <2>1, <2>2 DEF LatestKept, Latest
  <2>7. NowOK' /\ QueueOK'
    BY <1>3 DEF NowOK, QueueOK, Idle
  <2>8. TypeManager'
    BY <1>3, <2>1 DEF TypeManager
  <2> QED
    BY <2>3, <2>4, <2>5, <2>6, <2>7, <2>8 DEF ThreadKept, Flows
<1>4. CASE TakeScheduled
  <2>1. /\ now = Idle /\ calls # <<>> /\ Head(calls).call = "scheduled"
        /\ calls' = Tail(calls) /\ UNCHANGED <<files, failed, failures>>
        /\ IF scheduled = <<>> THEN UNCHANGED <<now, scheduled>> ELSE StartWriting(FALSE)
    BY <1>4 DEF TakeScheduled, Called
  <2>2. Head(calls) = Scheduled
    <3>1. Head(calls) \in Calls
      BY <1>0, <2>1, CallTaken
    <3> QED
      BY <2>1, <3>1, CallFacts
  <2> QED
    BY <1>2, <1>3, <2>1, <2>2
<1>5. CASE TakeSync
  <2>1. /\ now = Idle /\ calls # <<>> /\ Head(calls).call = "sync"
        /\ UNCHANGED <<files, failed, failures>>
        /\ IF scheduled = <<>> THEN calls' = Tail(calls) /\ UNCHANGED <<now, scheduled>>
           ELSE StartWriting(TRUE) /\ UNCHANGED calls
    BY <1>5 DEF TakeSync, Called
  <2> QED
    BY <1>2, <1>3, <2>1
<1> QED
  BY <1>1, <1>4, <1>5

\* A step of writeNow() goes on with the next, or ends.
LEMMA WriteNowKept ==
  ASSUME TypeManager, QueueOK, now # Idle, UNCHANGED account, scheduled' = scheduled,
         \/ calls' = calls /\ \E step \in Steps : now' = [now EXCEPT !.step = step]
         \/ now' = Idle /\ (calls' = calls \/ calls' = Append(calls, Scheduled)),
         NEW n0, n0 = now.entry.name,
         NEW f \in [s : Contained, simple : Contained],
         f.s \in Contents(n0), f.simple \in Contents(n0),
         files' = [files EXCEPT ![n0] = f],
         \/ failed' = failed \/ failed' = failed \cup {n0} \/ failed' = failed \ {n0},
         failures' \in Nat,
         NEW r, r = IF f.s # Nothing THEN f.s ELSE f.simple,
         \/ r \in {ReadFile(n0), now.entry.data, Cut}
         \/ r = Nothing /\ ~Tracked(n0),
         now' = Idle /\ Tracked(n0) => r = now.entry.data \/ n0 \in failed',
         NowOK'
  PROVE  ThreadKept
<1>0. now \in [step : Steps, entry : Entries, sync : BOOLEAN] /\ n0 \in Names
  BY NowFacts
<1>1. /\ files'[n0] = f
      /\ \A n \in Names \ {n0} : files'[n] = files[n] /\ (n \in failed' <=> n \in failed)
  BY <1>0 DEF TypeManager
<1>2. ReadFile(n0)' = r
  BY <1>1 DEF ReadFile
<1>3. now' = Idle \/ (now' # Idle /\ now'.entry = now.entry
                      /\ now' \in [step : Steps, entry : Entries, sync : BOOLEAN])
  <2>1. ASSUME NEW step \in Steps, now' = [now EXCEPT !.step = step]
        PROVE  now' # Idle /\ now'.entry = now.entry
               /\ now' \in [step : Steps, entry : Entries, sync : BOOLEAN]
    <3>1. now'.step = step /\ now'.entry = now.entry
          /\ now' \in [step : Steps, entry : Entries, sync : BOOLEAN]
      BY <1>0, <2>1
    <3>2. step # "idle" /\ Idle.step = "idle"
      BY DEF Steps, Idle
    <3> QED
      BY <3>1, <3>2
  <2> QED
    BY <2>1
<1>4. Flows
  <2>1. calls' = calls \/ calls' = Append(calls, Scheduled)
    OBVIOUS
  <2>2. now' = Idle \/ (now' # Idle /\ now'.entry = now.entry)
    BY <1>3
  <2> QED
    BY <1>1, <1>2, <2>1, <2>2, WriteNowFlows
<1>5. calls' \in Seq(Calls)
  <2>1. \A n, x : Append(calls, Scheduled) \in Seq(Calls)
    BY CallOther DEF TypeManager
  <2> QED
    BY <2>1 DEF TypeManager
<1>6. TypeManager'
  <2>1. files' \in [Names -> [s : Contained, simple : Contained]]
    BY DEF TypeManager
  <2>2. \A n \in Names : files'[n].s \in Contents(n) /\ files'[n].simple \in Contents(n)
    BY <1>1 DEF TypeManager
  <2>3. failed' \subseteq Names /\ failures' \in Nat /\ scheduled' \in Seq(Entries)
    BY <1>0 DEF TypeManager
  <2> QED
    BY <1>3, <1>5, <2>1, <2>2, <2>3 DEF TypeManager
<1>7. QueueOK'
  BY DEF QueueOK
<1> QED
  BY <1>4, <1>6, <1>7 DEF ThreadKept

\* One operation on the disk.
LEMMA DiskStepKept ==
  ASSUME TypeManager, QueueOK, NowOK, UNCHANGED account, Disk \/ DiskFails
  PROVE  ThreadKept
<1>0. now # Idle
  BY NowFacts DEF Disk, DiskFails, Commit, RemoveSimple, OpenPlain, FillPlain, Rename,
     NothingToRename, RemoveSafe, CommitFails, OpenPlainFails, FillPlainFails, RenameFails, At
<1>1. PICK n0, d : n0 = now.entry.name /\ d = now.entry.data
  OBVIOUS
<1>2. PICK f : f = files[n0]
  OBVIOUS
<1>3. /\ now \in [step : Steps, entry : Entries, sync : BOOLEAN]
      /\ n0 \in Names /\ d \in DataOf(n0) /\ d \in Contained /\ d # Nothing /\ d # Cut
      /\ Nothing # Cut /\ Nothing \in Contained /\ Cut \in Contained
      /\ f \in [s : Contained, simple : Contained] /\ f.s \in Contents(n0)
      /\ f.simple \in Contents(n0)
      /\ {Nothing, Cut, d} \subseteq Contents(n0)
      /\ ReadFile(n0) = IF f.s # Nothing THEN f.s ELSE f.simple
      /\ failures \in Nat /\ Idle.step = "idle"
  <2>1. n0 \in Names /\ d \in DataOf(n0) /\ now \in [step : Steps, entry : Entries, sync : BOOLEAN]
        /\ Idle.step = "idle"
    BY <1>0, <1>1, NowFacts
  <2>2. d \in Contained /\ {Nothing, Cut, d} \subseteq Contents(n0)
    BY <2>1 DEF Contained, Contents, DataOf
  <2>3. d # Nothing /\ d # Cut /\ Nothing # Cut
    BY <2>1, DataFacts
  <2>4. Nothing \in Contained /\ Cut \in Contained
    BY DEF Contained
  <2> QED
    BY <1>2, <2>1, <2>2, <2>3, <2>4 DEF TypeManager, ReadFile
<1>4. /\ now.step = "clean" /\ Tracked(n0) => f.s = d
      /\ now.step = "fill" => f.simple \in {Cut, Nothing} /\ (Tracked(n0) => f.simple = Cut)
      /\ now.step = "rename" =>
           /\ f.simple \in {d, Cut, Nothing}
           /\ Tracked(n0) => f.simple # Nothing /\ (f.simple = d \/ n0 \in failed)
  BY <1>1, <1>2 DEF NowOK
<1>5. Tracked(n0)' <=> Tracked(n0)
  BY DEF Tracked
<1>6. ASSUME NEW step \in Steps, Proceed(step)
      PROVE  /\ now'.step = step /\ now'.entry = now.entry /\ now' # Idle
             /\ now' = [now EXCEPT !.step = step]
  BY <1>3, <1>6 DEF Proceed, Steps
<1>7. ASSUME NEW g, Done(g)
      PROVE  /\ files' = g /\ now' = Idle
             /\ calls' = calls \/ calls' = Append(calls, Scheduled)
             /\ NowOK'
  BY <1>3, <1>7 DEF Done, NowOK
<1>a. ASSUME NEW step \in Steps, Proceed(step), scheduled' = scheduled, calls' = calls,
             NEW g \in [s : Contained, simple : Contained],
             g.s \in Contents(n0), g.simple \in Contents(n0),
             files' = [files EXCEPT ![n0] = g],
             failed' = failed \/ failed' = failed \cup {n0} \/ failed' = failed \ {n0},
             failures' \in Nat,
             NEW r, r = IF g.s # Nothing THEN g.s ELSE g.simple,
             \/ r \in {ReadFile(n0), d, Cut}
             \/ r = Nothing /\ ~Tracked(n0),
             /\ step = "clean" /\ Tracked(n0) => g.s = d
             /\ step = "fill" => g.simple \in {Cut, Nothing} /\ (Tracked(n0) => g.simple = Cut)
             /\ step = "rename" =>
                  /\ g.simple \in {d, Cut, Nothing}
                  /\ Tracked(n0) => g.simple # Nothing /\ (g.simple = d \/ n0 \in failed')
      PROVE  ThreadKept
  <2>1. files'[n0] = g
    BY <1>3, <1>a DEF TypeManager
  <2>2. NowOK'
    BY <1>1, <1>5, <1>6, <1>a, <2>1 DEF NowOK
  <2> QED
    BY <1>0, <1>1, <1>6, <1>a, <2>2, WriteNowKept
<1>b. ASSUME NEW g \in [s : Contained, simple : Contained], scheduled' = scheduled,
             g.s \in Contents(n0), g.simple \in Contents(n0),
             Done([files EXCEPT ![n0] = g]),
             failed' = failed \/ failed' = failed \cup {n0} \/ failed' = failed \ {n0},
             failures' \in Nat,
             NEW r, r = IF g.s # Nothing THEN g.s ELSE g.simple,
             \/ r \in {ReadFile(n0), d, Cut}
             \/ r = Nothing /\ ~Tracked(n0),
             Tracked(n0) => r = d \/ n0 \in failed'
      PROVE  ThreadKept
  <2>1. files' = [files EXCEPT ![n0] = g] /\ now' = Idle
        /\ (calls' = calls \/ calls' = Append(calls, Scheduled)) /\ NowOK'
    BY <1>7, <1>b
  <2> QED
    BY <1>0, <1>1, <1>b, <2>1, WriteNowKept
<1>10. CASE Commit
  <2> DEFINE g == [f EXCEPT !.s = d]
  <2>1. /\ Proceed("clean") /\ scheduled' = scheduled /\ calls' = calls /\ failures' = failures
        /\ failed' = failed \ {n0} /\ files' = [files EXCEPT ![n0] = g]
    BY <1>1, <1>2, <1>10 DEF Commit
  <2>2. g \in [s : Contained, simple : Contained] /\ g.s = d /\ g.simple = f.simple
    BY <1>3
  <2> HIDE DEF g
  <2>3. PICK r : r = IF g.s # Nothing THEN g.s ELSE g.simple
    OBVIOUS
  <2>4. r = d
    BY <1>3, <2>2, <2>3
  <2> QED
    BY <1>3, <1>a, <2>1, <2>2, <2>3, <2>4 DEF Steps
<1>11. CASE CommitFails
  <2>1. /\ Proceed("plain") /\ scheduled' = scheduled /\ calls' = calls /\ failures' = failures + 1
        /\ failed' = failed /\ files' = files
    BY <1>11 DEF CommitFails, Fails
  <2>2. files' = [files EXCEPT ![n0] = f]
    BY <1>2, <1>3, <2>1 DEF TypeManager
  <2>3. PICK r : r = IF f.s # Nothing THEN f.s ELSE f.simple
    OBVIOUS
  <2>4. r = ReadFile(n0) /\ failures' \in Nat /\ "plain" \in Steps
    BY <1>3, <2>1, <2>3 DEF Steps
  <2> QED
    BY <1>3, <1>a, <2>1, <2>2, <2>3, <2>4
<1>12. CASE RemoveSimple
  <2> DEFINE g == [f EXCEPT !.simple = Nothing]
  <2>1. /\ Done([files EXCEPT ![n0] = g]) /\ scheduled' = scheduled
        /\ failed' = failed /\ failures' = failures /\ now.step = "clean"
    BY <1>1, <1>2, <1>12 DEF RemoveSimple, At
  <2>2. g \in [s : Contained, simple : Contained] /\ g.s = f.s /\ g.simple = Nothing
    BY <1>3
  <2> HIDE DEF g
  <2>3. PICK r : r = IF g.s # Nothing THEN g.s ELSE g.simple
    OBVIOUS
  <2>4. r = ReadFile(n0) \/ (r = Nothing /\ ~Tracked(n0))
    BY <1>3, <1>4, <2>1, <2>2, <2>3
  <2>5. Tracked(n0) => r = d
    BY <1>3, <1>4, <2>1, <2>2, <2>3
  <2> QED
    BY <1>3, <1>b, <2>1, <2>2, <2>3, <2>4, <2>5
<1>13. CASE OpenPlain
  <2> DEFINE g == [f EXCEPT !.simple = Cut]
  <2>1. /\ Proceed("fill") /\ scheduled' = scheduled /\ calls' = calls /\ failures' = failures
        /\ failed' = failed /\ files' = [files EXCEPT ![n0] = g]
    BY <1>1, <1>2, <1>13 DEF OpenPlain
  <2>2. g \in [s : Contained, simple : Contained] /\ g.s = f.s /\ g.simple = Cut
    BY <1>3
  <2> HIDE DEF g
  <2>3. PICK r : r = IF g.s # Nothing THEN g.s ELSE g.simple
    OBVIOUS
  <2>4. r \in {ReadFile(n0), Cut}
    BY <1>3, <2>2, <2>3
  <2> QED
    BY <1>3, <1>a, <2>1, <2>2, <2>3, <2>4 DEF Steps
<1>14. CASE OpenPlainFails
  <2>1. /\ Done(files) /\ scheduled' = scheduled
        /\ failed' = failed \cup {n0} /\ failures' = failures + 1
    BY <1>1, <1>14 DEF OpenPlainFails, Fails
  <2>2. files = [files EXCEPT ![n0] = f]
    BY <1>2, <1>3 DEF TypeManager
  <2>3. PICK r : r = IF f.s # Nothing THEN f.s ELSE f.simple
    OBVIOUS
  <2>4. Done([files EXCEPT ![n0] = f])
    BY <2>1, <2>2
  <2> QED
    BY <1>3, <1>b, <2>1, <2>3, <2>4
<1>15. CASE FillPlain
  <2> DEFINE g == [f EXCEPT !.simple = IF @ = Nothing THEN Nothing ELSE d]
  <2>1. /\ Proceed("rename") /\ scheduled' = scheduled /\ calls' = calls /\ failures' = failures
        /\ failed' = failed \ {n0} /\ files' = [files EXCEPT ![n0] = g] /\ now.step = "fill"
    BY <1>1, <1>2, <1>15 DEF FillPlain, At
  <2>2. /\ g \in [s : Contained, simple : Contained] /\ g.s = f.s
        /\ g.simple = IF f.simple = Nothing THEN Nothing ELSE d
    BY <1>3
  <2> HIDE DEF g
  <2>3. PICK r : r = IF g.s # Nothing THEN g.s ELSE g.simple
    OBVIOUS
  <2>4. r \in {ReadFile(n0), d}
    BY <1>3, <2>2, <2>3
  <2>5. g.simple \in {d, Nothing} /\ (Tracked(n0) => g.simple = d)
    BY <1>3, <1>4, <2>1, <2>2
  <2> QED
    BY <1>3, <1>a, <2>1, <2>2, <2>3, <2>4, <2>5 DEF Steps
<1>16. CASE FillPlainFails
  <2>1. /\ Proceed("rename") /\ scheduled' = scheduled /\ calls' = calls /\ failures' = failures + 1
        /\ failed' = failed \cup {n0} /\ files' = files /\ now.step = "fill"
    BY <1>1, <1>16 DEF FillPlainFails, Fails, At
  <2>2. files' = [files EXCEPT ![n0] = f]
    BY <1>2, <1>3, <2>1 DEF TypeManager
  <2>3. PICK r : r = IF f.s # Nothing THEN f.s ELSE f.simple
    OBVIOUS
  <2>4. f.simple \in {Cut, Nothing} /\ (Tracked(n0) => f.simple = Cut)
    BY <1>4, <2>1
  <2>5. r = ReadFile(n0) /\ failures' \in Nat /\ "rename" \in Steps
    BY <1>3, <2>1, <2>3 DEF Steps
  <2>6. n0 \in failed'
    BY <2>1
  <2> QED
    BY <1>3, <1>a, <2>1, <2>2, <2>3, <2>4, <2>5, <2>6
<1>17. CASE Rename
  <2> DEFINE g == [s |-> f.simple, simple |-> Nothing]
  <2>1. /\ Done([files EXCEPT ![n0] = g]) /\ scheduled' = scheduled
        /\ failed' = failed /\ failures' = failures /\ now.step = "rename" /\ f.simple # Nothing
    BY <1>1, <1>2, <1>17 DEF Rename, At
  <2>2. g \in [s : Contained, simple : Contained] /\ g.s = f.simple /\ g.simple = Nothing
    BY <1>3
  <2> HIDE DEF g
  <2>3. PICK r : r = IF g.s # Nothing THEN g.s ELSE g.simple
    OBVIOUS
  <2>4. r \in {d, Cut} /\ (Tracked(n0) => r = d \/ n0 \in failed)
    BY <1>3, <1>4, <2>1, <2>2, <2>3
  <2> QED
    BY <1>3, <1>b, <2>1, <2>2, <2>3, <2>4
<1>18. CASE RemoveSafe /\ (failures' = failures \/ failures' = failures + 1)
            /\ (f.simple = Nothing \/ Fails)
  <2> DEFINE g == [f EXCEPT !.s = Nothing]
  <2>1. /\ Done([files EXCEPT ![n0] = g]) /\ scheduled' = scheduled
        /\ failed' = failed /\ now.step = "rename"
    BY <1>1, <1>2, <1>18 DEF RemoveSafe, At
  <2>2. g \in [s : Contained, simple : Contained] /\ g.s = Nothing /\ g.simple = f.simple
    BY <1>3
  <2> HIDE DEF g
  <2>3. PICK r : r = IF g.s # Nothing THEN g.s ELSE g.simple
    OBVIOUS
  <2>4. r \in {d, Cut} \/ (r = Nothing /\ ~Tracked(n0))
    BY <1>3, <1>4, <2>1, <2>2, <2>3
  <2>5. Tracked(n0) => r = d \/ n0 \in failed
    BY <1>3, <1>4, <2>1, <2>2, <2>3
  <2>6. failures' \in Nat
    BY <1>3, <1>18
  <2> QED
    BY <1>3, <1>b, <2>1, <2>2, <2>3, <2>4, <2>5, <2>6
<1>19. NothingToRename \/ RenameFails =>
         /\ RemoveSafe /\ (failures' = failures \/ failures' = failures + 1)
         /\ (f.simple = Nothing \/ Fails)
  BY <1>1, <1>2 DEF NothingToRename, RenameFails, Fails
<1> QED
  BY <1>10, <1>11, <1>12, <1>13, <1>14, <1>15, <1>16, <1>17, <1>18, <1>19 DEF Disk, DiskFails

-----------------------------------------------------------------------------
(***************************************************************************)
(* What the invariant needs of a step that makes neither a key nor a text. *)
(***************************************************************************)

\* Only files of the account are called for, queued or written.
LEMMA PendingNames ==
  ASSUME TypeManager
  PROVE  /\ \A n : Pending(n) => n \in Names
         /\ \A n \in Names : \A x, y : Follows(n, x, y) => Copy(n, x) /\ Copy(n, y)
<1>1. \A n : IsCalled(calls, n) => n \in Names
  <2>1. \A i \in DOMAIN calls : calls[i] \in Calls
    BY LenProperties, ElementOfSeq DEF TypeManager
  <2> QED
    BY <2>1, CallFacts DEF IsCalled
<1>2. \A n : Queued(scheduled, n) => n \in Names
  <2>1. \A i \in DOMAIN scheduled : scheduled[i] \in Entries
    BY LenProperties, ElementOfSeq DEF TypeManager
  <2> QED
    BY <2>1, EntryFacts DEF Queued
<1>3. \A n : Writing(n) => n \in Names
  BY NowFacts DEF Writing
<1>4. ASSUME NEW n \in Names, NEW x, NEW y, Follows(n, x, y)
      PROVE  Copy(n, x) /\ Copy(n, y)
  BY <1>4, PendingFacts DEF Follows, Copy
<1> QED
  BY <1>1, <1>2, <1>3, <1>4 DEF Pending

\* The same after a step.
LEMMA PendingNamesNext == TypeManager' => (\A n : Pending(n) => n \in Names)'
<1>1. TypeManager => \A n : Pending(n) => n \in Names
  BY PendingNames
<1> QED
  BY <1>1, PTL

\* What is known of the copies when none of a draft appears.
KeysQuiet ==
  /\ \A k \in Keys : /\ Pending(k)' => Pending(k)
                     /\ files'[k] # Nowhere => files[k] # Nowhere \/ Pending(k)
                     /\ \A x \in DraftData : Copy(k, x)' => Copy(k, x)
                     /\ \A x, y \in DraftData : Follows(k, x, y)' => Follows(k, x, y)

\* ... and when the maps that appear are the account's.
MapsQuiet ==
  /\ \A x \in MapData : Copy("map", x)' => Copy("map", x) \/ x.keys = account.map
  /\ \A x, y \in MapData : Follows("map", x, y)' => Follows("map", x, y) \/ y.keys = account.map

\* The account forgets keys only, and what the user sees of a key is what it
\* was or what the file of the key says.
AccountQuiet ==
  /\ \A p \in Peers : account'.map[p] \in {account.map[p], NoKey}
  /\ \A p \in Peers \ unseen' : account'.map[p] # NoKey =>
       \/ p \notin unseen /\ drafts'[p] = drafts[p]
       \/ /\ Copy(account.map[p], DraftOf(drafts'[p]))
          /\ \A t \in Texts \ {0} : Copy(account.map[p], DraftOf(t)) => t = drafts'[p]

\* Keys stay those of one chat, texts those of one key, and their order is kept.
LEMMA QuietKept ==
  ASSUME TypeOK, KeysOK, TextsOK, MapsOK, KeysQuiet, MapsQuiet, AccountQuiet,
         spent'.keys = spent.keys, spent'.texts = spent.texts, account'.map \in Maps
  PROVE  /\ KeysOK' /\ TextsOK' /\ MapsOK'
         /\ \A m \in Maps : IsMap(m)' => m = account'.map \/ IsMap(m)
<1>1. /\ \A m \in Maps : [kind |-> "map", keys |-> m] \in MapData
                         /\ [kind |-> "map", keys |-> m].keys = m
      /\ \A t \in Texts \ {0} : DraftOf(t) \in DraftData /\ DraftOf(t).text = t
      /\ account.map \in Maps /\ IsMap(account.map)
      /\ \A m \in Maps, p \in Peers : m[p] \in Keys \cup {NoKey}
      /\ Texts \subseteq Nat
  BY DataFacts, NameFacts DEF IsMap, TypeOK, TypeMain, Maps
<1>2. \A m \in Maps : IsMap(m)' => m = account'.map \/ IsMap(m)
  BY <1>1 DEF IsMap, MapsQuiet
<1>3. ASSUME NEW m \in Maps, NEW p \in Peers, IsMap(m)', m[p] # NoKey
      PROVE  \E l \in Maps : IsMap(l) /\ l[p] = m[p]
  BY <1>1, <1>2, <1>3 DEF AccountQuiet
<1>4. KeysOK'
  <2>1. \A k \in Keys : files'[k] # Nowhere \/ Pending(k)' => k \in spent'.keys
    BY DEF KeysQuiet, KeysOK
  <2>2. \A m \in Maps, p \in Peers : IsMap(m)' /\ m[p] # NoKey => m[p] \in spent'.keys
    BY <1>3 DEF KeysOK
  <2>3. \A l, m \in Maps, p, q \in Peers :
          IsMap(l)' /\ IsMap(m)' /\ l[p] = m[q] /\ l[p] # NoKey => p = q
    BY <1>3 DEF KeysOK
  <2> QED
    BY <2>1, <2>2, <2>3 DEF KeysOK
<1>5. ASSUME NEW k \in Keys, NEW t \in Texts \ {0}, IsText(k, t)'
      PROVE  IsText(k, t)
  <2>1. CASE Copy(k, DraftOf(t))'
    BY <1>1, <2>1 DEF KeysQuiet, IsText
  <2>2. CASE \E p \in Peers \ unseen' : account'.map[p] = k /\ drafts'[p] = t
    <3>1. PICK p \in Peers \ unseen' : account'.map[p] = k /\ drafts'[p] = t
      BY <2>2
    <3>2. account'.map[p] # NoKey /\ account.map[p] = k
      BY <3>1, NameFacts DEF AccountQuiet
    <3> QED
      BY <3>1, <3>2 DEF AccountQuiet, IsText
  <2> QED
    BY <1>5, <2>1, <2>2 DEF IsText
<1>6. TextsOK'
  <2>1. \A k \in Keys, t \in Texts \ {0} : IsText(k, t)' => t <= spent'.texts
    BY <1>5 DEF TextsOK
  <2>2. \A k, j \in Keys, t \in Texts \ {0} : IsText(k, t)' /\ IsText(j, t)' => k = j
    BY <1>5 DEF TextsOK
  <2>3. \A k \in Keys, t, u \in Texts \ {0} : Follows(k, DraftOf(t), DraftOf(u))' => t <= u
    BY <1>1 DEF TextsOK, KeysQuiet
  <2>4. ASSUME NEW p \in Peers \ unseen', NEW t \in Texts \ {0},
               account'.map[p] # NoKey, Copy(account.map[p], DraftOf(t))'
        PROVE  t <= drafts'[p]
    <3>1. account'.map[p] = account.map[p] /\ account.map[p] # NoKey /\ account.map[p] \in Keys
      BY <1>1, <2>4 DEF AccountQuiet
    <3>2. Copy(account.map[p], DraftOf(t))
      BY <1>1, <2>4, <3>1 DEF KeysQuiet
    <3>3. CASE p \notin unseen /\ drafts'[p] = drafts[p]
      BY <3>1, <3>2, <3>3 DEF TextsOK
    <3>4. CASE t = drafts'[p]
      <4>1. t \in Nat /\ t <= t
        BY <1>1
      <4> QED
        BY <3>4, <4>1
    <3> QED
      BY <2>4, <3>2, <3>3, <3>4 DEF AccountQuiet
  <2> QED
    BY <2>1, <2>2, <2>3, <2>4 DEF TextsOK
<1>7. MapsOK'
  <2> SUFFICES ASSUME NEW x \in MapData, NEW y \in MapData, NEW p \in Peers,
                      Follows("map", x, y)', x.keys[p] = account'.map[p],
                      account'.map[p] # NoKey
               PROVE  y.keys[p] = account'.map[p]
    BY DEF MapsOK
  <2>1. account'.map[p] = account.map[p]
    BY DEF AccountQuiet
  <2> QED
    BY <2>1 DEF MapsQuiet, MapsOK
<1> QED
  BY <1>2, <1>4, <1>6, <1>7

-----------------------------------------------------------------------------
(***************************************************************************)
(* What the main thread does to the copies.                                *)
(***************************************************************************)

\* What is kept when nothing is called for and only files of S are cleared.
StaysBut(S) ==
  /\ \A n \in Names : /\ Pending(n)' => Pending(n)
                      /\ \A x \in DataOf(n) : Copy(n, x)' => Copy(n, x)
                      /\ \A x, y \in DataOf(n) : Follows(n, x, y)' => Follows(n, x, y)
  /\ \A n \in Names \ S : /\ files'[n] = files[n] /\ ReadFile(n)' = ReadFile(n)
                          /\ \A x \in Contents(n) : Latest(n, x) => Latest(n, x)'
  /\ \A n \in Names \cap S : files'[n] = Nowhere /\ ReadFile(n)' = Nothing
  /\ failed' = failed

\* Files are cleared, or nothing is done; writeSyncAll() may be called.
LEMMA ClearedStays ==
  ASSUME TypeManager, NEW S,
         calls' = calls \/ calls' = Append(calls, SyncAll),
         UNCHANGED <<scheduled, now, failed>>,
         files' = [n \in Names |-> IF n \in S THEN Nowhere ELSE files[n]]
  PROVE  StaysBut(S) /\ \A n : Pending(n)' <=> Pending(n)
<1>1. \A n, x : /\ IsCalled(calls', n) <=> IsCalled(calls, n)
                /\ InCalls(calls', n, x) <=> InCalls(calls, n, x)
                /\ LastCall(calls, n, x) => LastCall(calls', n, x)
                /\ \A y : Before(calls', n, x, y) => Before(calls, n, x, y)
  <2>1. CASE calls' = calls
    BY <2>1
  <2>2. CASE calls' = Append(calls, SyncAll)
    BY <2>2, CallOther DEF TypeManager
  <2> QED
    BY <2>1, <2>2
<1>2. \A n, x : /\ Queued(scheduled', n) <=> Queued(scheduled, n)
                /\ InQueue(scheduled', n, x) <=> InQueue(scheduled, n, x)
                /\ Writing(n)' <=> Writing(n)
                /\ InNow(n, x)' <=> InNow(n, x)
  BY DEF Writing, InNow
<1>3. \A n \in Names \ S : files'[n] = files[n] /\ ReadFile(n)' = ReadFile(n)
  BY ReadSame
<1>4. \A n \in Names \cap S : files'[n] = Nowhere /\ ReadFile(n)' = Nothing
  BY DEF ReadFile, Nowhere
<1>5. \A n : Pending(n)' <=> Pending(n)
  BY <1>1, <1>2 DEF Pending
<1>6. \A n \in Names : \A x \in DataOf(n) : x = ReadFile(n)' => x = ReadFile(n)
  BY <1>3, <1>4, DataFacts
<1>7. \A n \in Names : \A x \in DataOf(n) : Copy(n, x)' => Copy(n, x)
  BY <1>1, <1>2, <1>6 DEF Copy
<1>8. \A n \in Names : \A x, y \in DataOf(n) : Follows(n, x, y)' => Follows(n, x, y)
  BY <1>1, <1>2, <1>6, <1>7 DEF Follows
<1>9. ASSUME NEW n \in Names \ S, NEW x \in Contents(n), Latest(n, x)
      PROVE  Latest(n, x)'
  BY <1>1, <1>2, <1>3, <1>9 DEF Latest
<1> QED
  BY <1>3, <1>4, <1>5, <1>7, <1>8, <1>9 DEF StaysBut

\* The program ends: what was called for is lost.
LEMMA EndedStays ==
  ASSUME TypeManager, calls' = <<>>, scheduled' = <<>>, now' = Idle,
         UNCHANGED <<files, failed>>
  PROVE  /\ \A n, x : ~Pending(n)' /\ (Copy(n, x)' <=> x = ReadFile(n))
                      /\ (Latest(n, x)' <=> x = ReadFile(n))
         /\ \A n, x, y : Follows(n, x, y)' <=> x = ReadFile(n) /\ y = ReadFile(n)
         /\ \A n : ReadFile(n)' = ReadFile(n)
<1>1. \A n : ReadFile(n)' = ReadFile(n)
  BY DEF ReadFile
<1>2. \A n, x : /\ ~IsCalled(calls', n) /\ ~InCalls(calls', n, x)
                /\ ~Queued(scheduled', n) /\ ~InQueue(scheduled', n, x)
                /\ ~Writing(n)' /\ ~InNow(n, x)'
                /\ \A y : ~Before(calls', n, x, y)
  BY DEF IsCalled, InCalls, Queued, InQueue, Writing, InNow, Before
<1>3. \A n, x : ~Pending(n)' /\ (Copy(n, x)' <=> x = ReadFile(n)) /\ (Latest(n, x)' <=> x = ReadFile(n))
  BY <1>1, <1>2 DEF Pending, Copy, Latest
<1>4. \A n, x, y : Follows(n, x, y)' <=> x = ReadFile(n) /\ y = ReadFile(n)
  BY <1>1, <1>2, <1>3 DEF Follows
<1> QED
  BY <1>1, <1>3, <1>4

\* What is new when m is called for with the data d.
CalledWith(m, d) ==
  /\ \A n \in Names : /\ Pending(n)' <=> Pending(n) \/ n = m
                      /\ files'[n] = files[n] /\ ReadFile(n)' = ReadFile(n)
                      /\ \A x \in DataOf(n) : Copy(n, x)' => Copy(n, x) \/ (n = m /\ x = d)
                      /\ \A x, y \in DataOf(n) :
                           Follows(n, x, y)' => \/ Follows(n, x, y)
                                                \/ n = m /\ y = d /\ (x = d \/ Copy(n, x))
  /\ \A n \in Names \ {m} : \A x \in Contents(n) : Latest(n, x) => Latest(n, x)'
  /\ Latest(m, d)' /\ failed' = failed

\* A call to write; writeSyncAll() may be called after it.
LEMMA WrittenCalled ==
  ASSUME TypeManager, NEW m \in Names, NEW d \in DataOf(m),
         \/ calls' = Write(calls, Entry(m, d))
         \/ calls' = Append(Write(calls, Entry(m, d)), SyncAll),
         UNCHANGED <<scheduled, now, files, failed>>
  PROVE  CalledWith(m, d) /\ calls' \in Seq(Calls)
<1> DEFINE ds == Write(calls, Entry(m, d))
<1>1. /\ ds \in Seq(Calls)
      /\ \A n, x : /\ IsCalled(ds, n) <=> IsCalled(calls, n) \/ n = m
                   /\ InCalls(ds, n, x) <=> InCalls(calls, n, x) \/ (n = m /\ x = d)
                   /\ n # m => (LastCall(calls, n, x) => LastCall(ds, n, x))
                   /\ LastCall(ds, m, d)
                   /\ \A y : Before(ds, n, x, y) =>
                        \/ Before(calls, n, x, y)
                        \/ n = m /\ y = d /\ (x = d \/ InCalls(calls, n, x))
  <2>1. calls \in Seq(Calls)
    BY DEF TypeManager
  <2>2. ds \in Seq(Calls)
    BY <2>1, CallWritten
  <2> QED
    BY <2>1, <2>2, CallWritten
<1> HIDE DEF ds
<1>2. /\ calls' \in Seq(Calls)
      /\ \A n, x : /\ IsCalled(calls', n) <=> IsCalled(ds, n)
                   /\ InCalls(calls', n, x) <=> InCalls(ds, n, x)
                   /\ LastCall(ds, n, x) => LastCall(calls', n, x)
                   /\ \A y : Before(calls', n, x, y) => Before(ds, n, x, y)
  <2>1. CASE calls' = ds
    BY <1>1, <2>1
  <2>2. CASE calls' = Append(ds, SyncAll)
    <3>1. calls' \in Seq(Calls)
      BY <1>1, <2>2, CallOther
    <3> QED
      BY <1>1, <2>2, <3>1, CallOther
  <2> QED
    BY <2>1, <2>2 DEF ds
<1>3. \A n, x : /\ Queued(scheduled', n) <=> Queued(scheduled, n)
                /\ InQueue(scheduled', n, x) <=> InQueue(scheduled, n, x)
                /\ Writing(n)' <=> Writing(n)
                /\ InNow(n, x)' <=> InNow(n, x)
  BY DEF Writing, InNow
<1>4. \A n \in Names : files'[n] = files[n] /\ ReadFile(n)' = ReadFile(n)
  BY ReadSame
<1>5. \A n : Pending(n)' <=> Pending(n) \/ n = m
  BY <1>1, <1>2, <1>3 DEF Pending
<1>6. \A n \in Names : \A x : Copy(n, x)' <=> Copy(n, x) \/ (n = m /\ x = d)
  BY <1>1, <1>2, <1>3, <1>4 DEF Copy
<1>7. ASSUME NEW n \in Names, NEW x \in DataOf(n), NEW y \in DataOf(n), Follows(n, x, y)'
      PROVE  Follows(n, x, y) \/ (n = m /\ y = d /\ (x = d \/ Copy(n, x)))
  <2>1. CASE x = ReadFile(n)' /\ Copy(n, y)'
    BY <1>4, <1>6, <2>1 DEF Follows, Copy
  <2>2. CASE InNow(n, x)' /\ (InNow(n, y)' \/ InQueue(scheduled', n, y) \/ InCalls(calls', n, y))
    BY <1>1, <1>2, <1>3, <2>2 DEF Follows, Copy
  <2>3. CASE InQueue(scheduled', n, x) /\ (InQueue(scheduled', n, y) \/ InCalls(calls', n, y))
    BY <1>1, <1>2, <1>3, <2>3 DEF Follows, Copy
  <2>4. CASE Before(calls', n, x, y)
    BY <1>1, <1>2, <2>4 DEF Follows, Copy
  <2> QED
    BY <1>7, <2>1, <2>2, <2>3, <2>4 DEF Follows
<1>8. ASSUME NEW n \in Names \ {m}, NEW x \in Contents(n), Latest(n, x)
      PROVE  Latest(n, x)'
  BY <1>1, <1>2, <1>3, <1>4, <1>8 DEF Latest
<1>9. Latest(m, d)'
  BY <1>1, <1>2 DEF Latest
<1> QED
  BY <1>2, <1>4, <1>5, <1>6, <1>7, <1>8, <1>9 DEF CalledWith

-----------------------------------------------------------------------------
(***************************************************************************)
(* The steps of the thread keep the invariant.                             *)
(***************************************************************************)

\* A step of the thread takes the first call, or goes on with an entry.
LEMMA ThreadCalls ==
  ASSUME TypeManager, Thread
  PROVE  \/ /\ now = Idle /\ calls # <<>> /\ Head(calls).call = "write"
            /\ calls' = Append(Tail(calls), Scheduled)
         \/ /\ now = Idle /\ calls # <<>> /\ Head(calls).call = "scheduled"
            /\ calls' = Tail(calls)
            /\ scheduled = <<>> => now' = now /\ scheduled' = scheduled
         \/ /\ now = Idle /\ calls # <<>> /\ Head(calls).call = "sync"
            /\ IF scheduled = <<>>
               THEN calls' = Tail(calls) /\ now' = now /\ scheduled' = scheduled
               ELSE calls' = calls
         \/ now # Idle /\ (calls' = calls \/ calls' = Append(calls, Scheduled))
<1>1. CASE TakeWrite
  BY <1>1 DEF TakeWrite, Called
<1>2. CASE TakeScheduled
  BY <1>2 DEF TakeScheduled, Called
<1>3. CASE TakeSync
  BY <1>3 DEF TakeSync, Called
<1>4. CASE Disk \/ DiskFails
  <2>1. now # Idle
    BY <1>4, NowFacts DEF Disk, DiskFails, Commit, RemoveSimple, OpenPlain, FillPlain, Rename,
       NothingToRename, RemoveSafe, CommitFails, OpenPlainFails, FillPlainFails, RenameFails, At
  <2>2. calls' = calls \/ calls' = Append(calls, Scheduled)
    BY <1>4 DEF Disk, DiskFails, Commit, RemoveSimple, OpenPlain, FillPlain, Rename, Done,
       NothingToRename, RemoveSafe, CommitFails, OpenPlainFails, FillPlainFails, RenameFails
  <2> QED
    BY <2>1, <2>2
<1> QED
  BY <1>1, <1>2, <1>3, <1>4 DEF Thread

\* The call of writeSyncAll() stays the last until nothing is left to write.
LEMMA ThreadQuits ==
  ASSUME TypeManager, QuitOK, Thread, UNCHANGED <<account, phase>>
  PROVE  QuitOK'
<1>0. calls \in Seq(Calls) /\ Scheduled \in Calls /\ Scheduled # SyncAll
      /\ Scheduled.call # "write" /\ Scheduled.call # "sync"
      /\ SyncAll.call = "sync"
  BY DEF TypeManager, Calls, Scheduled, SyncAll
<1>a. Len(calls) \in Nat /\ DOMAIN calls = 1 .. Len(calls)
      /\ \A i \in 1 .. Len(calls) : calls[i] \in Calls
  BY <1>0, LenProperties, ElementOfSeq
<1>b. calls # <<>> => /\ Len(calls) > 0 /\ Head(calls) = calls[1]
                      /\ Tail(calls) \in Seq(Calls) /\ Len(Tail(calls)) = Len(calls) - 1
                      /\ DOMAIN Tail(calls) = 1 .. Len(calls) - 1
                      /\ \A i \in 1 .. Len(calls) - 1 : Tail(calls)[i] = calls[i + 1]
  BY <1>0, HeadTailProperties, LenProperties, EmptySeq
<1>1. \A cs \in Seq(Calls) : /\ DOMAIN Append(cs, Scheduled) = 1 .. Len(cs) + 1
                             /\ Append(cs, Scheduled)[Len(cs) + 1] = Scheduled
                             /\ \A i \in 1 .. Len(cs) : Append(cs, Scheduled)[i] = cs[i]
                             /\ Len(cs) \in Nat
  BY <1>0, AppendProperties, LenProperties
\* Where a call was.
<1>2. PICK z \in {0, 1} :
        /\ \A i \in DOMAIN calls' : calls'[i] = Scheduled
                                    \/ (i + z \in DOMAIN calls /\ calls'[i] = calls[i + z])
        /\ \A i \in DOMAIN calls : i > z => i - z \in DOMAIN calls' /\ calls'[i - z] = calls[i]
        /\ DOMAIN calls' \subseteq Nat
        /\ z = 1 => now = Idle /\ calls # <<>>
        /\ z = 1 /\ Head(calls).call = "scheduled" /\ scheduled = <<>> =>
             now' = now /\ scheduled' = scheduled
        /\ z = 1 /\ Head(calls).call = "sync" =>
             scheduled = <<>> /\ now' = now /\ scheduled' = scheduled
        /\ z = 0 => (Head(calls).call = "sync" /\ calls # <<>>) \/ now # Idle
  <2>1. CASE calls # <<>> /\ now = Idle /\ calls' = Append(Tail(calls), Scheduled) /\ Head(calls).call = "write"
    <3> WITNESS 1 \in {0, 1}
    <3> QED
      BY <1>0, <1>a, <1>b, <1>1, <2>1
  <2>2. CASE calls # <<>> /\ now = Idle /\ calls' = Tail(calls)
             /\ (Head(calls).call \in {"scheduled", "sync"} /\ scheduled = <<>> =>
                   now' = now /\ scheduled' = scheduled)
             /\ (Head(calls).call = "sync" => scheduled = <<>>)
    <3> WITNESS 1 \in {0, 1}
    <3> QED
      BY <1>0, <1>a, <1>b, <1>1, <2>2
  <2>3. CASE calls' = calls /\ ((Head(calls).call = "sync" /\ calls # <<>>) \/ now # Idle)
    <3> WITNESS 0 \in {0, 1}
    <3> QED
      BY <1>0, <1>a, <2>3
  <2>4. CASE now # Idle /\ calls' = Append(calls, Scheduled)
    <3> WITNESS 0 \in {0, 1}
    <3> QED
      BY <1>0, <1>a, <1>1, <2>4
  <2> QED
    BY <2>1, <2>2, <2>3, <2>4, ThreadCalls
<1>3. phase' = "running" => \A i \in DOMAIN calls' : calls'[i] # SyncAll
  BY <1>0, <1>2 DEF QuitOK
<1>4. ASSUME phase' = "quitting", NEW i \in DOMAIN calls', NEW j \in DOMAIN calls',
             calls'[i] = SyncAll, calls'[j].call = "write"
      PROVE  j < i
  <2>1. /\ i + z \in DOMAIN calls /\ calls[i + z] = SyncAll
        /\ j + z \in DOMAIN calls /\ calls[j + z].call = "write"
        /\ i \in Nat /\ j \in Nat /\ z \in Nat
    BY <1>0, <1>2, <1>4
  <2>2. j + z < i + z
    BY <1>4, <2>1 DEF QuitOK
  <2> QED
    BY <2>1, <2>2
<1>5. ASSUME phase' = "quitting", \A i \in DOMAIN calls' : calls'[i] # SyncAll
      PROVE  scheduled' = <<>> /\ now' = Idle /\ \A i \in DOMAIN calls' : calls'[i].call # "write"
  <2>1. CASE \A i \in DOMAIN calls : calls[i] # SyncAll
    <3>1. scheduled = <<>> /\ now = Idle /\ \A i \in DOMAIN calls : calls[i].call # "write"
      BY <1>5, <2>1 DEF QuitOK
    <3>2. calls # <<>> => Head(calls).call # "write" /\ Head(calls) # SyncAll /\ Head(calls) \in Calls
      BY <1>a, <1>b, <2>1, <3>1
    <3>3. calls # <<>> => Head(calls).call = "scheduled"
      BY <1>0, <3>2, CallFacts
    <3>4. z = 1 /\ now' = now /\ scheduled' = scheduled
      BY <1>2, <3>1, <3>3
    <3> QED
      BY <1>0, <1>2, <3>1, <3>4
  <2>2. CASE \E i \in DOMAIN calls : calls[i] = SyncAll
    <3>1. PICK i \in DOMAIN calls : calls[i] = SyncAll
      BY <2>2
    <3>2. ~(i > z) /\ i \in Nat /\ i >= 1
      BY <1>2, <1>5, <1>a, <3>1
    <3>3. z = 1 /\ i = 1
      BY <3>2
    <3>4. Head(calls) = SyncAll
      BY <1>2, <1>b, <3>1, <3>3
    <3>5. scheduled' = <<>> /\ now' = Idle
      BY <1>0, <1>2, <3>3, <3>4
    <3>6. \A j \in DOMAIN calls : calls[j].call # "write"
      BY <1>5, <1>a, <3>1, <3>3 DEF QuitOK
    <3> QED
      BY <1>0, <1>2, <3>5, <3>6
  <2> QED
    BY <2>1, <2>2
<1>6. phase' \in {"quitting", "off"} => ~account'.changed
  BY DEF QuitOK
<1> QED
  BY <1>3, <1>4, <1>5, <1>6 DEF QuitOK

\* A step of the thread keeps the invariant.
LEMMA ThreadStepKept ==
  ASSUME IInv, ThreadStep
  PROVE  IInv'
<1>0. /\ TypeOK /\ TypeManager /\ TypeMain /\ StoppedOK /\ QueueOK /\ NowOK /\ KeysOK /\ TextsOK
      /\ SeenOK /\ UnseenOK /\ MapsOK /\ CleanupOK /\ QuitOK /\ LatestOK
      /\ Thread /\ UNCHANGED <<drafts, unseen, account, phase, cleanup, spent>>
  BY DEF IInv, TypeOK, ThreadStep, mainVars
<1>1. ThreadKept
  BY <1>0, CallsKept, DiskStepKept DEF Thread
<1>2. /\ TypeManager' /\ QueueOK' /\ NowOK' /\ CopiesKept /\ OrderKept /\ PendingKept
      /\ OthersKept /\ LatestKept
  BY <1>1 DEF ThreadKept, Flows
<1>3. /\ "map" \in Names /\ Keys \subseteq Names
      /\ DataOf("map") = MapData /\ \A k \in Keys : DataOf(k) = DraftData
      /\ \A p \in Peers : account.map[p] \in Keys \cup {NoKey}
      /\ account.map \in Maps
      /\ \A t \in Texts \ {0} : DraftOf(t) \in DraftData
  BY <1>0, NameFacts, DataFacts DEF TypeMain, Maps
<1>4. KeysOK' /\ TextsOK' /\ MapsOK' /\ \A m \in Maps : IsMap(m)' => IsMap(m)
  <2>1. KeysQuiet
    BY <1>2, <1>3 DEF KeysQuiet, CopiesKept, OrderKept, PendingKept, OthersKept
  <2>2. MapsQuiet
    BY <1>2, <1>3 DEF MapsQuiet, CopiesKept, OrderKept
  <2>3. AccountQuiet
    BY <1>0 DEF AccountQuiet
  <2>4. \A m \in Maps : IsMap(m)' => m = account'.map \/ IsMap(m)
    BY <1>0, <1>3, <2>1, <2>2, <2>3, QuietKept
  <2>5. KeysOK' /\ TextsOK' /\ MapsOK'
    BY <1>0, <1>3, <2>1, <2>2, <2>3, QuietKept
  <2> QED
    BY <1>0, <2>4, <2>5 DEF IsMap
<1>5. TypeMain'
  BY <1>0 DEF TypeMain
<1>6. StoppedOK'
  <2>1. now # Idle \/ calls # <<>>
    BY <1>0, ThreadCalls
  <2> QED
    BY <1>0, <2>1 DEF StoppedOK
<1>7. SeenOK'
  BY <1>0 DEF SeenOK
<1>8. UnseenOK'
  <2>1. \A p \in unseen : ~Pending(account.map[p])'
    BY <1>0, <1>2, PendingNames, PendingNamesNext DEF UnseenOK, PendingKept
  <2> QED
    BY <1>0, <1>4, <2>1 DEF UnseenOK
<1>9. CleanupOK'
  BY <1>0 DEF CleanupOK, Tracked
<1>10. QuitOK'
  BY <1>0, ThreadQuits
<1>11. \A n \in Names : (Tracked(n)' <=> Tracked(n)) /\ (Lost(n) => Lost(n)')
  BY <1>0, <1>2 DEF Tracked, Lost, OthersKept, PendingKept
<1>12. \A k : Dead(k) => Dead(k)'
  BY <1>0, <1>2, <1>3, <1>11 DEF Dead, Readable, ReadFile, OthersKept, PendingKept
<1>13. ASSUME NEW x, NEW p \in Peers, Agrees(x, p)
       PROVE  Agrees(x, p)'
  BY <1>0, <1>12, <1>13 DEF Agrees
<1>14. LatestOK'
  <2> SUFFICES ASSUME phase # "killed"
               PROVE  LatestOK'
    BY <1>0 DEF LatestOK
  <2>1. \/ account'.changed \/ Lost("map")'
        \/ \E x \in Contents("map") : Latest("map", x)' /\ \A p \in Peers : Agrees(x, p)'
    <3>1. CASE account.changed \/ Lost("map")
      BY <1>0, <1>3, <1>11, <3>1
    <3>2. CASE \E x \in Contents("map") : Latest("map", x) /\ \A p \in Peers : Agrees(x, p)
      <4>1. PICK x \in Contents("map") : Latest("map", x) /\ \A p \in Peers : Agrees(x, p)
        BY <3>2
      <4>2. Latest("map", x)' \/ Lost("map")'
        BY <1>2, <1>3, <4>1 DEF LatestKept, Tracked
      <4> QED
        BY <1>13, <4>1, <4>2
    <3> QED
      BY <1>0, <3>1, <3>2 DEF LatestOK
  <2>2. ASSUME NEW p \in Peers \ unseen', account.map[p] # NoKey
        PROVE  Lost(account.map[p])' \/ Latest(account.map[p], DraftOf(drafts[p]))'
    <3>1. account.map[p] \in Names /\ Tracked(account.map[p])
      BY <1>3, <2>2 DEF Tracked
    <3>2. drafts[p] \in Texts \ {0}
      BY <1>0, <2>2 DEF SeenOK, TypeMain
    <3>3. DraftOf(drafts[p]) \in Contents(account.map[p])
      BY <1>3, <2>2, <3>2 DEF Contents
    <3>4. Lost(account.map[p]) \/ Latest(account.map[p], DraftOf(drafts[p]))
      BY <1>0, <2>2 DEF LatestOK
    <3> QED
      BY <1>0, <1>2, <1>11, <3>1, <3>3, <3>4 DEF LatestKept
  <2> QED
    BY <1>0, <2>1, <2>2 DEF LatestOK
<1> QED
  BY <1>2, <1>4, <1>5, <1>6, <1>7, <1>8, <1>9, <1>10, <1>14 DEF IInv, TypeOK

-----------------------------------------------------------------------------
(***************************************************************************)
(* The steps of the main thread keep the invariant, one lemma per kind.    *)
(***************************************************************************)

\* The parts of the invariant, and what they say of the account.
LEMMA Parts ==
  ASSUME IInv
  PROVE  /\ TypeOK /\ TypeManager /\ TypeMain /\ StoppedOK /\ QueueOK /\ NowOK /\ KeysOK
         /\ TextsOK /\ SeenOK /\ UnseenOK /\ MapsOK /\ CleanupOK /\ QuitOK /\ LatestOK
         /\ account.map \in Maps /\ IsMap(account.map)
         /\ \A p \in Peers :
              /\ account.map[p] \in Keys \cup {NoKey}
              /\ account.map[p] # NoKey =>
                   /\ account.map[p] \in Keys /\ account.map[p] \in spent.keys
                   /\ Tracked(account.map[p])
                   /\ \A q \in Peers : account.map[q] = account.map[p] => q = p
         /\ \A k \in Keys : Tracked(k) <=> \E p \in Peers : account.map[p] = k
<1>1. /\ TypeOK /\ TypeManager /\ TypeMain /\ StoppedOK /\ QueueOK /\ NowOK /\ KeysOK
      /\ TextsOK /\ SeenOK /\ UnseenOK /\ MapsOK /\ CleanupOK /\ QuitOK /\ LatestOK
  BY DEF IInv, TypeOK
<1>2. account.map \in Maps /\ IsMap(account.map)
  BY <1>1 DEF TypeMain, IsMap
<1>3. \A p \in Peers : account.map[p] \in Keys \cup {NoKey}
  BY <1>2 DEF Maps
<1>4. \A p \in Peers : account.map[p] # NoKey =>
        /\ account.map[p] \in Keys /\ account.map[p] \in spent.keys
        /\ Tracked(account.map[p])
        /\ \A q \in Peers : account.map[q] = account.map[p] => q = p
  BY <1>1, <1>2, <1>3 DEF KeysOK, Tracked
<1>5. \A k \in Keys : Tracked(k) <=> \E p \in Peers : account.map[p] = k
  BY NameFacts DEF Tracked
<1> QED
  BY <1>1, <1>2, <1>3, <1>4, <1>5

\* Names and data, in short.
LEMMA Shapes ==
  /\ "map" \in Names /\ Keys \subseteq Names /\ "map" \notin Keys /\ NoKey \notin Keys
  /\ NoKey # "map" /\ \A n \in Names : n = "map" \/ n \in Keys
  /\ DataOf("map") = MapData /\ \A k \in Keys : DataOf(k) = DraftData
  /\ Contents("map") = MapData \cup {Nothing, Cut}
  /\ \A k \in Keys : Contents(k) = DraftData \cup {Nothing, Cut}
  /\ \A t \in Texts \ {0} : DraftOf(t) \in DraftData /\ DraftOf(t).text = t /\ DraftOf(t).kind = "draft"
  /\ \A m \in Maps : /\ [kind |-> "map", keys |-> m] \in MapData
                     /\ [kind |-> "map", keys |-> m].keys = m
                     /\ [kind |-> "map", keys |-> m].kind = "map"
  /\ Texts \subseteq Nat /\ 0 \in Texts
<1>1. NoKey # "map"
  BY NameFacts
<1>2. \A n \in Names : n = "map" \/ n \in Keys
  BY NameFacts
<1>3. Contents("map") = MapData \cup {Nothing, Cut} /\ \A k \in Keys : Contents(k) = DraftData \cup {Nothing, Cut}
  BY NameFacts DEF Contents
<1>4. \A t \in Texts \ {0} : DraftOf(t).kind = "draft"
  BY DEF DraftOf
<1> QED
  BY <1>1, <1>2, <1>3, <1>4, NameFacts, DataFacts

\* What the account and the user know comes to the disk, at a step that
\* leaves alone the files of the keys of these chats.
LEMMA LatestStays ==
  ASSUME IInv, phase # "killed", failed' = failed, account'.map \in Maps,
         \A p \in Peers \ unseen', k \in Keys : account'.map[p] = k =>
           /\ account.map[p] = k
           /\ Pending(k)' <=> Pending(k)
           /\ \/ /\ p \notin unseen /\ drafts'[p] = drafts[p]
                 /\ \A x \in DraftData : Latest(k, x) => Latest(k, x)'
              \/ Latest(k, DraftOf(drafts[p]))',
         \/ account'.changed
         \/ Lost("map") /\ (Pending("map")' <=> Pending("map"))
         \/ \E x \in Contents("map") : Latest("map", x)' /\ \A p \in Peers : Agrees(x, p)'
  PROVE  LatestOK'
<1>1. ASSUME NEW p \in Peers \ unseen', NEW k \in Keys, account'.map[p] = k
      PROVE  Lost(k)' \/ Latest(k, DraftOf(drafts[p]))'
  <2>1. account.map[p] = k
    BY <1>1
  <2>2. CASE p \notin unseen /\ drafts'[p] = drafts[p]
             /\ \A x \in DraftData : Latest(k, x) => Latest(k, x)'
    <3>1. Lost(k) \/ Latest(k, DraftOf(drafts[p]))
      BY <1>1, <2>1, <2>2, Parts, Shapes DEF LatestOK
    <3>2. drafts[p] \in Texts \ {0}
      BY <1>1, <2>1, <2>2, Parts, Shapes DEF SeenOK, TypeMain
    <3>3. DraftOf(drafts[p]) \in DraftData
      BY <3>2, Shapes
    <3>4. Lost(k) => Lost(k)'
      BY <1>1, <2>1 DEF Lost
    <3> QED
      BY <2>1, <2>2, <3>1, <3>3, <3>4
  <2> QED
    BY <1>1, <2>1, <2>2
<1>2. account'.changed \/ Lost("map")'
      \/ \E x \in Contents("map") : Latest("map", x)' /\ \A p \in Peers : Agrees(x, p)'
  BY DEF Lost
<1>3. ASSUME NEW p \in Peers \ unseen', account'.map[p] # NoKey
      PROVE  Lost(account.map[p])' \/ Latest(account.map[p], DraftOf(drafts[p]))'
  <2>1. account'.map[p] \in Keys
    BY <1>3 DEF Maps
  <2> QED
    BY <1>1, <2>1
<1> QED
  BY <1>2, <1>3 DEF LatestOK

\* What is being written finds its file as it was, or cleared.
LEMMA NowStays ==
  ASSUME TypeManager, NowOK, UNCHANGED <<now, failed>>,
         \A n \in Names : Writing(n) =>
           \/ files'[n] = files[n] /\ (Tracked(n)' => Tracked(n))
           \/ files'[n] = Nowhere /\ ~Tracked(n)'
  PROVE  NowOK'
<1>1. CASE now = Idle
  BY <1>1 DEF NowOK, Idle
<1>2. CASE now # Idle
  <2>1. Writing(now.entry.name) /\ now.entry.name \in Names
    BY <1>2, NowFacts DEF Writing
  <2>2. CASE files'[now.entry.name] = files[now.entry.name]
             /\ (Tracked(now.entry.name)' => Tracked(now.entry.name))
    BY <2>2 DEF NowOK
  <2>3. CASE files'[now.entry.name] = Nowhere /\ ~Tracked(now.entry.name)'
    BY <2>3 DEF NowOK, Nowhere
  <2> QED
    BY <2>1, <2>2, <2>3
<1> QED
  BY <1>1, <1>2

\* The type of what the thread works on, when the main thread has called it or
\* cleared files.
LEMMA ManagerStays ==
  ASSUME TypeManager, calls' \in Seq(Calls), UNCHANGED <<scheduled, now, failed, failures>>,
         \/ files' = files
         \/ \E S : files' = [n \in Names |-> IF n \in S THEN Nowhere ELSE files[n]]
  PROVE  TypeManager'
<1>1. Nowhere \in [s : Contained, simple : Contained]
      /\ \A n : Nowhere.s \in Contents(n) /\ Nowhere.simple \in Contents(n)
  BY DEF Nowhere, Contained, Contents
<1>2. CASE files' = files
  BY <1>2 DEF TypeManager
<1>3. ASSUME NEW S, files' = [n \in Names |-> IF n \in S THEN Nowhere ELSE files[n]]
      PROVE  TypeManager'
  <2>1. files' \in [Names -> [s : Contained, simple : Contained]]
    BY <1>1, <1>3 DEF TypeManager
  <2>2. \A n \in Names : files'[n].s \in Contents(n) /\ files'[n].simple \in Contents(n)
    BY <1>1, <1>3 DEF TypeManager
  <2> QED
    BY <2>1, <2>2 DEF TypeManager
<1> QED
  BY <1>2, <1>3

\* No call of writeSyncAll() comes from one to write, and it comes last.
LEMMA QuitStays ==
  ASSUME TypeManager, QuitOK, phase = "running", NEW cs,
         cs = calls \/ \E e \in Entries : cs = Write(calls, e),
         \/ phase' = "running" /\ calls' = cs
         \/ phase' = "quitting" /\ calls' = Append(cs, SyncAll) /\ ~account'.changed
  PROVE  QuitOK'
<1>0. calls \in Seq(Calls) /\ SyncAll \in Calls /\ SyncAll.call = "sync"
  BY DEF TypeManager, Calls, SyncAll
<1>1. cs \in Seq(Calls) /\ Len(cs) \in Nat /\ DOMAIN cs = 1 .. Len(cs)
      /\ \A i \in 1 .. Len(cs) : cs[i] # SyncAll
  <2>1. Len(calls) \in Nat /\ DOMAIN calls = 1 .. Len(calls)
        /\ \A i \in 1 .. Len(calls) : calls[i] # SyncAll
    BY <1>0, LenProperties DEF QuitOK
  <2>2. CASE cs = calls
    BY <1>0, <2>1, <2>2
  <2>3. ASSUME NEW e \in Entries, cs = Write(calls, e)
        PROVE  cs \in Seq(Calls) /\ Len(cs) \in Nat /\ DOMAIN cs = 1 .. Len(cs)
               /\ \A i \in 1 .. Len(cs) : cs[i] # SyncAll
    <3>1. PICK c : c = [call |-> "write", entry |-> e]
      OBVIOUS
    <3>2. c # SyncAll
      BY <3>1 DEF SyncAll
    <3>3. cs = Append(calls, c)
      BY <2>3, <3>1 DEF Write
    <3>0. c \in Calls
      BY <3>1 DEF Calls
    <3>4. cs \in Seq(Calls) /\ Len(cs) = Len(calls) + 1 /\ DOMAIN cs = 1 .. Len(calls) + 1
          /\ cs[Len(calls) + 1] = c /\ \A i \in 1 .. Len(calls) : cs[i] = calls[i]
      <4>1. Append(calls, c) \in Seq(Calls) /\ Len(Append(calls, c)) = Len(calls) + 1
            /\ Append(calls, c)[Len(calls) + 1] = c
            /\ \A i \in 1 .. Len(calls) : Append(calls, c)[i] = calls[i]
        BY <1>0, <3>0, AppendProperties
      <4>2. DOMAIN Append(calls, c) = 1 .. Len(Append(calls, c))
        BY <4>1, LenProperties
      <4> QED
        BY <3>3, <4>1, <4>2
    <3> QED
      BY <2>1, <3>2, <3>4
  <2> QED
    BY <1>0, <2>1, <2>2, <2>3
<1>2. CASE phase' = "running" /\ calls' = cs
  BY <1>1, <1>2 DEF QuitOK
<1>3. CASE phase' = "quitting" /\ calls' = Append(cs, SyncAll) /\ ~account'.changed
  <2>1. Len(calls') = Len(cs) + 1 /\ DOMAIN calls' = 1 .. Len(cs) + 1
        /\ calls'[Len(cs) + 1] = SyncAll /\ \A i \in 1 .. Len(cs) : calls'[i] = cs[i]
    BY <1>0, <1>1, <1>3, AppendProperties, LenProperties
  <2> QED
    BY <1>0, <1>1, <1>3, <2>1 DEF QuitOK
<1> QED
  BY <1>2, <1>3

\* The account calls for the map, if it has changed: now, or as it quits.
LEMMA MapStepKept ==
  ASSUME IInv, PostedWriteMap \/ TimerFires \/ Quit
  PROVE  IInv'
<1>d. PICK d : d = [kind |-> "map", keys |-> account.map]
  OBVIOUS
<1> DEFINE cs == WriteMap(account, calls)
<1>0. /\ phase = "running" /\ phase' \in {"running", "quitting"}
      /\ UNCHANGED <<scheduled, now, files, failed, failures, drafts, unseen, spent>>
      /\ \/ phase' = "running" /\ calls' = cs
         \/ phase' = "quitting" /\ calls' = Append(cs, SyncAll)
      /\ cleanup' \in {cleanup, NoCleanup}
      /\ account' \in { MapWritten(account), [MapWritten(account) EXCEPT !.posted = FALSE] }
  BY DEF PostedWriteMap, TimerFires, Quit, WritesMap
<1>1. /\ account'.map = account.map /\ account'.notRead = account.notRead /\ ~account'.changed
      /\ account' \in [ map : Maps, notRead : SUBSET Peers, changed : BOOLEAN,
                        timer : BOOLEAN, posted : BOOLEAN ]
  <2>1. account \in [ map : Maps, notRead : SUBSET Peers, changed : BOOLEAN,
                      timer : BOOLEAN, posted : BOOLEAN ]
    BY Parts DEF TypeMain
  <2> QED
    BY <1>0, <2>1 DEF MapWritten
<1>2. /\ account.changed => cs = Write(calls, Entry("map", d))
      /\ ~account.changed => cs = calls
      /\ d \in MapData /\ d.keys = account.map /\ d.kind = "map"
  BY <1>d, Parts, Shapes DEF WriteMap, MapEntry
<1>3. Entry("map", d) \in Entries
  BY <1>2, Shapes, EntryFacts
<1> HIDE DEF cs
<1>4. /\ calls' \in Seq(Calls)
      /\ \A n \in Names :
           /\ n # "map" => /\ Pending(n)' <=> Pending(n)
                           /\ \A x \in DataOf(n) : Copy(n, x)' => Copy(n, x)
                           /\ \A x, y \in DataOf(n) : Follows(n, x, y)' => Follows(n, x, y)
                           /\ \A x \in Contents(n) : Latest(n, x) => Latest(n, x)'
           /\ files'[n] = files[n]
      /\ \A x \in MapData : Copy("map", x)' => Copy("map", x) \/ x = d
      /\ \A x, y \in MapData : Follows("map", x, y)' => Follows("map", x, y) \/ y = d
      /\ account.changed => Latest("map", d)'
      /\ ~account.changed => /\ Pending("map")' <=> Pending("map")
                             /\ \A x \in Contents("map") : Latest("map", x) => Latest("map", x)'
  <2>1. CASE account.changed
    <3>1. calls' = Write(calls, Entry("map", d)) \/ calls' = Append(Write(calls, Entry("map", d)), SyncAll)
      BY <1>0, <1>2, <2>1
    <3>2. CalledWith("map", d) /\ calls' \in Seq(Calls)
      BY <1>0, <1>2, <3>1, Parts, Shapes, WrittenCalled
    <3> QED
      BY <2>1, <3>2, Shapes DEF CalledWith
  <2>2. CASE ~account.changed
    <3>1. calls' = calls \/ calls' = Append(calls, SyncAll)
      BY <1>0, <1>2, <2>2
    <3>e. PICK S : S = {}
      OBVIOUS
    <3>2. files' = [n \in Names |-> IF n \in S THEN Nowhere ELSE files[n]]
      BY <1>0, <3>e, Parts DEF TypeManager
    <3>3. StaysBut(S) /\ \A n : Pending(n)' <=> Pending(n)
      BY <1>0, <3>1, <3>2, Parts, ClearedStays
    <3>4. calls' \in Seq(Calls)
      BY <3>1, Parts, CallOther DEF TypeManager
    <3> QED
      BY <2>2, <3>e, <3>3, <3>4, Shapes DEF StaysBut
  <2> QED
    BY <2>1, <2>2
<1>5. KeysOK' /\ TextsOK' /\ MapsOK' /\ \A m \in Maps : IsMap(m)' => IsMap(m)
  <2>1. KeysQuiet
    BY <1>4, Shapes DEF KeysQuiet
  <2>2. MapsQuiet
    BY <1>2, <1>4 DEF MapsQuiet
  <2>3. AccountQuiet
    BY <1>0, <1>1 DEF AccountQuiet
  <2>4. /\ \A m \in Maps : IsMap(m)' => m = account'.map \/ IsMap(m)
        /\ KeysOK' /\ TextsOK' /\ MapsOK'
    BY <1>0, <1>1, <2>1, <2>2, <2>3, Parts, QuietKept
  <2> QED
    BY <1>1, <2>4 DEF IsMap
<1>6. TypeManager'
  BY <1>0, <1>4, Parts, ManagerStays
<1>7. TypeMain'
  BY <1>0, <1>1, Parts DEF TypeMain, NoCleanup
<1>8. StoppedOK' /\ QueueOK'
  BY <1>0, Parts DEF StoppedOK, QueueOK
<1>9. \A n : Tracked(n)' <=> Tracked(n)
  BY <1>1 DEF Tracked
<1>10. NowOK'
  BY <1>0, <1>9, Parts, NowStays
<1>11. SeenOK'
  BY <1>0, <1>1, Parts DEF SeenOK
<1>12. UnseenOK'
  <2>1. \A p \in unseen : ~Pending(account.map[p])'
    <3> SUFFICES ASSUME NEW p \in unseen PROVE ~Pending(account.map[p])'
      OBVIOUS
    <3>1. p \in Peers /\ ~Pending(account.map[p])
      BY Parts DEF TypeMain, UnseenOK
    <3>2. CASE account.map[p] \in Keys
      BY <1>1, <1>4, <3>1, <3>2, Shapes
    <3>3. CASE account.map[p] = NoKey
      BY <1>1, <1>6, <3>3, PendingNamesNext, NameFacts
    <3> QED
      BY <3>1, <3>2, <3>3, Parts
  <2> QED
    BY <1>0, <1>1, <1>5, <2>1, Parts DEF UnseenOK
<1>13. CleanupOK'
  BY <1>0, <1>9, Parts DEF CleanupOK, NoCleanup
<1>14. QuitOK'
  <2>1. cs = calls \/ \E e \in Entries : cs = Write(calls, e)
    BY <1>2, <1>3
  <2> QED
    BY <1>0, <1>1, <2>1, Parts, QuitStays
<1>15. \A k : Dead(k) => Dead(k)'
  BY <1>0, <1>4, <1>9, Shapes DEF Dead, Readable, ReadFile
<1>16. LatestOK'
  <2>1. \/ Lost("map") /\ (Pending("map")' <=> Pending("map"))
        \/ \E x \in Contents("map") : Latest("map", x)' /\ \A p \in Peers : Agrees(x, p)'
    <3>1. CASE account.changed
      <4>1. d \in Contents("map") /\ Latest("map", d)'
        BY <1>2, <1>4, <3>1, Shapes
      <4>2. \A p \in Peers : Agrees(d, p)'
        BY <1>1, <1>2 DEF Agrees
      <4> QED
        BY <4>1, <4>2
    <3>2. CASE ~account.changed
      <4>1. Lost("map") \/ \E x \in Contents("map") : Latest("map", x) /\ \A p \in Peers : Agrees(x, p)
        BY <1>0, <3>2, Parts DEF LatestOK
      <4>2. \A x, p : Agrees(x, p) => Agrees(x, p)'
        BY <1>1, <1>15 DEF Agrees
      <4> QED
        BY <1>4, <3>2, <4>1, <4>2
    <3> QED
      BY <3>1, <3>2
  <2>2. \A p \in Peers \ unseen', k \in Keys : account'.map[p] = k =>
           /\ account.map[p] = k
           /\ Pending(k)' <=> Pending(k)
           /\ p \notin unseen /\ drafts'[p] = drafts[p]
           /\ \A x \in DraftData : Latest(k, x) => Latest(k, x)'
    BY <1>0, <1>1, <1>4, Shapes
  <2> QED
    BY <1>0, <1>1, <2>1, <2>2, Parts, LatestStays
<1> QED
  BY <1>5, <1>6, <1>7, <1>8, <1>10, <1>11, <1>12, <1>13, <1>14, <1>16 DEF IInv, TypeOK

\* The program ends; when it quits, nothing is left to write.
LEMMA EndKept ==
  ASSUME IInv, QuitEnds \/ Killed
  PROVE  IInv'
<1>0. /\ phase \in {"running", "quitting"} /\ phase' \in {"off", "killed"}
      /\ calls' = <<>> /\ scheduled' = <<>> /\ now' = Idle /\ cleanup' = NoCleanup
      /\ UNCHANGED <<files, failed, failures, drafts, unseen, account, spent>>
      /\ phase' = "off" => /\ phase = "quitting"
                           /\ \A i \in DOMAIN calls : calls[i] # SyncAll
  BY DEF QuitEnds, Killed, Ended
<1>1. /\ \A n, x : ~Pending(n)' /\ (Copy(n, x)' <=> x = ReadFile(n))
                   /\ (Latest(n, x)' <=> x = ReadFile(n))
      /\ \A n, x, y : Follows(n, x, y)' <=> x = ReadFile(n) /\ y = ReadFile(n)
      /\ \A n : ReadFile(n)' = ReadFile(n)
  BY <1>0, Parts, EndedStays
<1>2. \A n, x : Copy(n, x)' => Copy(n, x)
  BY <1>1 DEF Copy
<1>3. \A n, x, y : Follows(n, x, y)' => Follows(n, x, y)
  BY <1>1 DEF Follows, Copy
<1>4. KeysOK' /\ TextsOK' /\ MapsOK' /\ \A m \in Maps : IsMap(m)' => IsMap(m)
  <2>1. KeysQuiet
    BY <1>0, <1>1, <1>2, <1>3 DEF KeysQuiet
  <2>2. MapsQuiet
    BY <1>2, <1>3 DEF MapsQuiet
  <2>3. AccountQuiet
    BY <1>0 DEF AccountQuiet
  <2>4. /\ \A m \in Maps : IsMap(m)' => m = account'.map \/ IsMap(m)
        /\ KeysOK' /\ TextsOK' /\ MapsOK'
    BY <1>0, <2>1, <2>2, <2>3, Parts, QuietKept
  <2> QED
    BY <1>0, <2>4 DEF IsMap
<1>5. TypeManager' /\ TypeMain'
  BY <1>0, Parts DEF TypeManager, TypeMain, NoCleanup
<1>6. StoppedOK' /\ QueueOK' /\ NowOK'
  BY <1>0 DEF StoppedOK, QueueOK, NowOK, Idle
<1>7. SeenOK' /\ UnseenOK'
  BY <1>0, <1>1, <1>4, Parts DEF SeenOK, UnseenOK
<1>8. CleanupOK'
  BY <1>0 DEF CleanupOK, NoCleanup
<1>9. QuitOK'
  BY <1>0, Parts DEF QuitOK
<1>10. LatestOK'
  <2> SUFFICES ASSUME phase' = "off"
               PROVE  LatestOK'
    BY <1>0 DEF LatestOK
  <2>1. phase = "quitting" /\ ~account.changed /\ scheduled = <<>> /\ now = Idle
        /\ \A i \in DOMAIN calls : calls[i].call # "write"
    BY <1>0, Parts DEF QuitOK
  <2>2. \A n : ~Pending(n) /\ \A x : Latest(n, x) <=> x = ReadFile(n)
    BY <2>1 DEF Pending, IsCalled, Queued, Writing, Latest
  <2>3. \A x, p : Agrees(x, p) => Agrees(x, p)'
    <3>1. \A k : Dead(k) => Dead(k)'
      BY <1>0, <1>1 DEF Dead, Readable, Tracked
    <3> QED
      BY <1>0, <3>1 DEF Agrees
  <2>4. \/ Lost("map") /\ (Pending("map")' <=> Pending("map"))
        \/ \E x \in Contents("map") : Latest("map", x)' /\ \A p \in Peers : Agrees(x, p)'
    <3>1. Lost("map") \/ \E x \in Contents("map") : Latest("map", x) /\ \A p \in Peers : Agrees(x, p)
      BY <2>1, Parts DEF LatestOK
    <3> QED
      BY <1>1, <2>2, <2>3, <3>1
  <2>5. \A p \in Peers \ unseen', k \in Keys : account'.map[p] = k =>
           /\ account.map[p] = k
           /\ Pending(k)' <=> Pending(k)
           /\ p \notin unseen /\ drafts'[p] = drafts[p]
           /\ \A x \in DraftData : Latest(k, x) => Latest(k, x)'
    BY <1>0, <1>1, <2>2
  <2> QED
    BY <1>0, <2>1, <2>4, <2>5, Parts, LatestStays
<1> QED
  BY <1>4, <1>5, <1>6, <1>7, <1>8, <1>9, <1>10 DEF IInv, TypeOK

\* The program starts with the map that the disk holds.
LEMMA StartKept ==
  ASSUME IInv, Start
  PROVE  IInv'
<1> DEFINE data == ReadFile("map")
           map == IF Readable("map") THEN data.keys ELSE Empty.map
<1>0. /\ phase \in {"off", "killed"} /\ phase' = "running" /\ unseen' = Peers
      /\ account' = [Empty EXCEPT !.map = map, !.notRead = { p \in Peers : map[p] # NoKey }]
      /\ cleanup' = [step |-> "list", names |-> {}]
      /\ spent' = [spent EXCEPT !.starts = @ + 1]
      /\ UNCHANGED <<calls, scheduled, now, files, failed, failures, drafts>>
  BY DEF Start, managerVars
<1>1. calls = <<>> /\ scheduled = <<>> /\ now = Idle
  BY <1>0, Parts DEF StoppedOK
<1>2. /\ \A n, x : ~Pending(n)' /\ (Copy(n, x)' <=> x = ReadFile(n))
                   /\ (Latest(n, x)' <=> x = ReadFile(n))
      /\ \A n, x, y : Follows(n, x, y)' <=> x = ReadFile(n) /\ y = ReadFile(n)
      /\ \A n : ReadFile(n)' = ReadFile(n)
  BY <1>0, <1>1, Parts, EndedStays
<1>3. \A n, x : Copy(n, x)' => Copy(n, x)
  BY <1>2 DEF Copy
<1>4. \A n, x, y : Follows(n, x, y)' => Follows(n, x, y)
  BY <1>2 DEF Follows, Copy
<1>5. data \in Contents("map") /\ (Readable("map") => data \in MapData /\ data.kind = "map")
      /\ (~Readable("map") => data.kind # "map")
  <2>1. data \in Contents("map")
    BY Parts, Shapes DEF TypeManager, ReadFile
  <2> QED
    BY <2>1, Shapes, DataFacts DEF Readable
<1>6. map \in Maps /\ (Readable("map") => map = data.keys)
      /\ (~Readable("map") => \A p \in Peers : map[p] = NoKey)
  <2>1. Empty.map \in Maps /\ \A p \in Peers : Empty.map[p] = NoKey
    BY DEF Empty, Maps
  <2> QED
    BY <1>5, <2>1, DataFacts
<1> HIDE DEF data, map
<1>7. /\ account' \in [ map : Maps, notRead : SUBSET Peers, changed : BOOLEAN,
                        timer : BOOLEAN, posted : BOOLEAN ]
      /\ account'.map = map /\ account'.notRead = { p \in Peers : map[p] # NoKey }
      /\ ~account'.changed
  BY <1>0, <1>6 DEF Empty
<1>8. /\ spent' \in [texts : Texts, starts : Nat, keys : SUBSET Keys]
      /\ spent'.texts = spent.texts /\ spent'.keys = spent.keys
  BY <1>0, Parts DEF TypeMain
\* The map the start reads is that of a copy, and the only one.
<1>9. \A m \in Maps : IsMap(m)' => /\ m = map
                                   /\ IsMap(m) \/ \A p \in Peers : m[p] = NoKey
  <2> SUFFICES ASSUME NEW m \in Maps, IsMap(m)'
               PROVE  m = map /\ (IsMap(m) \/ \A p \in Peers : m[p] = NoKey)
    OBVIOUS
  <2>1. CASE Copy("map", [kind |-> "map", keys |-> m])'
    <3>1. [kind |-> "map", keys |-> m] = data
      BY <1>2, <2>1 DEF data
    <3>2. Readable("map") /\ data.keys = m
      BY <1>5, <3>1
    <3> QED
      BY <1>3, <1>6, <2>1, <3>2 DEF IsMap
  <2>2. CASE m = account'.map
    <3>1. m = map
      BY <1>7, <2>2
    <3>2. CASE ~Readable("map")
      BY <1>6, <3>1, <3>2
    <3>3. CASE Readable("map")
      <4>1. Copy("map", data) /\ data = [kind |-> "map", keys |-> m]
        BY <1>5, <1>6, <3>1, <3>3, DataFacts DEF data, Copy
      <4> QED
        BY <3>1, <4>1 DEF IsMap
    <3> QED
      BY <3>2, <3>3
  <2> QED
    BY <2>1, <2>2 DEF IsMap
<1>10. KeysOK'
  <2>1. \A k \in Keys : files'[k] # Nowhere \/ Pending(k)' => k \in spent'.keys
    BY <1>0, <1>2, <1>8, Parts DEF KeysOK
  <2>2. \A m \in Maps, p \in Peers : IsMap(m)' /\ m[p] # NoKey => m[p] \in spent'.keys
    BY <1>8, <1>9, Parts DEF KeysOK
  <2>3. \A l, m \in Maps, p, q \in Peers :
          IsMap(l)' /\ IsMap(m)' /\ l[p] = m[q] /\ l[p] # NoKey => p = q
    BY <1>9, Parts DEF KeysOK
  <2> QED
    BY <2>1, <2>2, <2>3 DEF KeysOK
<1>11. TextsOK'
  <2>1. \A k \in Keys, t \in Texts \ {0} : IsText(k, t)' => IsText(k, t)
    BY <1>0, <1>3 DEF IsText
  <2>2. \A k \in Keys, t \in Texts \ {0} : IsText(k, t)' => t <= spent'.texts
    BY <1>8, <2>1, Parts DEF TextsOK
  <2>3. \A k, j \in Keys, t \in Texts \ {0} : IsText(k, t)' /\ IsText(j, t)' => k = j
    BY <2>1, Parts DEF TextsOK
  <2>4. \A k \in Keys, t, u \in Texts \ {0} : Follows(k, DraftOf(t), DraftOf(u))' => t <= u
    BY <1>4, Parts DEF TextsOK
  <2> QED
    BY <1>0, <2>2, <2>3, <2>4 DEF TextsOK
<1>12. SeenOK' /\ UnseenOK' /\ MapsOK'
  <2>1. SeenOK'
    BY <1>0 DEF SeenOK
  <2>2. UnseenOK'
    BY <1>0, <1>2, <1>7, <1>9 DEF UnseenOK
  <2>3. MapsOK'
    BY <1>2 DEF MapsOK
  <2> QED
    BY <2>1, <2>2, <2>3
<1>13. CleanupOK'
  BY <1>0 DEF CleanupOK
<1>14. StoppedOK' /\ QueueOK' /\ NowOK' /\ QuitOK'
  BY <1>0, <1>1 DEF StoppedOK, QueueOK, NowOK, Idle, QuitOK
<1>15. TypeManager' /\ TypeMain'
  BY <1>0, <1>7, <1>8, Parts DEF TypeManager, TypeMain
<1>16. LatestOK'
  <2>1. data \in Contents("map")
    BY <1>5
  <2>2. \A p \in Peers : (IF data.kind = "map" THEN data.keys[p] ELSE NoKey) = map[p]
    BY <1>5, <1>6
  <2>3. PICK x \in Contents("map") : x = data
    BY <2>1
  <2>4. \A p \in Peers : Agrees(x, p)'
    BY <1>7, <2>2, <2>3 DEF Agrees
  <2>5. Latest("map", x)'
    BY <1>2, <2>3 DEF data
  <2> QED
    BY <1>0, <2>4, <2>5 DEF LatestOK
<1> QED
  BY <1>10, <1>11, <1>12, <1>13, <1>14, <1>15, <1>16 DEF IInv, TypeOK

\* Files are cleared that the account does not know, or not any more.
LEMMA ClearedKept ==
  ASSUME IInv, phase = "running", NEW S, "map" \notin S,
         files' = [n \in Names |-> IF n \in S THEN Nowhere ELSE files[n]],
         UNCHANGED <<calls, scheduled, now, failed, failures, phase, spent>>,
         \A n \in S : ~Tracked(n)',
         TypeMain', CleanupOK', SeenOK', AccountQuiet, unseen' \subseteq unseen,
         \A p \in unseen' : /\ account'.map[p] = account.map[p]
                            /\ p \in account'.notRead <=> p \in account.notRead,
         account.changed => account'.changed,
         \/ account'.changed
         \/ \A p \in Peers : account'.map[p] # account.map[p] =>
              account.map[p] \in S /\ ~Pending(account.map[p]),
         \A p \in Peers \ unseen' : account'.map[p] # NoKey =>
           \/ p \notin unseen /\ drafts'[p] = drafts[p]
           \/ \E t \in Texts \ {0} : drafts'[p] = t /\ Latest(account.map[p], DraftOf(t))
  PROVE  IInv'
<1>1. StaysBut(S) /\ \A n : Pending(n)' <=> Pending(n)
  BY Parts, ClearedStays
<1>2. /\ \A n \in Names : /\ \A x \in DataOf(n) : Copy(n, x)' => Copy(n, x)
                          /\ \A x, y \in DataOf(n) : Follows(n, x, y)' => Follows(n, x, y)
      /\ \A n \in Names \ S : /\ files'[n] = files[n] /\ ReadFile(n)' = ReadFile(n)
                              /\ \A x \in Contents(n) : Latest(n, x) => Latest(n, x)'
      /\ \A n \in Names \cap S : files'[n] = Nowhere /\ ReadFile(n)' = Nothing
  BY <1>1 DEF StaysBut
<1>3. account'.map \in Maps /\ \A p \in Peers : account'.map[p] \in {account.map[p], NoKey}
  BY DEF TypeMain, AccountQuiet
<1>4. KeysOK' /\ TextsOK' /\ MapsOK' /\ \A m \in Maps : IsMap(m)' => m = account'.map \/ IsMap(m)
  <2>1. KeysQuiet
    BY <1>1, <1>2, Shapes DEF KeysQuiet
  <2>2. MapsQuiet
    BY <1>2, Shapes DEF MapsQuiet
  <2> QED
    BY <1>3, <2>1, <2>2, Parts, QuietKept
<1>5. TypeManager'
  <2>1. calls' \in Seq(Calls)
    BY Parts DEF TypeManager
  <2> QED
    BY <2>1, Parts, ManagerStays
<1>6. StoppedOK' /\ QueueOK' /\ QuitOK'
  BY Parts DEF StoppedOK, QueueOK, QuitOK
<1>7. \A n \in Names : Tracked(n)' => Tracked(n)
  BY <1>3, NameFacts DEF Tracked
<1>8. NowOK'
  BY <1>2, <1>7, Parts, NowStays
<1>9. UnseenOK'
  <2> SUFFICES ASSUME NEW p \in unseen'
               PROVE  /\ p \in account'.notRead <=> account'.map[p] # NoKey
                      /\ ~Pending(account.map[p])'
                      /\ \A m \in Maps : IsMap(m)' => m[p] = account'.map[p]
    BY DEF UnseenOK
  <2>1. p \in unseen /\ account'.map[p] = account.map[p]
    OBVIOUS
  <2> QED
    BY <1>1, <1>4, <2>1, Parts DEF UnseenOK
<1>10. \A k : Dead(k) => Dead(k)'
  BY <1>1, <1>2, <1>7, Shapes DEF Dead, Readable
<1>11. LatestOK'
  <2>1. ASSUME NEW p \in Peers \ unseen', NEW k \in Keys, account'.map[p] = k
        PROVE  /\ account.map[p] = k
               /\ Pending(k)' <=> Pending(k)
               /\ \/ /\ p \notin unseen /\ drafts'[p] = drafts[p]
                     /\ \A x \in DraftData : Latest(k, x) => Latest(k, x)'
                  \/ Latest(k, DraftOf(drafts[p]))'
    <3>1. account.map[p] = k /\ k # NoKey /\ k \in Names \ S
      BY <1>3, <2>1, Shapes DEF Tracked
    <3>2. \A x \in DraftData : Latest(k, x) => Latest(k, x)'
      BY <1>2, <3>1, Shapes
    <3>3. CASE p \notin unseen /\ drafts'[p] = drafts[p]
      BY <1>1, <3>1, <3>2, <3>3
    <3>4. ASSUME NEW t \in Texts \ {0}, drafts'[p] = t, Latest(account.map[p], DraftOf(t))
          PROVE  Latest(k, DraftOf(drafts[p]))'
      BY <3>1, <3>2, <3>4, Shapes
    <3> QED
      BY <1>1, <2>1, <3>1, <3>3, <3>4
  <2>2. \/ account'.changed
        \/ Lost("map") /\ (Pending("map")' <=> Pending("map"))
        \/ \E x \in Contents("map") : Latest("map", x)' /\ \A p \in Peers : Agrees(x, p)'
    <3> SUFFICES ASSUME ~account'.changed, ~Lost("map")
                 PROVE  \E x \in Contents("map") : Latest("map", x)' /\ \A p \in Peers : Agrees(x, p)'
      BY <1>1
    <3>1. PICK x \in Contents("map") : Latest("map", x) /\ \A p \in Peers : Agrees(x, p)
      BY Parts DEF LatestOK
    <3>2. Latest("map", x)'
      BY <1>2, <3>1, Shapes
    <3>3. ASSUME NEW p \in Peers
          PROVE  Agrees(x, p)'
      <4>1. PICK k : k = IF x.kind = "map" THEN x.keys[p] ELSE NoKey
        OBVIOUS
      <4>2. k = account.map[p] \/ (account.map[p] = NoKey /\ Dead(k))
        BY <3>1, <4>1 DEF Agrees
      <4>3. k = account'.map[p] \/ (account'.map[p] = NoKey /\ Dead(k)')
        <5>1. CASE account'.map[p] = account.map[p]
          BY <1>10, <4>2, <5>1
        <5>2. CASE account'.map[p] # account.map[p]
          <6>1. account'.map[p] = NoKey /\ account.map[p] \in Keys /\ k = account.map[p]
                /\ k \in S /\ ~Pending(k)
            BY <1>3, <4>2, <5>2, Parts
          <6>2. Dead(k)'
            BY <1>1, <1>2, <6>1, Shapes DEF Dead, Readable
          <6> QED
            BY <6>1, <6>2
        <5> QED
          BY <5>1, <5>2
      <4> QED
        BY <4>1, <4>3 DEF Agrees
    <3> QED
      BY <3>2, <3>3
  <2> QED
    BY <1>3, <2>1, <2>2, Parts, LatestStays
<1> QED
  BY <1>4, <1>5, <1>6, <1>8, <1>9, <1>11 DEF IInv, TypeOK

\* Unknown files are listed, told from the good ones, and removed.
LEMMA CleansKept ==
  ASSUME IInv, Cleans
  PROVE  IInv'
<1>0. /\ phase = "running"
      /\ UNCHANGED <<calls, scheduled, now, failed, failures, phase, spent, drafts, unseen, account>>
  BY DEF Cleans, ListFiles, AskGoodNames, RemoveFiles, managerVars
<1>1. \A n : Tracked(n)' <=> Tracked(n)
  BY <1>0 DEF Tracked
<1>2. AccountQuiet /\ SeenOK'
  BY <1>0, Parts DEF AccountQuiet, SeenOK
<1>3. ASSUME NEW S, "map" \notin S,
             files' = [n \in Names |-> IF n \in S THEN Nowhere ELSE files[n]],
             \A n \in S : ~Tracked(n),
             cleanup' \in [step : {"none", "list", "ask", "remove"}, names : SUBSET Names],
             CleanupOK'
      PROVE  IInv'
  <2>1. TypeMain'
    BY <1>0, <1>3, Parts DEF TypeMain
  <2>2. \A n \in S : ~Tracked(n)'
    BY <1>1, <1>3
  <2> QED
    BY <1>0, <1>2, <1>3, <2>1, <2>2, ClearedKept
<1>e. PICK none : none = {}
  OBVIOUS
<1>4. ASSUME files' = files
      PROVE  files' = [n \in Names |-> IF n \in none THEN Nowhere ELSE files[n]]
  BY <1>e, <1>4, Parts DEF TypeManager
<1>5. CASE ListFiles
  <2>1. /\ cleanup' = [step |-> "ask", names |-> { name \in Names : files[name] # Nowhere }]
        /\ files' = files
    BY <1>5 DEF ListFiles, managerVars
  <2>2. CleanupOK'
    <3>1. { name \in Names : files[name] # Nowhere } \subseteq {"map"} \cup spent.keys
      BY Parts, Shapes DEF KeysOK
    <3> QED
      BY <1>0, <2>1, <3>1 DEF CleanupOK
  <2> QED
    BY <1>3, <1>4, <1>e, <2>1, <2>2
<1>6. CASE AskGoodNames
  <2>1. /\ cleanup' = [step |-> "remove", names |-> cleanup.names \ GoodNames(account)]
        /\ files' = files
    BY <1>6 DEF AskGoodNames, managerVars
  <2>2. CleanupOK'
    <3>1. cleanup.names \ GoodNames(account) \subseteq {"map"} \cup spent.keys
      BY Parts DEF CleanupOK
    <3>2. \A n \in cleanup.names \ GoodNames(account) : ~Tracked(n)
      BY DEF GoodNames, Tracked
    <3> QED
      BY <1>0, <1>1, <2>1, <3>1, <3>2 DEF CleanupOK
  <2>3. cleanup' \in [step : {"none", "list", "ask", "remove"}, names : SUBSET Names]
    BY <2>1, Parts DEF TypeMain
  <2> QED
    BY <1>3, <1>4, <1>e, <2>1, <2>2, <2>3
<1>7. CASE RemoveFiles
  <2>1. /\ cleanup' = NoCleanup /\ cleanup.step = "remove"
        /\ files' = [n \in Names |-> IF n \in cleanup.names THEN Nowhere ELSE files[n]]
    BY <1>7 DEF RemoveFiles
  <2>2. PICK S : S = cleanup.names
    OBVIOUS
  <2>3. \A n \in S : ~Tracked(n)
    BY <2>1, <2>2, Parts DEF CleanupOK
  <2>4. "map" \notin S
    BY <2>3 DEF Tracked
  <2>5. CleanupOK'
    BY <2>1 DEF CleanupOK, NoCleanup
  <2>6. files' = [n \in Names |-> IF n \in S THEN Nowhere ELSE files[n]]
    BY <2>1, <2>2
  <2>7. cleanup' \in [step : {"none", "list", "ask", "remove"}, names : SUBSET Names]
    BY <2>1 DEF NoCleanup
  <2> QED
    BY <1>3, <2>3, <2>4, <2>5, <2>6, <2>7
<1> QED
  BY <1>5, <1>6, <1>7 DEF Cleans

\* The account without the key of a chat.
LEMMA Forgotten ==
  ASSUME IInv, NEW p \in Peers,
         \/ account' = WriteMapDelayed([account EXCEPT !.map[p] = NoKey, !.notRead = @ \ {p}])
         \/ account' \in CursorsCleared([account EXCEPT !.map[p] = NoKey, !.notRead = @ \ {p}])
  PROVE  /\ account' \in [ map : Maps, notRead : SUBSET Peers, changed : BOOLEAN,
                           timer : BOOLEAN, posted : BOOLEAN ]
         /\ account'.map[p] = NoKey
         /\ \A q \in Peers \ {p} : /\ account'.map[q] = account.map[q]
                                   /\ q \in account'.notRead <=> q \in account.notRead
         /\ account.changed => account'.changed
<1>1. account \in [ map : Maps, notRead : SUBSET Peers, changed : BOOLEAN,
                    timer : BOOLEAN, posted : BOOLEAN ]
  BY Parts DEF TypeMain
<1> DEFINE a == [account EXCEPT !.map[p] = NoKey, !.notRead = @ \ {p}]
<1>2. /\ a \in [ map : Maps, notRead : SUBSET Peers, changed : BOOLEAN,
                 timer : BOOLEAN, posted : BOOLEAN ]
      /\ a.map = [account.map EXCEPT ![p] = NoKey]
      /\ a.notRead = account.notRead \ {p} /\ a.changed = account.changed
  <2>1. [account.map EXCEPT ![p] = NoKey] \in Maps
    BY Parts DEF Maps
  <2> QED
    BY <1>1, <2>1
<1>3. a.map[p] = NoKey /\ \A q \in Peers \ {p} : a.map[q] = account.map[q]
  BY <1>2, Parts DEF Maps
<1> HIDE DEF a
<1>4. account' = a \/ account' = [a EXCEPT !.changed = TRUE, !.timer = TRUE]
  BY DEF a, CursorsCleared, WriteMapDelayed
<1>5. /\ account' \in [ map : Maps, notRead : SUBSET Peers, changed : BOOLEAN,
                        timer : BOOLEAN, posted : BOOLEAN ]
      /\ account'.map = a.map /\ account'.notRead = a.notRead
      /\ a.changed => account'.changed
  BY <1>2, <1>4
<1> QED
  BY <1>2, <1>3, <1>5

\* What the account knows is not among what is to be removed.
LEMMA CleanupStays ==
  ASSUME IInv, UNCHANGED <<cleanup, spent>>,
         \A n \in Names : Tracked(n)' => Tracked(n)
  PROVE  CleanupOK'
<1>1. CleanupOK /\ spent.keys \subseteq Keys
  BY Parts DEF TypeMain
<1> QED
  BY <1>1, Shapes DEF CleanupOK

\* The file of a key is cleared.
LEMMA ClearedKey ==
  ASSUME IInv, NEW k \in Keys, NEW S, S = {k}
  PROVE  ClearKey(files, k) = [n \in Names |-> IF n \in S THEN Nowhere ELSE files[n]]
<1>1. files \in [Names -> [s : Contained, simple : Contained]]
  BY Parts DEF TypeManager
<1>2. DOMAIN files = Names /\ files = [n \in Names |-> files[n]]
  BY <1>1
<1> QED
  BY <1>2 DEF ClearKey

\* A draft is cleared, and its file with it.
LEMMA ClearDraftKept ==
  ASSUME IInv, NEW p \in Peers, ClearDraft(p)
  PROVE  IInv'
<1>1. /\ phase = "running" /\ p \notin unseen /\ drafts[p] # 0
      /\ drafts' = [drafts EXCEPT ![p] = 0]
      /\ UNCHANGED <<calls, scheduled, now, failed, failures, unseen, phase, cleanup, spent>>
  BY DEF ClearDraft
<1>2. account.map[p] # NoKey
  BY <1>1, Parts DEF SeenOK
<1>3. PICK k \in Keys : k = account.map[p]
  BY <1>2, Parts
<1>4. /\ files' = ClearKey(files, k)
      /\ account' = WriteMapDelayed([account EXCEPT !.map[p] = NoKey, !.notRead = @ \ {p}])
  BY <1>2, <1>3 DEF ClearDraft
<1>5. /\ account' \in [ map : Maps, notRead : SUBSET Peers, changed : BOOLEAN,
                        timer : BOOLEAN, posted : BOOLEAN ]
      /\ account'.map[p] = NoKey
      /\ \A q \in Peers \ {p} : /\ account'.map[q] = account.map[q]
                                /\ q \in account'.notRead <=> q \in account.notRead
      /\ account.changed => account'.changed
  BY <1>4, Forgotten
<1>6. account'.changed
  <2>1. PICK a : a = [account EXCEPT !.map[p] = NoKey, !.notRead = @ \ {p}]
    OBVIOUS
  <2>2. a \in [ map : Maps, notRead : SUBSET Peers, changed : BOOLEAN,
                timer : BOOLEAN, posted : BOOLEAN ]
    <3>1. [account.map EXCEPT ![p] = NoKey] \in Maps
      BY Parts DEF Maps
    <3> QED
      BY <2>1, <3>1, Parts DEF TypeMain
  <2> QED
    BY <1>4, <2>1, <2>2 DEF WriteMapDelayed
<1>7. PICK S : S = {k}
  OBVIOUS
<1>8. files' = [n \in Names |-> IF n \in S THEN Nowhere ELSE files[n]] /\ "map" \notin S
  <2>1. "map" \notin S
    BY <1>7, Shapes
  <2> QED
    BY <1>4, <1>7, <2>1, ClearedKey
<1>9. \A n \in Names : Tracked(n)' => Tracked(n)
  BY <1>5, NameFacts DEF Tracked
<1>10. \A n \in S : ~Tracked(n)'
  BY <1>3, <1>5, <1>7, Parts, Shapes DEF Tracked
<1>11. drafts' \in [Peers -> Texts] /\ drafts'[p] = 0 /\ \A q \in Peers \ {p} : drafts'[q] = drafts[q]
  BY <1>1, Parts, Shapes DEF TypeMain
<1>12. TypeMain'
  BY <1>1, <1>5, <1>11, Parts DEF TypeMain
<1>13. CleanupOK'
  BY <1>1, <1>9, CleanupStays
<1>14. SeenOK'
  BY <1>1, <1>5, <1>11, Parts DEF SeenOK
<1>15. AccountQuiet
  BY <1>1, <1>5, <1>11 DEF AccountQuiet
<1>16. \A q \in Peers \ unseen' : account'.map[q] # NoKey => q \notin unseen /\ drafts'[q] = drafts[q]
  BY <1>1, <1>5, <1>11
<1>17. \A q \in unseen' : /\ account'.map[q] = account.map[q]
                          /\ q \in account'.notRead <=> q \in account.notRead
  BY <1>1, <1>5, Parts DEF TypeMain
<1> QED
  BY <1>1, <1>6, <1>8, <1>10, <1>12, <1>13, <1>14, <1>15, <1>16, <1>17, ClearedKept

\* A chat is opened: the file of its draft, if there is one, is cleared.
LEMMA OpenChatKept ==
  ASSUME IInv, NEW p \in Peers, OpenChat(p)
  PROVE  IInv'
<1>1. /\ phase = "running" /\ p \in unseen /\ unseen' = unseen \ {p}
      /\ UNCHANGED <<calls, scheduled, now, failed, failures, phase, cleanup, spent>>
  BY DEF OpenChat
<1>2. p \in account.notRead <=> account.map[p] # NoKey
  BY <1>1, Parts DEF UnseenOK
<1>a. account \in [ map : Maps, notRead : SUBSET Peers, changed : BOOLEAN,
                    timer : BOOLEAN, posted : BOOLEAN ]
      /\ unseen \subseteq Peers
  BY Parts DEF TypeMain
<1>3. ASSUME NEW t \in Texts, drafts' = [drafts EXCEPT ![p] = t]
      PROVE  /\ drafts' \in [Peers -> Texts] /\ drafts'[p] = t
             /\ \A q \in Peers \ {p} : drafts'[q] = drafts[q]
  BY <1>3, Parts DEF TypeMain
\* What is left to show of each outcome.
<1>4. ASSUME NEW t \in Texts, t = 0, drafts' = [drafts EXCEPT ![p] = t], NEW S, "map" \notin S,
             files' = [n \in Names |-> IF n \in S THEN Nowhere ELSE files[n]],
             \A n \in S : ~Tracked(n)',
             account' \in [ map : Maps, notRead : SUBSET Peers, changed : BOOLEAN,
                            timer : BOOLEAN, posted : BOOLEAN ],
             account'.map[p] = NoKey,
             \A q \in Peers \ {p} : /\ account'.map[q] = account.map[q]
                                    /\ q \in account'.notRead <=> q \in account.notRead,
             account.changed => account'.changed,
             account'.map[p] # account.map[p] => account.map[p] \in S /\ ~Pending(account.map[p])
      PROVE  IInv'
  <2>1. /\ drafts' \in [Peers -> Texts] /\ drafts'[p] = t
        /\ \A q \in Peers \ {p} : drafts'[q] = drafts[q]
    BY <1>3, <1>4
  <2>2. TypeMain'
    BY <1>1, <1>4, <2>1, Parts DEF TypeMain
  <2>3. \A n \in Names : Tracked(n)' => Tracked(n)
    BY <1>4, NameFacts DEF Tracked
  <2>4. CleanupOK'
    BY <1>1, <2>3, CleanupStays
  <2>5. SeenOK'
    BY <1>1, <1>4, <2>1, Parts DEF SeenOK
  <2>6. AccountQuiet
    <3>1. \A q \in Peers : account'.map[q] \in {account.map[q], NoKey}
      BY <1>4
    <3>2. ASSUME NEW q \in Peers \ unseen', account'.map[q] # NoKey
          PROVE  q \notin unseen /\ drafts'[q] = drafts[q]
      BY <1>1, <1>4, <2>1, <3>2
    <3> QED
      BY <3>1, <3>2 DEF AccountQuiet
  <2>7. ASSUME NEW q \in Peers \ unseen', account'.map[q] # NoKey
        PROVE  q \notin unseen /\ drafts'[q] = drafts[q]
    BY <1>1, <1>4, <2>1, <2>7
  <2>8. \A q \in unseen' : /\ account'.map[q] = account.map[q]
                           /\ q \in account'.notRead <=> q \in account.notRead
    BY <1>1, <1>4, <1>a
  <2>9. \A q \in Peers : account'.map[q] # account.map[q] =>
          account.map[q] \in S /\ ~Pending(account.map[q])
    BY <1>4
  <2>10. unseen' \subseteq unseen
    BY <1>1
  <2> QED
    BY <1>1, <1>4, <2>2, <2>4, <2>5, <2>6, <2>7, <2>8, <2>9, <2>10, ClearedKept
<1>e. PICK none : none = {}
  OBVIOUS
<1>5. files' = files => files' = [n \in Names |-> IF n \in none THEN Nowhere ELSE files[n]]
  BY <1>e, Parts DEF TypeManager
<1>6. CASE /\ p \notin account.notRead
           /\ drafts' = [drafts EXCEPT ![p] = 0]
           /\ account' \in CursorsCleared(account)
           /\ files' = files
  <2>1. /\ account' \in [ map : Maps, notRead : SUBSET Peers, changed : BOOLEAN,
                          timer : BOOLEAN, posted : BOOLEAN ]
        /\ account'.map = account.map /\ account'.notRead = account.notRead
        /\ account.changed => account'.changed
    BY <1>a, <1>6 DEF CursorsCleared, WriteMapDelayed
  <2>2. account.map[p] = NoKey
    BY <1>2, <1>6
  <2>3. PICK t \in Texts : t = 0
    BY Shapes
  <2>4. /\ drafts' = [drafts EXCEPT ![p] = t]
        /\ t = 0 /\ account'.map[p] = account.map[p] /\ account'.map[p] = NoKey
        /\ \A q \in Peers \ {p} : /\ account'.map[q] = account.map[q]
                                  /\ q \in account'.notRead <=> q \in account.notRead
    BY <1>6, <2>1, <2>2, <2>3
  <2>5. files' = [n \in Names |-> IF n \in none THEN Nowhere ELSE files[n]]
        /\ "map" \notin none /\ \A n \in none : ~Tracked(n)'
    BY <1>5, <1>6, <1>e
  <2> QED
    BY <1>4, <2>1, <2>2, <2>4, <2>5
<1>7. CASE /\ p \in account.notRead
           /\ drafts' = [drafts EXCEPT ![p] = 0]
           /\ account' \in CursorsCleared([account EXCEPT !.map[p] = NoKey, !.notRead = @ \ {p}])
           /\ files' = ClearKey(files, account.map[p])
  <2>1. PICK k \in Keys : k = account.map[p] /\ k # NoKey
    BY <1>2, <1>7, Parts
  <2>2. ~Pending(k)
    BY <1>1, <2>1, Parts DEF UnseenOK
  <2>3. PICK S : S = {k}
    OBVIOUS
  <2>a. files' = ClearKey(files, k) /\ "map" \notin S
    BY <1>7, <2>1, <2>3, Shapes
  <2>4. files' = [n \in Names |-> IF n \in S THEN Nowhere ELSE files[n]] /\ "map" \notin S
    BY <2>3, <2>a, ClearedKey
  <2>5. /\ account' \in [ map : Maps, notRead : SUBSET Peers, changed : BOOLEAN,
                          timer : BOOLEAN, posted : BOOLEAN ]
        /\ account'.map[p] = NoKey
        /\ \A q \in Peers \ {p} : /\ account'.map[q] = account.map[q]
                                  /\ q \in account'.notRead <=> q \in account.notRead
        /\ account.changed => account'.changed
    BY <1>7, Forgotten
  <2>6. \A n \in S : ~Tracked(n)'
    BY <2>1, <2>3, <2>5, Parts, Shapes DEF Tracked
  <2>7. PICK t \in Texts : t = 0
    BY Shapes
  <2>8. /\ drafts' = [drafts EXCEPT ![p] = t]
        /\ t = 0 /\ account'.map[p] = NoKey
        /\ account.map[p] \in S /\ ~Pending(account.map[p])
    BY <1>7, <2>1, <2>2, <2>3, <2>5, <2>7
  <2> QED
    BY <1>4, <2>4, <2>5, <2>6, <2>8
<1> QED
  BY <1>6, <1>7 DEF OpenChat

\* A draft is written, under its key or under a new one.
LEMMA WriteDraftKept ==
  ASSUME IInv, NEW p \in Peers, WriteDraft(p)
  PROVE  IInv'
<1>1. PICK text : text = spent.texts + 1
  OBVIOUS
<1>2. /\ phase = "running" /\ p \notin unseen /\ text \in Texts /\ text \in Texts \ {0}
      /\ spent.texts \in Nat /\ text > spent.texts /\ text \in Nat
      /\ drafts' = [drafts EXCEPT ![p] = text]
      /\ UNCHANGED <<scheduled, now, files, failed, failures, unseen, phase, cleanup>>
  <2>1. spent.texts \in Nat
    BY Parts, Shapes DEF TypeMain
  <2>2. text \in Texts
    BY <1>1 DEF WriteDraft
  <2>3. text > spent.texts /\ text \in Nat /\ text # 0
    BY <1>1, <2>1
  <2> QED
    BY <1>1, <2>1, <2>2, <2>3 DEF WriteDraft
<1>a. account \in [ map : Maps, notRead : SUBSET Peers, changed : BOOLEAN,
                    timer : BOOLEAN, posted : BOOLEAN ]
      /\ unseen \subseteq Peers
      /\ spent \in [texts : Texts, starts : Nat, keys : SUBSET Keys]
      /\ drafts \in [Peers -> Texts]
  BY Parts DEF TypeMain
<1>3. PICK key \in Keys :
        /\ calls' = Write(calls, DraftEntry(key, text))
        /\ account' \in [ map : Maps, notRead : SUBSET Peers, changed : BOOLEAN,
                          timer : BOOLEAN, posted : BOOLEAN ]
        /\ account'.map[p] = key
        /\ \A q \in Peers \ {p} : /\ account'.map[q] = account.map[q]
                                  /\ q \in account'.notRead <=> q \in account.notRead
        /\ spent' \in [texts : Texts, starts : Nat, keys : SUBSET Keys]
        /\ spent'.texts = text /\ spent'.keys = spent.keys \cup {key}
        /\ \/ account.map[p] = key /\ key \in spent.keys /\ account'.changed = account.changed
           \/ account.map[p] = NoKey /\ key \notin spent.keys /\ account'.changed
  <2>1. CASE /\ account.map[p] # NoKey
             /\ account' = [account EXCEPT !.notRead = @ \ {p}]
             /\ calls' = Write(calls, DraftEntry(account.map[p], text))
             /\ spent' = [spent EXCEPT !.texts = text]
    <3>1. PICK key \in Keys : account.map[p] = key /\ key \in spent.keys
      BY <2>1, Parts
    <3>2. /\ account' \in [ map : Maps, notRead : SUBSET Peers, changed : BOOLEAN,
                            timer : BOOLEAN, posted : BOOLEAN ]
          /\ account'.map = account.map /\ account'.notRead = account.notRead \ {p}
          /\ account'.changed = account.changed
      BY <1>a, <2>1
    <3>3. /\ spent' \in [texts : Texts, starts : Nat, keys : SUBSET Keys]
          /\ spent'.texts = text /\ spent'.keys = spent.keys
      BY <1>2, <1>a, <2>1
    <3> QED
      BY <2>1, <3>1, <3>2, <3>3
  <2>2. ASSUME NEW key \in Keys \ spent.keys,
               account.map[p] = NoKey,
               account' = WriteMapQueued([account EXCEPT !.map[p] = key, !.notRead = @ \ {p}]),
               calls' = Write(calls, DraftEntry(key, text)),
               spent' = [spent EXCEPT !.texts = text, !.keys = @ \cup {key}]
        PROVE  /\ account' \in [ map : Maps, notRead : SUBSET Peers, changed : BOOLEAN,
                                 timer : BOOLEAN, posted : BOOLEAN ]
               /\ account'.map[p] = key
               /\ \A q \in Peers \ {p} : /\ account'.map[q] = account.map[q]
                                         /\ q \in account'.notRead <=> q \in account.notRead
               /\ spent' \in [texts : Texts, starts : Nat, keys : SUBSET Keys]
               /\ spent'.texts = text /\ spent'.keys = spent.keys \cup {key}
               /\ account'.changed
    <3>1. [account.map EXCEPT ![p] = key] \in Maps
      BY Parts DEF Maps
    <3>2. /\ account' \in [ map : Maps, notRead : SUBSET Peers, changed : BOOLEAN,
                            timer : BOOLEAN, posted : BOOLEAN ]
          /\ account'.map = [account.map EXCEPT ![p] = key]
          /\ account'.notRead = account.notRead \ {p} /\ account'.changed
      BY <1>a, <2>2, <3>1 DEF WriteMapQueued
    <3>3. /\ spent' \in [texts : Texts, starts : Nat, keys : SUBSET Keys]
          /\ spent'.texts = text /\ spent'.keys = spent.keys \cup {key}
      BY <1>2, <1>a, <2>2
    <3>4. account'.map[p] = key /\ \A q \in Peers \ {p} : account'.map[q] = account.map[q]
      BY <3>2, Parts DEF Maps
    <3> QED
      BY <3>2, <3>3, <3>4
  <2>3. \/ /\ account.map[p] # NoKey
           /\ account' = [account EXCEPT !.notRead = @ \ {p}]
           /\ calls' = Write(calls, DraftEntry(account.map[p], text))
           /\ spent' = [spent EXCEPT !.texts = text]
        \/ \E key \in Keys \ spent.keys :
             /\ account.map[p] = NoKey
             /\ account' = WriteMapQueued([account EXCEPT !.map[p] = key, !.notRead = @ \ {p}])
             /\ calls' = Write(calls, DraftEntry(key, text))
             /\ spent' = [spent EXCEPT !.texts = text, !.keys = @ \cup {key}]
    BY <1>1 DEF WriteDraft
  <2> QED
    BY <2>1, <2>2, <2>3
<1>4. PICK d : d = DraftOf(text)
  OBVIOUS
<1>5. d \in DraftData /\ DraftEntry(key, text) = Entry(key, d) /\ Entry(key, d) \in Entries
      /\ key \in Names /\ key # "map" /\ key # NoKey /\ d \in DataOf(key)
      /\ \A t \in Texts \ {0} : DraftOf(t) = d <=> t = text
  <2>0. \A t \in Texts \ {0} : DraftOf(t) = d <=> t = text
    <3>1. \A t \in Texts \ {0} : DraftOf(t).text = t
      BY Shapes
    <3> QED
      BY <1>2, <1>4, <3>1
  <2>1. d \in DraftData /\ key \in Names /\ key # "map" /\ key # NoKey /\ d \in DataOf(key)
        /\ \A t \in Texts \ {0} : DraftOf(t) = d <=> t = text
    BY <1>2, <1>4, <2>0, Shapes
  <2>2. DraftEntry(key, text) = Entry(key, d)
    BY <1>4 DEF DraftEntry, DraftOf
  <2> QED
    BY <2>1, <2>2, EntryFacts
<1>6. CalledWith(key, d) /\ calls' \in Seq(Calls)
  BY <1>2, <1>3, <1>5, Parts, WrittenCalled
<1>7. /\ \A n \in Names : /\ Pending(n)' <=> Pending(n) \/ n = key
                          /\ files'[n] = files[n] /\ ReadFile(n)' = ReadFile(n)
                          /\ \A x \in DataOf(n) : Copy(n, x)' => Copy(n, x) \/ (n = key /\ x = d)
                          /\ \A x, y \in DataOf(n) :
                               Follows(n, x, y)' => \/ Follows(n, x, y)
                                                    \/ n = key /\ y = d /\ (x = d \/ Copy(n, x))
      /\ \A n \in Names \ {key} : \A x \in Contents(n) : Latest(n, x) => Latest(n, x)'
      /\ Latest(key, d)' /\ failed' = failed
  BY <1>6 DEF CalledWith
<1>8. \A q \in Peers \ {p} : account.map[q] # key
  BY <1>3, <1>5, Parts
<1>9. \A m \in Maps : IsMap(m)' => m = account'.map \/ IsMap(m)
  BY <1>5, <1>7, Shapes DEF IsMap
<1>10. ASSUME NEW m \in Maps, NEW q \in Peers, IsMap(m)', m[q] # NoKey
       PROVE  (\E l \in Maps : IsMap(l) /\ l[q] = m[q]) \/ (q = p /\ m[q] = key)
  BY <1>3, <1>9, <1>10, Parts
<1>11. KeysOK'
  <2>1. \A k \in Keys : files'[k] # Nowhere \/ Pending(k)' => k \in spent'.keys
    BY <1>3, <1>7, Parts, Shapes DEF KeysOK
  <2>2. \A m \in Maps, q \in Peers : IsMap(m)' /\ m[q] # NoKey => m[q] \in spent'.keys
    BY <1>3, <1>10, Parts DEF KeysOK
  <2>3. ASSUME NEW l \in Maps, NEW q \in Peers, IsMap(l), l[q] = key
        PROVE  q = p
    BY <1>3, <1>5, <2>3, Parts DEF KeysOK
  <2>4. ASSUME NEW l \in Maps, NEW m \in Maps, NEW q \in Peers, NEW r \in Peers,
               IsMap(l)', IsMap(m)', l[q] = m[r], l[q] # NoKey
        PROVE  q = r
    <3>1. (\E h \in Maps : IsMap(h) /\ h[q] = l[q]) \/ (q = p /\ l[q] = key)
      BY <1>10, <2>4
    <3>2. (\E h \in Maps : IsMap(h) /\ h[r] = m[r]) \/ (r = p /\ m[r] = key)
      BY <1>10, <2>4
    <3> QED
      BY <2>3, <2>4, <3>1, <3>2, Parts DEF KeysOK
  <2> QED
    BY <2>1, <2>2, <2>4 DEF KeysOK
<1>12. drafts' \in [Peers -> Texts] /\ drafts'[p] = text /\ \A q \in Peers \ {p} : drafts'[q] = drafts[q]
  BY <1>2, <1>a
<1>13. ASSUME NEW k \in Keys, NEW t \in Texts \ {0}, IsText(k, t)'
       PROVE  IsText(k, t) \/ (k = key /\ t = text)
  <2>1. CASE Copy(k, DraftOf(t))'
    BY <1>5, <1>7, <2>1, Shapes DEF IsText
  <2>2. CASE \E q \in Peers \ unseen' : account'.map[q] = k /\ drafts'[q] = t
    BY <1>2, <1>3, <1>12, <2>2 DEF IsText
  <2> QED
    BY <1>13, <2>1, <2>2 DEF IsText
<1>14. \A k \in Keys, t \in Texts \ {0} : IsText(k, t) => t <= spent.texts /\ t # text
  BY <1>2, Parts, Shapes DEF TextsOK
<1>15. TextsOK'
  <2>1. \A k \in Keys, t \in Texts \ {0} : IsText(k, t)' => t <= spent'.texts
    BY <1>2, <1>3, <1>13, <1>14, Shapes
  <2>2. \A k, j \in Keys, t \in Texts \ {0} : IsText(k, t)' /\ IsText(j, t)' => k = j
    BY <1>13, <1>14, Parts DEF TextsOK
  <2>3. ASSUME NEW k \in Keys, NEW t \in Texts \ {0}, NEW u \in Texts \ {0},
               Follows(k, DraftOf(t), DraftOf(u))'
        PROVE  t <= u
    <3>1. DraftOf(t) \in DataOf(k) /\ DraftOf(u) \in DataOf(k) /\ k \in Names
      BY Shapes
    <3>2. \/ Follows(k, DraftOf(t), DraftOf(u))
          \/ k = key /\ DraftOf(u) = d /\ (DraftOf(t) = d \/ Copy(k, DraftOf(t)))
      BY <1>7, <2>3, <3>1
    <3>3. CASE Follows(k, DraftOf(t), DraftOf(u))
      BY <3>3, Parts DEF TextsOK
    <3>4. CASE u = text /\ (t = text \/ Copy(k, DraftOf(t)))
      <4>1. Copy(k, DraftOf(t)) => t <= spent.texts
        BY <1>14 DEF IsText
      <4> QED
        BY <1>2, <3>4, <4>1, Shapes
    <3> QED
      BY <1>5, <3>2, <3>3, <3>4
  <2>4. ASSUME NEW q \in Peers \ unseen', NEW t \in Texts \ {0}, NEW k \in Keys,
               account'.map[q] = k, Copy(k, DraftOf(t))'
        PROVE  t <= drafts'[q]
    <3>1. Copy(k, DraftOf(t)) \/ (k = key /\ t = text)
      BY <1>5, <1>7, <2>4, Shapes
    <3>2. CASE q = p
      <4>1. Copy(k, DraftOf(t)) => t <= spent.texts
        BY <1>14 DEF IsText
      <4> QED
        BY <1>2, <1>12, <3>1, <3>2, <4>1, Shapes
    <3>3. CASE q # p
      <4>1. account.map[q] = k /\ k # key /\ k # NoKey /\ q \in Peers \ unseen
        BY <1>2, <1>3, <1>8, <2>4, <3>3, Shapes
      <4> QED
        BY <1>12, <3>1, <3>3, <4>1, Parts DEF TextsOK
    <3> QED
      BY <3>2, <3>3
  <2>5. \A q \in Peers \ unseen', t \in Texts \ {0} :
          account'.map[q] # NoKey /\ Copy(account.map[q], DraftOf(t))' => t <= drafts'[q]
    <3>1. \A q \in Peers : account'.map[q] \in Keys \cup {NoKey}
      BY <1>3 DEF Maps
    <3> QED
      BY <2>4, <3>1
  <2> QED
    BY <2>1, <2>2, <2>3, <2>5 DEF TextsOK
<1>16. MapsOK'
  <2> SUFFICES ASSUME NEW x \in MapData, NEW y \in MapData, NEW q \in Peers,
                      Follows("map", x, y)', x.keys[q] = account'.map[q],
                      account'.map[q] # NoKey
               PROVE  y.keys[q] = account'.map[q]
    BY DEF MapsOK
  <2>1. Follows("map", x, y)
    BY <1>5, <1>7, Shapes
  <2>2. CASE account'.map[q] = account.map[q]
    BY <2>1, <2>2, Parts DEF MapsOK
  <2>3. CASE account'.map[q] # account.map[q]
    <3>1. q = p /\ key \notin spent.keys /\ x.keys[q] = key
      BY <1>3, <2>3
    <3>2. x.keys \in Maps /\ IsMap(x.keys)
      <4>1. Copy("map", x) /\ x = [kind |-> "map", keys |-> x.keys] /\ x.keys \in Maps
        BY <2>1, Parts, PendingNames, Shapes, DataFacts
      <4> QED
        BY <4>1 DEF IsMap
    <3> QED
      BY <1>5, <3>1, <3>2, Parts DEF KeysOK
  <2> QED
    BY <2>2, <2>3
<1>17. TypeManager' /\ TypeMain'
  <2>1. TypeManager'
    BY <1>2, <1>6, Parts, ManagerStays
  <2>2. TypeMain'
    BY <1>2, <1>3, <1>12, Parts DEF TypeMain
  <2> QED
    BY <2>1, <2>2
<1>18. SeenOK'
  BY <1>2, <1>3, <1>5, <1>12, Parts DEF SeenOK
<1>19. UnseenOK'
  <2> SUFFICES ASSUME NEW q \in unseen
               PROVE  /\ q \in account'.notRead <=> account'.map[q] # NoKey
                      /\ ~Pending(account.map[q])'
                      /\ \A m \in Maps : IsMap(m)' => m[q] = account'.map[q]
    BY <1>2 DEF UnseenOK
  <2>1. q \in Peers \ {p} /\ account'.map[q] = account.map[q] /\ account.map[q] # key
        /\ (q \in account'.notRead <=> q \in account.notRead)
    BY <1>2, <1>3, <1>8, <1>a
  <2>2. ~Pending(account.map[q])'
    <3>1. CASE account.map[q] \in Keys
      BY <1>7, <2>1, <3>1, Parts, Shapes DEF UnseenOK
    <3>2. CASE account.map[q] = NoKey
      BY <1>17, <2>1, <3>2, PendingNamesNext, NameFacts
    <3> QED
      BY <2>1, <3>1, <3>2, Parts
  <2> QED
    BY <1>9, <2>1, <2>2, Parts DEF UnseenOK
<1>20. \A n \in Names : Tracked(n)' => Tracked(n) \/ (n = key /\ key \notin spent.keys)
  BY <1>3, <1>5, NameFacts DEF Tracked
<1>21. CleanupOK'
  <2>1. cleanup.names \subseteq {"map"} \cup spent.keys /\ spent.keys \subseteq Keys
        /\ (cleanup.step = "remove" => \A n \in cleanup.names : ~Tracked(n))
    BY <1>a, Parts DEF CleanupOK
  <2>2. cleanup'.names \subseteq {"map"} \cup spent'.keys
    BY <1>2, <1>3, <2>1
  <2>3. cleanup'.step = "remove" => \A n \in cleanup'.names : ~Tracked(n)'
    BY <1>2, <1>5, <1>20, <2>1, Shapes
  <2> QED
    BY <2>2, <2>3 DEF CleanupOK
<1>22. StoppedOK' /\ QueueOK'
  BY <1>2, Parts DEF StoppedOK, QueueOK
<1>23. NowOK'
  <2>1. Writing(key) => key \in spent.keys
    BY Parts DEF KeysOK, Pending
  <2> QED
    BY <1>2, <1>7, <1>20, <2>1, Parts, NowStays
<1>24. QuitOK'
  BY <1>2, <1>3, <1>5, Parts, QuitStays
<1>25. ASSUME NEW k, Dead(k), key \in spent.keys
       PROVE  Dead(k)'
  <2>1. k \in Names /\ k # key
    BY <1>3, <1>5, <1>25, Parts, Shapes DEF Dead
  <2> QED
    BY <1>7, <1>20, <1>25, <2>1 DEF Dead, Readable
<1>26. LatestOK'
  <2>1. \/ account'.changed
        \/ Lost("map") /\ (Pending("map")' <=> Pending("map"))
        \/ \E x \in Contents("map") : Latest("map", x)' /\ \A q \in Peers : Agrees(x, q)'
    <3> SUFFICES ASSUME ~account'.changed, ~Lost("map")
                 PROVE  \E x \in Contents("map") : Latest("map", x)' /\ \A q \in Peers : Agrees(x, q)'
      BY <1>5, <1>7, Shapes
    <3>1. PICK x \in Contents("map") : Latest("map", x) /\ \A q \in Peers : Agrees(x, q)
      BY <1>2, <1>3, Parts DEF LatestOK
    <3>2. Latest("map", x)'
      BY <1>5, <1>7, <3>1, Shapes
    <3>3. key \in spent.keys /\ \A q \in Peers : account'.map[q] = account.map[q]
      BY <1>3
    <3>4. \A q \in Peers : Agrees(x, q)'
      BY <1>25, <3>1, <3>3 DEF Agrees
    <3> QED
      BY <3>2, <3>4
  <2>2. ASSUME NEW q \in Peers \ unseen', NEW k \in Keys, account'.map[q] = k
        PROVE  Lost(k)' \/ Latest(k, DraftOf(drafts[q]))'
    <3>1. CASE q = p
      BY <1>3, <1>4, <1>7, <1>12, <2>2, <3>1
    <3>2. CASE q # p
      <4>1. account.map[q] = k /\ k # key /\ k # NoKey /\ q \in Peers \ unseen /\ drafts'[q] = drafts[q]
        BY <1>2, <1>3, <1>8, <1>12, <2>2, <3>2, Shapes
      <4>2. Lost(k) \/ Latest(k, DraftOf(drafts[q]))
        BY <1>2, <4>1, Parts DEF LatestOK
      <4>3. drafts[q] \in Texts \ {0}
        BY <1>a, <4>1, Parts DEF SeenOK
      <4>4. Lost(k) => Lost(k)'
        BY <1>7, <4>1, Shapes DEF Lost
      <4>5. DraftOf(drafts[q]) \in Contents(k) /\ k \in Names \ {key}
        <5>1. k \in Names /\ Contents(k) = DraftData \cup {Nothing, Cut}
          BY Shapes
        <5>2. DraftOf(drafts[q]) \in DraftData
          BY <4>3, Shapes
        <5> QED
          BY <4>1, <5>1, <5>2
      <4>6. Latest(k, DraftOf(drafts[q])) => Latest(k, DraftOf(drafts[q]))'
        BY <1>7, <4>1, <4>5
      <4> QED
        BY <4>2, <4>4, <4>6
    <3> QED
      BY <3>1, <3>2
  <2>3. \A q \in Peers \ unseen' : account'.map[q] # NoKey =>
          Lost(account.map[q])' \/ Latest(account.map[q], DraftOf(drafts[q]))'
    <3>1. \A q \in Peers : account'.map[q] \in Keys \cup {NoKey}
      BY <1>3 DEF Maps
    <3> QED
      BY <2>2, <3>1
  <2>4. account'.changed \/ Lost("map")'
        \/ \E x \in Contents("map") : Latest("map", x)' /\ \A q \in Peers : Agrees(x, q)'
    BY <1>7, <2>1 DEF Lost
  <2> QED
    BY <2>3, <2>4 DEF LatestOK
<1> QED
  BY <1>11, <1>15, <1>16, <1>17, <1>18, <1>19, <1>21, <1>22, <1>23, <1>24, <1>26 DEF IInv, TypeOK

-----------------------------------------------------------------------------
(***************************************************************************)
(* The theorems.                                                           *)
(***************************************************************************)

\* The invariant holds at the start.
LEMMA FirstState ==
  ASSUME Init
  PROVE  IInv
<1>0. /\ calls = <<>> /\ scheduled = <<>> /\ now = Idle
      /\ files = [name \in Names |-> Nowhere] /\ failed = {} /\ failures = 0
      /\ drafts = [p \in Peers |-> 0] /\ unseen = {}
      /\ account = Empty /\ phase = "running" /\ cleanup = NoCleanup
      /\ spent = [texts |-> 0, starts |-> 0, keys |-> {}]
  BY DEF Init, ManagerInit
<1>1. /\ \A n, x : ~Pending(n) /\ (Copy(n, x) <=> x = ReadFile(n))
                   /\ (Latest(n, x) <=> x = ReadFile(n))
      /\ \A n, x, y : Follows(n, x, y) <=> x = ReadFile(n) /\ y = ReadFile(n)
  <2>1. \A n, x : /\ ~IsCalled(calls, n) /\ ~InCalls(calls, n, x)
                  /\ ~Queued(scheduled, n) /\ ~InQueue(scheduled, n, x)
                  /\ ~Writing(n) /\ ~InNow(n, x)
                  /\ \A y : ~Before(calls, n, x, y)
    BY <1>0 DEF IsCalled, InCalls, Queued, InQueue, Writing, InNow, Before
  <2> QED
    BY <2>1 DEF Pending, Copy, Latest, Follows
<1>2. \A n \in Names : files[n] = Nowhere /\ ReadFile(n) = Nothing
  BY <1>0 DEF ReadFile, Nowhere
<1>3. /\ account.map \in Maps /\ \A p \in Peers : account.map[p] = NoKey
      /\ account \in [ map : Maps, notRead : SUBSET Peers, changed : BOOLEAN,
                       timer : BOOLEAN, posted : BOOLEAN ]
  <2>1. Empty.map \in Maps
    BY DEF Empty, Maps
  <2> QED
    BY <1>0, <2>1 DEF Empty
<1>4. TypeManager
  <2>1. Nowhere \in [s : Contained, simple : Contained]
        /\ \A n : Nowhere.s \in Contents(n) /\ Nowhere.simple \in Contents(n)
    BY DEF Nowhere, Contained, Contents
  <2>2. files \in [Names -> [s : Contained, simple : Contained]]
    BY <1>0, <2>1
  <2> QED
    BY <1>0, <1>2, <2>1, <2>2 DEF TypeManager
<1>5. TypeMain
  BY <1>0, <1>3, Shapes DEF TypeMain, NoCleanup
<1>6. \A m \in Maps : IsMap(m) => \A p \in Peers : m[p] = NoKey
  BY <1>1, <1>2, <1>3, Shapes, DataFacts DEF IsMap
<1>7. KeysOK
  <2>1. \A k \in Keys : files[k] = Nowhere /\ ~Pending(k)
    BY <1>1, <1>2, Shapes
  <2> QED
    BY <1>6, <2>1 DEF KeysOK
<1>8. \A k \in Keys, t \in Texts \ {0} : ~Copy(k, DraftOf(t)) /\ ~IsText(k, t)
  BY <1>1, <1>2, <1>3, Shapes, DataFacts DEF IsText
<1>9. TextsOK
  BY <1>1, <1>3, <1>8, Shapes DEF TextsOK, Copy
<1>10. StoppedOK /\ QueueOK /\ NowOK /\ CleanupOK
  BY <1>0 DEF StoppedOK, QueueOK, NowOK, CleanupOK, Idle, NoCleanup
<1>11. SeenOK /\ UnseenOK /\ MapsOK
  BY <1>0, <1>3 DEF SeenOK, UnseenOK, MapsOK
<1>12. QuitOK
  BY <1>0 DEF QuitOK
<1>13. LatestOK
  <2>1. Nothing \in Contents("map") /\ Latest("map", Nothing)
    BY <1>1, <1>2, Shapes
  <2>2. \A p \in Peers : Agrees(Nothing, p)
    BY <1>3, DataFacts DEF Agrees
  <2> QED
    BY <1>3, <2>1, <2>2 DEF LatestOK
<1> QED
  BY <1>4, <1>5, <1>7, <1>9, <1>10, <1>11, <1>12, <1>13 DEF IInv, TypeOK

\* No step breaks the invariant.
LEMMA NextKept ==
  ASSUME IInv, Next
  PROVE  IInv'
<1>1. CASE \E p \in Peers : WriteDraft(p) \/ ClearDraft(p) \/ OpenChat(p)
  BY <1>1, WriteDraftKept, ClearDraftKept, OpenChatKept
<1>2. CASE PostedWriteMap \/ TimerFires \/ Quit
  BY <1>2, MapStepKept
<1>3. CASE QuitEnds \/ Killed
  BY <1>3, EndKept
<1>4. CASE Start
  BY <1>4, StartKept
<1>5. CASE Cleans
  BY <1>5, CleansKept
<1>6. CASE ThreadStep
  BY <1>6, ThreadStepKept
<1> QED
  BY <1>1, <1>2, <1>3, <1>4, <1>5, <1>6 DEF Next

\* A step that changes nothing does not either.
LEMMA StutterKept ==
  ASSUME IInv, UNCHANGED vars
  PROVE  IInv'
<1>1. UNCHANGED <<calls, scheduled, now, files, failed, failures, drafts, unseen,
                  account, phase, cleanup, spent>>
  BY DEF vars, managerVars, mainVars
<1>2. TypeManager' /\ TypeMain' /\ StoppedOK' /\ QueueOK' /\ SeenOK' /\ QuitOK'
  <2>1. TypeManager' /\ TypeMain'
    BY <1>1, Parts DEF TypeManager, TypeMain
  <2>2. StoppedOK' /\ QueueOK' /\ SeenOK'
    BY <1>1, Parts DEF StoppedOK, QueueOK, SeenOK
  <2>3. QuitOK'
    BY <1>1, Parts DEF QuitOK
  <2> QED
    BY <2>1, <2>2, <2>3
<1>3. NowOK' /\ CleanupOK'
  BY <1>1, Parts DEF NowOK, CleanupOK, Tracked
<1>4. KeysOK'
  BY <1>1, Parts DEF KeysOK, IsMap, Copy, Pending, InNow, Writing, ReadFile
<1>5. TextsOK'
  BY <1>1, Parts DEF TextsOK, IsText, Follows, Copy, InNow, ReadFile
<1>6. UnseenOK'
  BY <1>1, Parts DEF UnseenOK, IsMap, Copy, Pending, InNow, Writing, ReadFile
<1>7. MapsOK'
  BY <1>1, Parts DEF MapsOK, Follows, Copy, InNow, ReadFile
<1>8. LatestOK'
  BY <1>1, Parts DEF LatestOK, Lost, Latest, Pending, Agrees, Dead, Readable, Tracked, InNow,
                     Writing, ReadFile
<1> QED
  BY <1>2, <1>3, <1>4, <1>5, <1>6, <1>7, <1>8 DEF IInv, TypeOK

\* The invariant holds always: the copies of what belongs into a file reach the
\* disk in their order, under keys of one chat each, whatever fails and whenever
\* the program is killed (storage_account.cpp, storage_file_utilities.cpp).
THEOREM InvariantHolds == Spec => []IInv
<1>1. Init => IInv
  BY FirstState
<1>2. IInv /\ [Next]_vars => IInv'
  BY NextKept, StutterKept
<1> QED
  BY <1>1, <1>2, PTL DEF Spec

\* The drafts, the account's keys, the map, the calls, the queue and the files
\* are of their types; a file holds data of its kind, nothing, or is cut.
THEOREM TypeCorrect == Spec => []TypeOK
<1>1. IInv => TypeOK
  BY DEF IInv
<1> QED
  BY <1>1, InvariantHolds, PTL

\* With nothing left to write the disk holds what the user sees.
LEMMA SettledInvariant ==
  ASSUME IInv
  PROVE  Settled
<1> SUFFICES ASSUME phase = "off" \/ (phase = "running" /\ Quiet),
                    NEW p \in Peers \ unseen,
                    {"map", account.map[p]} \cap failed = {}
             PROVE  Stored(p) = drafts[p]
  BY DEF Settled
<1>1. calls = <<>> /\ scheduled = <<>> /\ now = Idle /\ ~account.changed /\ phase # "killed"
  BY Parts DEF Quiet, StoppedOK, QuitOK
<1>2. \A n : ~Pending(n) /\ \A x : Latest(n, x) <=> x = ReadFile(n)
  BY <1>1 DEF Pending, IsCalled, Queued, Writing, Latest
<1>3. "map" \notin failed /\ account.map[p] \notin failed
  OBVIOUS
<1>4. PICK x : x = ReadFile("map") /\ Agrees(x, p)
  BY <1>1, <1>2, <1>3, Parts DEF LatestOK, Lost
<1>5. PICK k : k = IF x.kind = "map" THEN x.keys[p] ELSE NoKey
  OBVIOUS
<1>6. Stored(p) = LET data == IF k = NoKey THEN Nothing ELSE ReadFile(k)
                     IN IF data.kind = "draft" THEN data.text ELSE 0
  BY <1>4, <1>5 DEF Stored
<1>7. k = account.map[p] \/ (account.map[p] = NoKey /\ Dead(k))
  BY <1>4, <1>5 DEF Agrees
<1>8. CASE account.map[p] = NoKey
  <2>1. drafts[p] = 0
    BY <1>8, Parts DEF SeenOK
  <2>2. k # NoKey => ReadFile(k) \in {Nothing, Cut}
    BY <1>7, <1>8 DEF Dead, Readable
  <2> QED
    BY <1>6, <2>1, <2>2, DataFacts
<1>9. CASE account.map[p] # NoKey
  <2>1. k = account.map[p] /\ k # NoKey
    BY <1>7, <1>9
  <2>2. ReadFile(k) = DraftOf(drafts[p])
    BY <1>1, <1>2, <1>3, <1>9, <2>1, Parts DEF LatestOK, Lost
  <2>3. drafts[p] \in Texts \ {0}
    BY <1>9, Parts DEF SeenOK, TypeMain
  <2>4. ReadFile(k).kind = "draft" /\ ReadFile(k).text = drafts[p]
    BY <2>2 DEF DraftOf
  <2> QED
    BY <1>6, <2>1, <2>4
<1> QED
  BY <1>8, <1>9

\* Whenever nothing is left to write, and after every quit, the disk holds what
\* the user sees of the chats he has opened, but for files whose last write has
\* failed (Account::writeDrafts(), writeMap(), ~Account()).
THEOREM DraftsAreSettled == Spec => []Settled
<1>1. IInv => Settled
  BY SettledInvariant
<1> QED
  BY <1>1, InvariantHolds, PTL

\* The key and the text of a draft that has come to the disk.
LEMMA SavedFacts ==
  ASSUME IInv, NEW p \in Peers, Saved(p)
  PROVE  /\ ReadFile("map") \in MapData
         /\ account.map[p] \in Keys /\ account.map[p] # NoKey
         /\ ReadFile("map").keys[p] = account.map[p]
         /\ ReadFile(account.map[p]) = DraftOf(drafts[p])
         /\ drafts[p] \in Texts \ {0}
<1>1. drafts[p] \in Texts \ {0} /\ Stored(p) = drafts[p]
  BY Parts DEF Saved, TypeMain
<1>2. PICK x : x = ReadFile("map")
  OBVIOUS
<1>3. x \in Contents("map")
  BY <1>2, Parts, Shapes DEF TypeManager, ReadFile
<1>4. PICK k : k = IF x.kind = "map" THEN x.keys[p] ELSE NoKey
  OBVIOUS
<1>5. k # NoKey /\ ReadFile(k).kind = "draft" /\ ReadFile(k).text = drafts[p]
  BY <1>1, <1>2, <1>4, DataFacts DEF Stored
<1>6. x \in MapData /\ x.kind = "map" /\ k = x.keys[p] /\ k \in Keys
  <2>1. x.kind = "map" /\ k = x.keys[p]
    BY <1>4, <1>5
  <2>2. x \in MapData
    BY <1>3, <2>1, Shapes, DataFacts
  <2> QED
    BY <1>5, <2>1, <2>2, DataFacts DEF Maps
<1>7. ReadFile(k) = DraftOf(drafts[p])
  <2>1. ReadFile(k) \in Contents(k)
    BY <1>6, Parts, Shapes DEF TypeManager, ReadFile
  <2>2. ReadFile(k) \in DraftData
    BY <1>5, <1>6, <2>1, Shapes, DataFacts
  <2> QED
    BY <1>5, <2>2, DataFacts
<1>8. x.keys \in Maps /\ IsMap(x.keys)
  <2>1. Copy("map", x) /\ x = [kind |-> "map", keys |-> x.keys] /\ x.keys \in Maps
    BY <1>2, <1>6, DataFacts DEF Copy
  <2> QED
    BY <2>1 DEF IsMap
<1>9. account.map[p] = k
  <2>1. CASE p \in unseen
    BY <1>6, <1>8, <2>1, Parts DEF UnseenOK
  <2>2. CASE p \notin unseen
    <3>1. account.map[p] \in Keys
      BY <1>1, <2>2, Parts DEF SeenOK
    <3>2. IsText(k, drafts[p]) /\ IsText(account.map[p], drafts[p])
      BY <1>7, <2>2 DEF IsText, Copy
    <3> QED
      BY <1>1, <1>6, <3>1, <3>2, Parts DEF TextsOK
  <2> QED
    BY <2>1, <2>2
<1> QED
  BY <1>1, <1>2, <1>5, <1>6, <1>7, <1>9

\* What the disk must keep for a draft to stay.
LEMMA SavedKept ==
  ASSUME IInv, NEW p \in Peers, Saved(p), drafts'[p] = drafts[p],
         ReadFile("map")' \in MapData,
         ReadFile("map")'.keys[p] = account.map[p],
         NEW k, k = account.map[p], ReadFile(k)' = ReadFile(k)
  PROVE  Saved(p)'
<1>1. /\ k \in Keys /\ k # NoKey /\ ReadFile(k) = DraftOf(drafts[p]) /\ drafts[p] \in Texts \ {0}
  BY SavedFacts
<1>2. ReadFile("map")'.kind = "map"
  BY DataFacts
<1>a. ReadFile(k)'.kind = "draft" /\ ReadFile(k)'.text = drafts[p]
  <2>1. ReadFile(k)' = DraftOf(drafts[p])
    BY <1>1
  <2> QED
    BY <2>1 DEF DraftOf
<1>3. Stored(p)' = drafts[p]
  BY <1>1, <1>2, <1>a DEF Stored
<1> QED
  BY <1>1, <1>3 DEF Saved

\* A step of the thread.
LEMMA SavedByThread ==
  ASSUME IInv, NEW p \in Peers, Saved(p), ThreadStep
  PROVE  Saved(p)' \/ Spoiled(p)'
<1>0. Thread /\ UNCHANGED <<drafts, unseen, account, phase, cleanup, spent>>
  BY DEF ThreadStep, mainVars
<1>1. DiskKept /\ PendingKept
  BY <1>0, Parts, CallsKept, DiskStepKept DEF Thread, ThreadKept, Flows
<1>2. PICK x, k : x = ReadFile("map") /\ k = account.map[p]
  OBVIOUS
<1>3. /\ x \in MapData /\ k \in Keys /\ k # NoKey /\ x.keys[p] = k
      /\ ReadFile(k) = DraftOf(drafts[p]) /\ drafts[p] \in Texts \ {0}
  BY <1>2, SavedFacts
<1>4. PICK y, z : y = ReadFile("map")' /\ z = ReadFile(k)'
  OBVIOUS
<1>5. y = Cut \/ (y \in MapData /\ y.keys[p] = k)
  <2>1. y = x \/ InNow("map", y) \/ y = Cut \/ (y = Nothing /\ ~Tracked("map"))
    BY <1>1, <1>2, <1>4, Shapes DEF DiskKept
  <2>2. CASE InNow("map", y)
    <3>1. y \in MapData
      BY <2>2, Parts, Shapes, PendingFacts
    <3>2. Follows("map", x, y)
      BY <1>2, <2>2 DEF Follows, Copy
    <3> QED
      BY <1>2, <1>3, <3>1, <3>2, Parts DEF MapsOK
  <2> QED
    BY <1>3, <2>1, <2>2 DEF Tracked
<1>6. z = Cut \/ z = ReadFile(k)
  <2>1. z = ReadFile(k) \/ InNow(k, z) \/ z = Cut \/ (z = Nothing /\ ~Tracked(k))
    BY <1>1, <1>3, <1>4, Shapes DEF DiskKept
  <2>2. CASE InNow(k, z)
    <3>1. z \in DraftData
      BY <1>3, <2>2, Parts, Shapes, PendingFacts
    <3>2. PICK u \in Texts \ {0} : z = DraftOf(u)
      BY <3>1, DataFacts
    <3>3. Follows(k, DraftOf(drafts[p]), DraftOf(u)) /\ Copy(k, DraftOf(u)) /\ Pending(k)
      BY <1>3, <2>2, <3>2, Parts, Shapes, PendingFacts DEF Follows, Copy, Pending
    <3>4. drafts[p] <= u
      BY <1>3, <3>3, Parts DEF TextsOK
    <3>5. p \notin unseen
      BY <1>2, <3>3, Parts DEF UnseenOK
    <3>6. u <= drafts[p]
      BY <1>2, <1>3, <3>3, <3>5, Parts DEF TextsOK
    <3>a. u \in Nat /\ drafts[p] \in Nat
      BY <1>3, Shapes
    <3>7. u = drafts[p]
      BY <3>4, <3>6, <3>a
    <3> QED
      BY <1>3, <3>2, <3>7
  <2> QED
    BY <1>2, <1>3, <2>1, <2>2, Parts
<1>7. CASE y = Cut
  BY <1>4, <1>7 DEF Spoiled
<1>8. CASE z = Cut
  BY <1>0, <1>2, <1>3, <1>4, <1>8 DEF Spoiled
<1>9. CASE y \in MapData /\ y.keys[p] = k /\ z = ReadFile(k)
  <2>1. ReadFile("map")' \in MapData /\ ReadFile("map")'.keys[p] = account.map[p]
        /\ ReadFile(k)' = ReadFile(k)
    BY <1>2, <1>4, <1>9
  <2> QED
    BY <1>0, <1>2, <2>1, SavedKept
<1> QED
  BY <1>5, <1>6, <1>7, <1>8, <1>9

\* A step that removes at most the files of others.
LEMMA SavedAside ==
  ASSUME IInv, NEW p \in Peers, Saved(p), drafts'[p] = drafts[p], NEW S,
         files' = [n \in Names |-> IF n \in S THEN Nowhere ELSE files[n]],
         "map" \notin S, account.map[p] \notin S
  PROVE  Saved(p)'
<1>1. PICK k : k = account.map[p]
  OBVIOUS
<1>2. /\ k \in Keys /\ ReadFile("map") \in MapData
      /\ ReadFile("map").keys[p] = account.map[p]
  BY <1>1, SavedFacts
<1>3. files'["map"] = files["map"] /\ files'[k] = files[k]
  BY <1>1, <1>2, Shapes
<1>4. ReadFile("map")' = ReadFile("map") /\ ReadFile(k)' = ReadFile(k)
  BY <1>3 DEF ReadFile
<1> QED
  BY <1>1, <1>2, <1>4, SavedKept

\* The file of another key is cleared.
LEMMA SavedCleared ==
  ASSUME IInv, NEW p \in Peers, Saved(p), drafts'[p] = drafts[p],
         NEW k \in Keys, k # account.map[p], files' = ClearKey(files, k)
  PROVE  Saved(p)'
<1>1. PICK S : S = {k}
  OBVIOUS
<1>2. "map" \notin S /\ account.map[p] \notin S
  BY <1>1, Shapes
<1>3. files' = [n \in Names |-> IF n \in S THEN Nowhere ELSE files[n]]
  <2>1. files \in [Names -> [s : Contained, simple : Contained]]
    BY Parts DEF TypeManager
  <2> QED
    BY <1>1, <2>1 DEF ClearKey
<1> QED
  BY <1>2, <1>3, SavedAside

\* Other chats are opened, their drafts written and cleared.
LEMMA SavedByChat ==
  ASSUME IInv, NEW p \in Peers, Saved(p), NEW q \in Peers,
         WriteDraft(q) \/ ClearDraft(q) \/ OpenChat(q), q # p
  PROVE  Saved(p)'
<1>1. PICK k \in Keys : k = account.map[p]
  BY SavedFacts
<1>2. k # NoKey /\ ReadFile(k) = DraftOf(drafts[p]) /\ drafts[p] \in Texts \ {0}
  BY <1>1, SavedFacts
<1>3. drafts \in [Peers -> Texts]
  BY Parts DEF TypeMain
<1>4. PICK none : none = {}
  OBVIOUS
<1>5. files' = files => files' = [n \in Names |-> IF n \in none THEN Nowhere ELSE files[n]]
  BY <1>4, Parts DEF TypeManager
<1>6. ASSUME drafts'[p] = drafts[p], files' = files
      PROVE  Saved(p)'
  BY <1>4, <1>5, <1>6, SavedAside
\* The file of another chat is cleared.
<1>7. ASSUME q # p, account.map[q] # NoKey, drafts'[p] = drafts[p],
             files' = ClearKey(files, account.map[q])
      PROVE  Saved(p)'
  <2>1. PICK j \in Keys : j = account.map[q] /\ j # k
    BY <1>1, <1>7, Parts
  <2>2. files' = ClearKey(files, j) /\ j # account.map[p]
    BY <1>1, <1>7, <2>1
  <2> QED
    BY <1>7, <2>2, SavedCleared
<1>8. CASE WriteDraft(q)
  <2>1. files' = files /\ drafts' = [drafts EXCEPT ![q] = spent.texts + 1]
    BY <1>8 DEF WriteDraft
  <2>2. drafts'[p] = drafts[p]
    BY <1>3, <1>8, <2>1
  <2> QED
    BY <1>6, <2>1, <2>2
<1>9. CASE ClearDraft(q)
  <2>1. /\ drafts' = [drafts EXCEPT ![q] = 0]
        /\ files' = files \/ (account.map[q] # NoKey /\ files' = ClearKey(files, account.map[q]))
    BY <1>9 DEF ClearDraft
  <2>2. drafts'[p] = drafts[p]
    BY <1>3, <1>9, <2>1
  <2> QED
    BY <1>6, <1>7, <1>9, <2>1, <2>2
<1>10. CASE OpenChat(q)
  <2>1. q \in unseen /\ (q \in account.notRead <=> account.map[q] # NoKey)
    BY <1>10, Parts DEF OpenChat, UnseenOK
  <2>2. \/ files' = files
        \/ account.map[q] # NoKey /\ files' = ClearKey(files, account.map[q])
    BY <1>10, <2>1 DEF OpenChat
  <2>3. drafts' = [drafts EXCEPT ![q] = 0]
    BY <1>10 DEF OpenChat
  <2>4. drafts'[p] = drafts[p]
    BY <1>3, <2>3
  <2> QED
    BY <1>6, <1>7, <2>2, <2>4
<1> QED
  BY <1>8, <1>9, <1>10

\* The map is written, the program ends or starts, unknown files are removed.
LEMMA SavedByRest ==
  ASSUME IInv, NEW p \in Peers, Saved(p),
         PostedWriteMap \/ TimerFires \/ Quit \/ QuitEnds \/ Killed \/ Start \/ Cleans
  PROVE  Saved(p)'
<1>1. drafts' = drafts
  BY DEF PostedWriteMap, TimerFires, WritesMap, Quit, QuitEnds, Killed, Ended, Start, Cleans,
         ListFiles, AskGoodNames, RemoveFiles
<1>2. CASE RemoveFiles
  <2>1. /\ cleanup.step = "remove"
        /\ files' = [n \in Names |-> IF n \in cleanup.names THEN Nowhere ELSE files[n]]
    BY <1>2 DEF RemoveFiles
  <2>2. PICK S : S = cleanup.names
    OBVIOUS
  <2>3. \A n \in S : ~Tracked(n)
    BY <2>1, <2>2, Parts DEF CleanupOK
  <2>4. "map" \notin S /\ account.map[p] \notin S
    BY <2>3 DEF Tracked
  <2>5. files' = [n \in Names |-> IF n \in S THEN Nowhere ELSE files[n]]
    BY <2>1, <2>2
  <2> QED
    BY <1>1, <2>4, <2>5, SavedAside
<1>3. CASE ~RemoveFiles
  <2>1. files' = files
    BY <1>3 DEF PostedWriteMap, TimerFires, WritesMap, Quit, QuitEnds, Killed, Ended, Start,
                Cleans, ListFiles, AskGoodNames, managerVars
  <2>2. PICK none : none = {}
    OBVIOUS
  <2>3. files' = [n \in Names |-> IF n \in none THEN Nowhere ELSE files[n]]
    BY <2>1, <2>2, Parts DEF TypeManager
  <2> QED
    BY <1>1, <2>2, <2>3, SavedAside
<1> QED
  BY <1>2, <1>3

\* Every step, and none.
LEMMA SavedStep ==
  ASSUME IInv, [Next]_vars, NEW p \in Peers, Saved(p)
  PROVE  Saved(p)' \/ Spoiled(p)' \/ WriteDraft(p) \/ ClearDraft(p) \/ OpenChat(p)
<1>1. CASE \E q \in Peers : WriteDraft(q) \/ ClearDraft(q) \/ OpenChat(q)
  BY <1>1, SavedByChat
<1>2. CASE PostedWriteMap \/ TimerFires \/ Quit \/ QuitEnds \/ Killed \/ Start \/ Cleans
  BY <1>2, SavedByRest
<1>3. CASE ThreadStep
  BY <1>3, SavedByThread
<1>4. CASE UNCHANGED vars
  <2>1. UNCHANGED <<files, drafts, account>>
    BY <1>4 DEF vars, managerVars, mainVars
  <2> QED
    BY <2>1 DEF Saved, Stored, ReadFile
<1> QED
  BY <1>1, <1>2, <1>3, <1>4 DEF Next

\* A draft that has come to the disk stays there until the user changes it or
\* opens its chat after the next start, unless a full disk cuts its file or the
\* map (Account::writeDrafts(),
\* readDraftsWithCursors(), ClearLegacyFiles(), AsyncWriteManager).
THEOREM SavedDraftsStay == Spec => SavedStays
<1>1. IInv /\ [Next]_vars =>
        \A p \in Peers : Saved(p) => \/ Saved(p)' \/ Spoiled(p)'
                                     \/ WriteDraft(p) \/ ClearDraft(p) \/ OpenChat(p)
  BY SavedStep
<1> QED
  BY <1>1, InvariantHolds, PTL DEF Spec, SavedStays
=============================================================================
