--------------------------- MODULE DownloadsProofs ---------------------------
(***************************************************************************)
(* Theorems about Downloads.                                               *)
(***************************************************************************)
EXTENDS DownloadsInvariant, WellFoundedInduction, FiniteSetTheorems, TLAPS

(***************************************************************************)
(* A set of naturals has a least element.  The sets of the elements up to  *)
(* one of them are finite and ordered by inclusion, which is well-founded; *)
(* a least one of these sets belongs to a least element.                   *)
(***************************************************************************)
LEMMA LeastExists ==
  ASSUME NEW S \in SUBSET Nat, S # {}
  PROVE  \E n \in S : \A m \in S : n <= m
<1> DEFINE D(x) == { y \in S : y <= x }
<1>1. \A x \in S : x \in Nat
  OBVIOUS
<1>2. /\ \A x \in S : D(x) \subseteq S
      /\ \A x \in S, y \in S : y \in D(x) <=> y <= x
  OBVIOUS
<1> HIDE DEF D
<1>3. ASSUME NEW x \in S
      PROVE  D(x) \in FiniteSubsetsOf(S)
  <2>1. D(x) \subseteq S /\ \A y \in D(x) : y \in Nat /\ y <= x
    BY <1>1, <1>2
  <2>2. IsFiniteSet(0 .. x)
    BY <1>1, FS_Interval
  <2>3. D(x) \subseteq 0 .. x
    BY <1>1, <2>1
  <2> QED
    BY <1>1, <2>1, <2>2, <2>3, FS_Subset DEF FiniteSubsetsOf
<1> DEFINE T == { D(x) : x \in S }
<1>4. T \subseteq FiniteSubsetsOf(S) /\ T # {}
  BY <1>3
<1>5. PICK least \in T : \A e \in T : ~(<<e, least>> \in StrictSubsetOrdering(S))
  <2> HIDE DEF T
  <2> QED
    BY <1>4, WFMin, FS_StrictSubsetOrderingWellFounded
<1>6. PICK n \in S : least = D(n)
  OBVIOUS
<1>7. ASSUME NEW m \in S, m < n
      PROVE  FALSE
  <2>1. D(m) \in T
    OBVIOUS
  <2>2. D(m) \in SUBSET S /\ D(n) \in SUBSET S
    BY <1>2
  <2>3. D(m) \subseteq D(n) /\ n \in D(n) /\ n \notin D(m)
    <3>1. m \in Nat /\ n \in Nat /\ m < n
      BY <1>1, <1>7
    <3>2. n \in D(n) /\ n \notin D(m)
      BY <3>1, <1>2
    <3>3. \A y \in S : y \in D(m) => y \in D(n)
      BY <3>1, <1>1, <1>2
    <3> QED
      BY <2>2, <3>2, <3>3
  <2>4. <<D(m), least>> \in StrictSubsetOrdering(S)
    BY <1>6, <2>2, <2>3 DEF StrictSubsetOrdering
  <2> QED
    BY <1>5, <2>1, <2>4
<1>8. \A m \in S : n <= m
  BY <1>1, <1>7
<1> QED
  BY <1>8

\* What holds of 0, and of each number up to N if it holds of the one before,
\* holds of all up to N.
LEMMA UpTo ==
  ASSUME NEW N \in Nat, NEW X, 0 \in X, \A n \in 1 .. N : n - 1 \in X => n \in X
  PROVE  0 .. N \subseteq X
<1> SUFFICES ASSUME NEW m \in 0 .. N, m \notin X
             PROVE  FALSE
  OBVIOUS
<1> DEFINE Y == { n \in 0 .. N : n \notin X }
<1>1. Y \in SUBSET Nat /\ Y # {}
  OBVIOUS
<1>2. PICK n \in Y : \A k \in Y : n <= k
  <2> HIDE DEF Y
  <2> QED
    BY <1>1, LeastExists
<1>3. n \in 1 .. N /\ n \notin X
  BY <1>2
<1>4. n - 1 \in X
  BY <1>2, <1>3
<1> QED
  BY <1>3, <1>4

-----------------------------------------------------------------------------
(* Choices. *)

\* The least member of a set of naturals.
LEMMA MinIs ==
  ASSUME NEW S \in SUBSET Nat, S # {}
  PROVE  Min(S) \in S /\ \A n \in S : Min(S) <= n
BY LeastExists DEF Min

\* The members of a sequence.
LEMMA MembersAre ==
  ASSUME NEW T, NEW q \in Seq(T), NEW k \in DOMAIN q
  PROVE  q[k] \in T
OBVIOUS

\* The greatest of some places in a sequence and 0, if there is one place at most.
LEMMA MaxIs ==
  ASSUME NEW S \in SUBSET Positive, \A j, k \in S : j = k
  PROVE  IF S = {} THEN Max({0} \cup S) = 0 ELSE Max({0} \cup S) \in S
<1>1. CASE S = {}
  <2>1. {0} \cup S = {0}
    BY <1>1
  <2>2. Max({0}) = 0
    BY DEF Max
  <2> QED
    BY <1>1, <2>1, <2>2
<1>2. CASE S # {}
  <2>1. PICK k \in S : S = {k}
    BY <1>2
  <2>2. k \in Nat /\ k > 0
    BY DEF Positive
  <2>3. \E x \in {0} \cup S : \A y \in {0} \cup S : x >= y
    BY <2>1, <2>2
  <2>4. PICK x \in {0} \cup S : x = Max({0} \cup S) /\ \A y \in {0} \cup S : x >= y
    BY <2>3 DEF Max
  <2>5. x # 0
    BY <2>1, <2>2, <2>4
  <2> QED
    BY <1>2, <2>4, <2>5
<1> QED
  BY <1>1, <1>2

\* Some value of a finite list of numbers is least.
LEMMA LeastOfMany ==
  ASSUME NEW N \in Nat, N > 0, NEW f \in [1 .. N -> Int]
  PROVE  \E s \in 1 .. N : \A k \in 1 .. N : f[s] <= f[k]
<1> DEFINE Has(n) == n > 0 => \E s \in 1 .. n : \A k \in 1 .. n : f[s] <= f[k]
           X == { n \in 0 .. N : Has(n) }
<1>1. 0 \in X
  OBVIOUS
<1>2. ASSUME NEW n \in 1 .. N, n - 1 \in X
      PROVE  n \in X
  <2>1. CASE n = 1
    <3>1. \A k \in 1 .. 1 : f[1] <= f[k]
      OBVIOUS
    <3> QED
      BY <2>1, <3>1
  <2>2. CASE n > 1
    <3>1. PICK s \in 1 .. n - 1 : \A k \in 1 .. n - 1 : f[s] <= f[k]
      BY <1>2, <2>2
    <3>2. f[s] \in Int /\ f[n] \in Int /\ \A k \in 1 .. n - 1 : f[k] \in Int
      OBVIOUS
    <3>3. n \in 0 .. N /\ n \in 1 .. n /\ 1 .. n = (1 .. n - 1) \cup {n}
      OBVIOUS
    <3>4. CASE f[s] <= f[n]
      <4>1. \A k \in 1 .. n : f[s] <= f[k]
        BY <3>1, <3>3, <3>4
      <4>2. \E i \in 1 .. n : \A k \in 1 .. n : f[i] <= f[k]
        BY Zenon, <3>3, <4>1
      <4> QED
        BY Zenon, <3>3, <4>2
    <3>5. CASE f[n] <= f[s]
      <4>1. ASSUME NEW k \in 1 .. n - 1
            PROVE  f[n] <= f[k]
        <5>1. f[s] <= f[k]
          BY <3>1
        <5> QED
          BY <3>2, <3>5, <5>1
      <4>2. f[n] <= f[n]
        BY <3>2
      <4>3. \A k \in 1 .. n : f[n] <= f[k]
        BY Zenon, <3>3, <4>1, <4>2
      <4>4. \E i \in 1 .. n : \A k \in 1 .. n : f[i] <= f[k]
        BY Zenon, <3>3, <4>3
      <4> QED
        BY Zenon, <3>3, <4>4
    <3>6. f[s] <= f[n] \/ f[n] <= f[s]
      BY <3>2
    <3> QED
      BY <3>4, <3>5, <3>6
  <2> QED
    BY <2>1, <2>2
<1>3. 0 .. N \subseteq X
  <2> HIDE DEF X
  <2> QED
    BY <1>1, <1>2, UpTo
<1>4. N \in X
  <2> HIDE DEF X
  <2>1. N \in 0 .. N
    OBVIOUS
  <2> QED
    BY <1>3, <2>1
<1> QED
  BY <1>4

\* The first place of a finite list where its value is least.
LEMMA LeastPlaceIs ==
  ASSUME NEW N \in Nat, N > 0, NEW f \in [1 .. N -> Int],
         NEW S, S = { s \in 1 .. N : \A k \in 1 .. N : f[s] <= f[k] }
  PROVE  Min(S) \in 1 .. N
<1>1. S # {}
  BY LeastOfMany
<1>2. S \subseteq 1 .. N
  OBVIOUS
<1>3. S \in SUBSET Nat
  BY <1>2
<1>4. Min(S) \in S
  BY <1>1, <1>3, MinIs
<1> QED
  BY <1>2, <1>4

\* The wanted part that is taken is wanted.
LEMMA NextWantedIs ==
  ASSUME NEW T \in SUBSET ({ l \in Int : l <= 0 } \X Nat), T # {}
  PROVE  \E w \in T : \A v \in T : w[1] > v[1] \/ (w[1] = v[1] /\ w[2] <= v[2])
<1> DEFINE L == { 0 - w[1] : w \in T }
<1>1. L \in SUBSET Nat /\ L # {}
  OBVIOUS
<1>2. PICK l \in L : \A k \in L : l <= k
  <2> HIDE DEF L
  <2> QED
    BY <1>1, LeastExists
<1> DEFINE O == { w[2] : w \in { v \in T : v[1] = 0 - l } }
<1>3. O \in SUBSET Nat /\ O # {}
  <2>1. PICK w \in T : l = 0 - w[1]
    OBVIOUS
  <2>2. w[1] = 0 - l
    BY <2>1
  <2> QED
    BY <2>2
<1>4. PICK o \in O : \A k \in O : o <= k
  <2> HIDE DEF O
  <2> QED
    BY <1>3, LeastExists
<1>5. PICK w \in T : w[1] = 0 - l /\ w[2] = o
  OBVIOUS
<1>6. ASSUME NEW v \in T
      PROVE  w[1] > v[1] \/ (w[1] = v[1] /\ w[2] <= v[2])
  <2>1. v[1] \in Int /\ w[1] \in Int /\ l \in Int
    BY <1>1
  <2>2. l <= 0 - v[1]
    BY <1>2
  <2>3. CASE v[1] = w[1]
    <3>1. v[2] \in O
      BY <1>5, <2>3
    <3> QED
      BY <1>4, <1>5, <2>3, <3>1
  <2>4. CASE v[1] # w[1]
    BY <1>5, <2>1, <2>2, <2>4
  <2> QED
    BY <2>3, <2>4
<1> QED
  BY <1>6

-----------------------------------------------------------------------------
(* What holds of a task, whatever becomes of its requests. *)

\* One more request.
LEMMA OutOfMore ==
  ASSUME NEW S, NEW q
  PROVE  /\ Offs(S \cup {q}) = Offs(S) \cup {q.offset}
         /\ q.kind # "hashes" => Out(S \cup {q}) = Out(S) \cup {q.offset}
         /\ q.kind = "hashes" => Out(S \cup {q}) = Out(S)
BY DEF Offs, Out

\* Fewer requests.
LEMMA OutOfLess ==
  ASSUME NEW S, NEW R
  PROVE  /\ Offs(S \ R) \subseteq Offs(S) /\ Out(S \ R) \subseteq Out(S)
         /\ Out(S) \subseteq Out(S \ R) \cup Out(R)
         /\ Offs(R) \subseteq Offs(S) \cup Offs(R) /\ Out(R) \subseteq Offs(R)
BY DEF Offs, Out

\* The kind of request that is made, unless the task is astray.
KindOK(x, kind) ==
  ~x.astray => IF x.cdn THEN kind \in {"cdn", "reupload"} ELSE kind = "part"

\* Part o of those in hand is not in hand any more.
Without(H, G, o, astray) ==
  G \subseteq H /\ H \subseteq G \cup {o} /\ (o \in G => astray)

\* A part in hand is asked for again; G is what is left in hand.
LEMMA MadeOK ==
  ASSUME NEW t \in Tasks, NEW x \in TaskStates, NEW S \in SUBSET Requests, NEW H, NEW W,
         TaskOK(t, x, S, H, W), NEW q \in Requests, q.offset \in H, q.kind # "hashes",
         KindOK(x, q.kind), t \in Files => x.state = "on",
         NEW G, Without(H, G, q.offset, x.astray)
  PROVE  TaskOK(t, x, S \cup {q}, G, W)
<1> USE DEF Without
<1> DEFINE o == q.offset
           S2 == S \cup {q}
<1>1. q.kind # "hashes" /\ G \subseteq H /\ H \subseteq G \cup {o} /\ o \in H
  OBVIOUS
<1>2. Offs(S2) = Offs(S) \cup {o} /\ Out(S2) = Out(S) \cup {o}
  BY <1>1, OutOfMore
<1>3. t \in Files => FileOK(t, x, S2, G)
  BY <1>1, <1>2 DEF TaskOK, FileOK
<1>4. t \in Streams => StreamOK(t, x, S2, G)
  BY <1>1, <1>2 DEF TaskOK, StreamOK
<1>5. ASSUME ~x.astray
      PROVE  NeatOK(x, S2, G, W)
  <2> USE DEF NeatOK
  <2>0. NeatOK(x, S, H, W)
    BY <1>5 DEF TaskOK
  <2>1. Once(S2)
    <3>1. Once(S) /\ o \notin Out(S)
      BY <2>0
    <3>2. \A r \in S : r.kind # "hashes" => r.offset # o
      BY <3>1 DEF Out
    <3> QED
      BY <1>1, <3>1, <3>2 DEF Once
  <2>2. \A r \in S2 : r.kind = "hashes" => r.offset \in DOMAIN x.unchecked
    BY <1>1, <2>0
  <2> USE DEF KindOK
  <2>3. /\ x.cdn => \A r \in S2 : r.kind # "part"
        /\ ~x.cdn => DOMAIN x.unchecked = {} /\ \A r \in S2 : r.kind = "part"
    BY <1>5, <2>0
  <2> HIDE DEF S2, o
  <2>4. /\ Out(S2) \cap DOMAIN x.unchecked = {}
        /\ G \cap (Out(S2) \cup DOMAIN x.unchecked) = {}
        /\ Wanted(x) \cap (Out(S2) \cup DOMAIN x.unchecked \cup G) = {}
        /\ x.loaded \cap (Out(S2) \cup DOMAIN x.unchecked \cup G) = {}
        /\ x.waits \subseteq Wanted(x) \cup Out(S2) \cup DOMAIN x.unchecked
                           \cup G \cup W
    <3>1. o \notin G
      BY <1>5 DEF o
    <3> QED
      BY <1>1, <1>2, <2>0, <3>1
  <2>5. \A v, w \in x.wanted : v[2] = w[2] => v = w
    BY <2>0
  <2> QED
    BY <2>1, <2>2, <2>3, <2>4, <2>5
<1> QED
  BY <1>3, <1>4, <1>5 DEF TaskOK

\* Hashes are asked for.
LEMMA HashesMadeOK ==
  ASSUME NEW t \in Tasks, NEW x \in TaskStates, NEW S \in SUBSET Requests, NEW H, NEW W,
         TaskOK(t, x, S, H, W), NEW q \in Requests, q.offset \in DOMAIN x.unchecked,
         q.kind = "hashes", \A r \in S : r.kind # "hashes"
  PROVE  TaskOK(t, x, S \cup {q}, H, W)
<1> DEFINE S2 == S \cup {q}
<1>1. Offs(S2) = Offs(S) \cup {q.offset} /\ Out(S2) = Out(S)
  BY OutOfMore
<1>2. t \in Files => FileOK(t, x, S2, H)
  BY <1>1 DEF TaskOK, FileOK
<1>3. t \in Streams => StreamOK(t, x, S2, H)
  BY <1>1 DEF TaskOK, StreamOK
<1>4. ASSUME NeatOK(x, S, H, W)
      PROVE  NeatOK(x, S2, H, W)
  <2>1. Once(S2)
    BY <1>4 DEF NeatOK, Once
  <2>2. x.cdn
    BY <1>4 DEF NeatOK, TaskStates
  <2>3. \A r \in S2 : r.kind # "part" /\ (r.kind = "hashes" => r.offset \in DOMAIN x.unchecked)
    BY <1>4, <2>2 DEF NeatOK
  <2> HIDE DEF S2
  <2> QED
    BY <1>1, <1>4, <2>1, <2>2, <2>3 DEF NeatOK
<1> QED
  BY <1>2, <1>3, <1>4 DEF TaskOK

\* Requests are over: their parts are in hand.
LEMMA FinishedOK ==
  ASSUME NEW t \in Tasks, NEW x \in TaskStates, NEW S \in SUBSET Requests, NEW H, NEW W,
         TaskOK(t, x, S, H, W), NEW R \in SUBSET S
  PROVE  TaskOK(t, x, S \ R, H \cup Out(R), W)
<1> DEFINE S2 == S \ R
<1>1. /\ Offs(S2) \subseteq Offs(S) /\ Out(S2) \subseteq Out(S)
      /\ Out(S) \subseteq Out(S2) \cup Out(R) /\ Out(R) \subseteq Out(S)
      /\ Out(R) \subseteq Offs(S)
  BY DEF Out, Offs
<1> HIDE DEF S2
<1>2. t \in Files => FileOK(t, x, S2, H \cup Out(R))
  <2>1. S = {} => S2 = {}
    BY DEF S2
  <2> QED
    BY <1>1, <2>1 DEF TaskOK, FileOK
<1>3. t \in Streams => StreamOK(t, x, S2, H \cup Out(R))
  BY <1>1 DEF TaskOK, StreamOK
<1>4. ASSUME NeatOK(x, S, H, W)
      PROVE  NeatOK(x, S2, H \cup Out(R), W)
  <2>1. Once(S)
    BY <1>4 DEF NeatOK
  <2>2. Once(S2)
    BY <2>1 DEF Once, S2
  <2>3. Out(R) \cap Out(S2) = {}
    <3>1. ASSUME NEW q \in R, NEW r \in S2, q.kind # "hashes", r.kind # "hashes",
                 q.offset = r.offset
          PROVE  FALSE
      <4>1. q = r
        BY <2>1, <3>1 DEF Once, S2
      <4> QED
        BY <3>1, <4>1 DEF S2
    <3> QED
      BY <3>1 DEF Out
  <2>4. /\ \A r \in S2 : r.kind = "hashes" => r.offset \in DOMAIN x.unchecked
        /\ x.cdn => \A r \in S2 : r.kind # "part"
        /\ ~x.cdn => DOMAIN x.unchecked = {} /\ \A r \in S2 : r.kind = "part"
    BY <1>4 DEF NeatOK, S2
  <2> QED
    BY <1>1, <1>4, <2>2, <2>3, <2>4 DEF NeatOK
<1> QED
  BY <1>2, <1>3, <1>4 DEF TaskOK, S2

\* What TaskOK looks at.
LEMMA SameOK ==
  ASSUME NEW t \in Tasks, NEW x \in TaskStates, NEW y \in TaskStates, NEW S, NEW H, NEW W,
         TaskOK(t, x, S, H, W),
         y.next = x.next, y.loaded = x.loaded, y.wanted = x.wanted, y.waits = x.waits,
         DOMAIN y.unchecked = DOMAIN x.unchecked, y.cdn = x.cdn, y.astray = x.astray,
         y.state = x.state, t \in Files => x.state = "on" \/ ~y.lostRef
  PROVE  TaskOK(t, y, S, H, W)
<1>1. Wanted(x) = Wanted(y) /\ Taken(x) = Taken(y)
  BY DEF Wanted, Taken
<1>2. t \in Files => FileOK(t, y, S, H)
  BY <1>1 DEF TaskOK, FileOK
<1>3. t \in Streams => StreamOK(t, y, S, H)
  BY <1>1 DEF TaskOK, StreamOK
<1>4. NeatOK(x, S, H, W) => NeatOK(y, S, H, W)
  BY <1>1 DEF NeatOK
<1> QED
  BY <1>2, <1>3, <1>4 DEF TaskOK

\* Requests for the same, with other marks on them.
LEMMA MarkedOK ==
  ASSUME NEW t \in Tasks, NEW x \in TaskStates, NEW S, NEW T, NEW H, NEW W,
         TaskOK(t, x, S, H, W), Once(S) => Once(T),
         \A r \in S : \E q \in T : q.kind = r.kind /\ q.offset = r.offset,
         \A q \in T : \E r \in S : q.kind = r.kind /\ q.offset = r.offset
  PROVE  TaskOK(t, x, T, H, W)
<1>1. Offs(S) = Offs(T) /\ Out(S) = Out(T) /\ (S = {} <=> T = {})
  BY DEF Offs, Out
<1>2. t \in Files => FileOK(t, x, T, H)
  BY <1>1 DEF TaskOK, FileOK
<1>3. t \in Streams => StreamOK(t, x, T, H)
  BY <1>1 DEF TaskOK, StreamOK
<1>4. ASSUME NeatOK(x, S, H, W)
      PROVE  NeatOK(x, T, H, W)
  <2>1. /\ \A r \in T : r.kind = "hashes" => r.offset \in DOMAIN x.unchecked
        /\ x.cdn => \A r \in T : r.kind # "part"
        /\ ~x.cdn => DOMAIN x.unchecked = {} /\ \A r \in T : r.kind = "part"
    BY <1>4 DEF NeatOK
  <2> QED
    BY <1>1, <1>4, <2>1 DEF NeatOK
<1> QED
  BY <1>2, <1>3, <1>4 DEF TaskOK

\* The next part of a file is taken.
LEMMA TakenOK ==
  ASSUME NEW f \in Files, NEW x \in TaskStates, NEW S, NEW y \in TaskStates,
         NEW W, TaskOK(f, x, S, {}, W), x.state = "on", x.next < Parts[f],
         y.next = x.next + 1, y.loaded = x.loaded, y.wanted = x.wanted,
         y.waits = x.waits, y.unchecked = x.unchecked, y.cdn = x.cdn,
         y.astray = x.astray, y.state = x.state
  PROVE  TaskOK(f, y, S, {x.next}, W)
<1>1. /\ y.next = x.next + 1 /\ y.loaded = x.loaded /\ y.wanted = x.wanted
      /\ y.waits = x.waits /\ y.unchecked = x.unchecked /\ y.cdn = x.cdn
      /\ y.astray = x.astray /\ y.state = x.state
  OBVIOUS
<1>2. x.next \in Nat /\ Parts[f] \in Nat /\ f \notin Streams /\ f \in Tasks
  BY DownloadsAssumption DEF TaskStates, Tasks
<1>3. Taken(y) = Taken(x) \cup {x.next} /\ x.next \notin Taken(x)
  BY <1>1, <1>2 DEF Taken
<1>4. FileOK(f, x, S, {})
  BY <1>2 DEF TaskOK
<1>5. FileOK(f, y, S, {x.next})
  BY <1>1, <1>2, <1>3, <1>4 DEF FileOK
<1>6. ASSUME NeatOK(x, S, {}, W)
      PROVE  NeatOK(y, S, {x.next}, W)
  <2>1. Wanted(x) = {} /\ Wanted(y) = {}
    BY <1>1, <1>4 DEF FileOK, Wanted
  <2>2. Out(S) \subseteq Offs(S)
    BY DEF Out, Offs
  <2>3. x.next \notin x.loaded \cup Out(S) \cup DOMAIN x.unchecked
    BY <1>3, <1>4, <2>2 DEF FileOK
  <2> QED
    BY <1>1, <1>6, <2>1, <2>3 DEF NeatOK
<1> QED
  BY <1>1, <1>2, <1>5, <1>6 DEF TaskOK

\* A part that a stream wants is taken.
LEMMA WantedTakenOK ==
  ASSUME NEW s \in Streams, NEW x \in TaskStates, NEW S, NEW W, NEW w \in x.wanted,
         TaskOK(s, x, S, {}, W), NEW y \in TaskStates,
         y.next = x.next, y.loaded = x.loaded, y.wanted = x.wanted \ {w},
         y.waits = x.waits, y.unchecked = x.unchecked, y.cdn = x.cdn,
         y.astray = x.astray, y.state = x.state
  PROVE  TaskOK(s, y, S, {w[2]}, W)
<1>1. /\ y.next = x.next /\ y.loaded = x.loaded /\ y.wanted = x.wanted \ {w}
      /\ y.waits = x.waits /\ y.unchecked = x.unchecked /\ y.cdn = x.cdn
      /\ y.astray = x.astray /\ y.state = x.state
  OBVIOUS
<1>2. s \notin Files /\ s \in Tasks
  BY DownloadsAssumption DEF Tasks
<1>3. Wanted(y) \subseteq Wanted(x) /\ w[2] \in Wanted(x) /\ Wanted(x) \subseteq Wanted(y) \cup {w[2]}
  BY <1>1 DEF Wanted
<1>4. StreamOK(s, y, S, {w[2]})
  BY <1>1, <1>2, <1>3 DEF StreamOK, TaskOK
<1>5. ASSUME NeatOK(x, S, {}, W)
      PROVE  NeatOK(y, S, {w[2]}, W)
  <2>1. w[2] \notin Wanted(y)
    BY <1>1, <1>5 DEF NeatOK, Wanted
  <2>0. x.loaded = {}
    BY <1>2 DEF TaskOK, StreamOK
  <2>2. w[2] \notin x.loaded \cup Out(S) \cup DOMAIN x.unchecked
    BY <1>3, <1>5, <2>0 DEF NeatOK
  <2>3. \A v, u \in y.wanted : v[2] = u[2] => v = u
    BY <1>1, <1>5 DEF NeatOK
  <2>4. /\ Wanted(y) \cap (Out(S) \cup DOMAIN x.unchecked \cup {w[2]}) = {}
        /\ y.waits \subseteq Wanted(y) \cup Out(S) \cup DOMAIN x.unchecked \cup {w[2]} \cup W
    BY <1>1, <1>3, <1>5, <2>1 DEF NeatOK
  <2> QED
    BY <1>1, <1>5, <2>0, <2>2, <2>3, <2>4 DEF NeatOK
<1> QED
  BY <1>1, <1>2, <1>4, <1>5 DEF TaskOK

-----------------------------------------------------------------------------
(* Requests are placed and end. *)

\* The constants are numbers.
LEMMA ConstantsAre ==
  /\ StartWaited \in Nat /\ MaxWaited \in Nat /\ MaxSessions \in Nat /\ RetrySuccesses \in Nat
  /\ MaxRemoves \in Nat /\ RemoveAfter \in Nat
  /\ MaxSessions > 1 /\ MaxRemoves > 0
  /\ Much \in Nat /\ RetrySuccesses * MaxRemoves \in Nat
<1>1. \A a, b \in Nat : a * b \in Nat
  OBVIOUS
<1>2. /\ StartWaited \in Nat /\ MaxWaited \in Nat /\ MaxSessions \in Nat
      /\ RetrySuccesses \in Nat /\ MaxRemoves \in Nat /\ RemoveAfter \in Nat
      /\ MaxSessions > 1 /\ MaxRemoves > 0
  BY DownloadsAssumption
<1> QED
  BY <1>1, <1>2 DEF Much

\* A task has parts, and is a file or a stream.
LEMMA TasksAre ==
  /\ \A t \in Tasks : Parts[t] \in Nat /\ Parts[t] > 0 /\ Offsets(t) = 0 .. Parts[t] - 1
  /\ Files \subseteq Tasks /\ Streams \subseteq Tasks /\ Files \cap Streams = {}
  /\ \A t \in Tasks : t \in Files \/ t \in Streams
BY DownloadsAssumption DEF Tasks, Offsets

\* The sessions of a manager.
LEMMA SessionsAre ==
  ASSUME NEW m, Typed(m)
  PROVE  /\ DOMAIN m.sessions = 1 .. Len(m.sessions) /\ Len(m.sessions) \in Positive
         /\ \A s \in DOMAIN m.sessions : m.sessions[s] \in Sessions
BY DEF Typed, Managers, Positive

\* How many there are of some of the requests.
LEMMA CountOfRequests ==
  ASSUME NEW R, IsFiniteSet(R), NEW Q \in SUBSET R
  PROVE  IsFiniteSet(Q) /\ Cardinality(Q) \in Nat
BY FS_Subset, FS_CardinalityType

\* A session is chosen.
LEMMA ChooseSessionIs ==
  ASSUME NEW m, Typed(m)
  PROVE  ChooseSession(m) \in DOMAIN m.sessions /\ ChooseSession(m) \in Positive
<1> DEFINE N == Len(m.sessions)
           f == [s \in 1 .. N |-> m.sessions[s].requested]
           S == { s \in DOMAIN m.sessions : \A k \in DOMAIN m.sessions :
                    m.sessions[s].requested <= m.sessions[k].requested }
<1>1. /\ DOMAIN m.sessions = 1 .. N /\ N \in Nat /\ N > 0
      /\ \A s \in DOMAIN m.sessions : m.sessions[s] \in Sessions
  BY SessionsAre DEF Positive
<1>2. f \in [1 .. N -> Int]
  BY <1>1 DEF Sessions
<1>3. S = { s \in 1 .. N : \A k \in 1 .. N : f[s] <= f[k] }
  <2>1. \A s \in 1 .. N : f[s] = m.sessions[s].requested
    OBVIOUS
  <2> HIDE DEF f, N
  <2> QED
    BY <1>1, <2>1
<1>4. Min(S) \in 1 .. N
  <2> HIDE DEF f, S, N
  <2> QED
    BY <1>1, <1>2, <1>3, LeastPlaceIs
<1>5. ChooseSession(m) = Min(S)
  BY DEF ChooseSession
<1> HIDE DEF S
<1> QED
  BY <1>1, <1>4, <1>5 DEF Positive

\* A session that is found best is one.
LEMMA BestSessionIs ==
  ASSUME NEW m, Typed(m), BestSession(m) # 0
  PROVE  BestSession(m) \in DOMAIN m.sessions /\ BestSession(m) \in Positive
<1> DEFINE N == Len(m.sessions)
           load(s) == IF m.sessions[s].requested < m.sessions[s].max
                      THEN m.sessions[s].requested ELSE MaxWaited
           f == [s \in 1 .. N |-> load(s)]
           S == { s \in DOMAIN m.sessions : \A k \in DOMAIN m.sessions : load(s) <= load(k) }
<1>1. /\ DOMAIN m.sessions = 1 .. N /\ N \in Nat /\ N > 0
      /\ \A s \in DOMAIN m.sessions : m.sessions[s] \in Sessions
  BY SessionsAre DEF Positive
<1>2. f \in [1 .. N -> Int]
  BY <1>1, ConstantsAre DEF Sessions
<1>3. S = { s \in 1 .. N : \A k \in 1 .. N : f[s] <= f[k] }
  <2>1. \A s \in 1 .. N : f[s] = load(s)
    OBVIOUS
  <2>2. PICK D : D = DOMAIN m.sessions /\ D = 1 .. N
    BY <1>1
  <2>3. S = { s \in D : \A k \in D : load(s) <= load(k) }
    BY Zenon, <2>2
  <2> HIDE DEF f, load, N, S
  <2> QED
    BY <2>1, <2>2, <2>3
<1>4. Min(S) \in 1 .. N
  <2>1. N \in Nat /\ N > 0
    BY <1>1
  <2> HIDE DEF f, S, N
  <2> QED
    BY <1>2, <1>3, <2>1, LeastPlaceIs
<1>5. BestSession(m) = Min(S)
  BY Zenon DEF BestSession
<1> HIDE DEF S
<1>6. Min(S) \in DOMAIN m.sessions
  <2> HIDE DEF N
  <2> QED
    BY Zenon, <1>1, <1>4
<1>7. Min(S) \in Positive
  <2> HIDE DEF N
  <2>1. N \in Nat
    BY <1>1
  <2>2. \A k \in 1 .. N : k \in Positive
    BY <2>1 DEF Positive
  <2> QED
    BY Zenon, <1>4, <2>2
<1> QED
  BY Zenon, <1>5, <1>6, <1>7

\* The same sessions, with other amounts, and the same queue.
Framed(m, n) == DOMAIN n.sessions = DOMAIN m.sessions /\ n.queue = m.queue

\* A request is placed.
LEMMA PlaceIs ==
  ASSUME NEW m, Typed(m), NEW r \in Requests
  PROVE  /\ Typed(Place(m, r))
         /\ Place(m, r).task = m.task /\ Framed(m, Place(m, r))
         /\ \E a \in Int : Place(m, r).sent = m.sent \cup {[r EXCEPT !.amount = a]}
<1> DEFINE s == r.session
           a == IF s \in DOMAIN m.sessions /\ r.kind \in {"part", "cdn"}
                THEN m.sessions[s].requested + 1 ELSE 0
           n == Place(m, r)
           q == [r EXCEPT !.amount = a]
           v == AddRequested(m, s)
<1>0. m \in Managers /\ m.sessions # <<>> /\ IsFiniteSet(m.sent)
  BY DEF Typed
<1>1. \A k \in DOMAIN m.sessions : m.sessions[k] \in Sessions
  BY SessionsAre
<1>2. a \in Int
  BY <1>1 DEF Sessions
<1>3. q \in Requests
  <2> HIDE DEF a
  <2> QED
    BY <1>2 DEF Requests, AnyRequests
<1>4. /\ v \in Managers /\ v.task = m.task /\ v.queue = m.queue /\ v.sent = m.sent
      /\ v.sessions # <<>> /\ DOMAIN v.sessions = DOMAIN m.sessions
  <2>1. CASE s \notin DOMAIN m.sessions
    <3>1. v = [m EXCEPT !.broken = @ \cup {"no such session"}]
      BY <2>1 DEF AddRequested
    <3> QED
      BY <1>0, <3>1 DEF Managers, Failures
  <2>2. CASE s \in DOMAIN m.sessions
    <3> DEFINE all == [m.sessions EXCEPT ![s].requested = @ + 1]
    <3>1. all \in Seq(Sessions) /\ all # <<>> /\ DOMAIN all = DOMAIN m.sessions
      <4>1. [m.sessions[s] EXCEPT !.requested = @ + 1] \in Sessions
        BY <1>1, <2>2 DEF Sessions
      <4>2. all = [m.sessions EXCEPT ![s] = [m.sessions[s] EXCEPT !.requested = @ + 1]]
        OBVIOUS
      <4> HIDE DEF all
      <4>3. m.sessions \in Seq(Sessions)
        BY <1>0 DEF Managers
      <4> QED
        BY <1>0, <2>2, <4>1, <4>2, <4>3
    <3>2. v = [m EXCEPT !.sessions = all, !.total = @ + 1, !.kill = FALSE]
      BY <1>0, <2>2 DEF AddRequested, Managers
    <3> HIDE DEF all, v
    <3>3. m.total + 1 \in Int
      BY <1>0 DEF Managers
    <3> QED
      BY <1>0, <3>1, <3>2, <3>3 DEF Managers
  <2> QED
    BY <2>1, <2>2
<1>5. n = [v EXCEPT !.broken = @ \cup (IF r.offset \in Asked(m, r.task) THEN {"asked twice"} ELSE {}),
                    !.sent = @ \cup {q}]
  BY DEF Place
<1> HIDE DEF n, v, q
<1>6. /\ n \in Managers /\ n.task = m.task /\ n.queue = m.queue /\ n.sent = m.sent \cup {q}
      /\ n.sessions # <<>> /\ DOMAIN n.sessions = DOMAIN m.sessions
  <2> DEFINE b == IF r.offset \in Asked(m, r.task) THEN {"asked twice"} ELSE {}
  <2>1. b \in SUBSET Failures
    BY DEF Failures
  <2> HIDE DEF b
  <2> QED
    BY <1>3, <1>4, <1>5, <2>1 DEF Managers, b
<1>7. IsFiniteSet(m.sent \cup {q})
  BY <1>0, FS_AddElement
<1> HIDE DEF a
<1> QED
  BY <1>2, <1>6, <1>7 DEF Typed, Framed, n, q

\* Requests end.
LEMMA FinishIs ==
  ASSUME NEW m, Typed(m), NEW R \in SUBSET Requests, IsFiniteSet(R)
  PROVE  /\ Typed(Finish(m, R))
         /\ Finish(m, R).task = m.task /\ Framed(m, Finish(m, R))
         /\ Finish(m, R).sent = m.sent \ R
<1> DEFINE c(s) == Cardinality({ r \in R : r.session = s })
           known == { r \in R : r.session \in DOMAIN m.sessions }
           left == [s \in DOMAIN m.sessions |-> [m.sessions[s] EXCEPT !.requested = @ - c(s)]]
           kill == m.kill \/ (known # {} /\ \A s \in DOMAIN left : left[s].requested <= 0)
           more == IF known = R THEN {} ELSE {"no such session"}
           n == Finish(m, R)
<1>0. m \in Managers /\ m.sessions # <<>> /\ IsFiniteSet(m.sent)
  BY DEF Typed
<1>1. /\ DOMAIN m.sessions = 1 .. Len(m.sessions) /\ Len(m.sessions) \in Positive
      /\ \A k \in DOMAIN m.sessions : m.sessions[k] \in Sessions
  BY SessionsAre
<1>2. \A s : c(s) \in Nat
  BY CountOfRequests
<1>3. Cardinality(known) \in Nat
  BY CountOfRequests
<1>4. left \in Seq(Sessions) /\ left # <<>> /\ DOMAIN left = DOMAIN m.sessions
  <2>1. \A s \in DOMAIN m.sessions : [m.sessions[s] EXCEPT !.requested = @ - c(s)] \in Sessions
    <3> HIDE DEF c
    <3> QED
      BY <1>1, <1>2 DEF Sessions
  <2> DEFINE of(s) == [m.sessions[s] EXCEPT !.requested = @ - c(s)]
  <2>2. left = [s \in 1 .. Len(m.sessions) |-> of(s)]
    BY <1>1
  <2>3. \A s \in 1 .. Len(m.sessions) : of(s) \in Sessions
    BY <1>1, <2>1
  <2> HIDE DEF of, left
  <2>4. left \in Seq(Sessions) /\ DOMAIN left = 1 .. Len(m.sessions)
    BY <1>1, <2>2, <2>3 DEF Positive
  <2>5. 1 \in DOMAIN left
    BY <1>1, <2>4 DEF Positive
  <2> QED
    BY <1>1, <2>4, <2>5
<1>5. more \in SUBSET Failures
  BY DEF Failures
<1>6. kill \in BOOLEAN
  BY <1>0 DEF Managers
<1>7. n = [[m EXCEPT !.sent = @ \ R] EXCEPT
             !.sessions = left, !.total = @ - Cardinality(known), !.kill = kill,
             !.broken = @ \cup more]
  BY <1>0 DEF Finish, RemoveRequested, Managers
<1> HIDE DEF left, known, kill, more, n
<1>8. /\ n \in Managers /\ n.task = m.task /\ n.queue = m.queue /\ n.sent = m.sent \ R
      /\ n.sessions # <<>> /\ DOMAIN n.sessions = DOMAIN m.sessions
  <2>1. m.total - Cardinality(known) \in Int
    BY <1>0, <1>3 DEF Managers
  <2> QED
    BY <1>0, <1>4, <1>5, <1>6, <1>7, <2>1 DEF Managers
<1>9. IsFiniteSet(m.sent \ R)
  BY <1>0, FS_Difference
<1> QED
  BY <1>8, <1>9 DEF Typed, Framed, n

\* The requests of a task.
LEMMA SentOfIs ==
  ASSUME NEW m, Typed(m), NEW t \in Tasks
  PROVE  /\ SentOf(m, t) \in SUBSET Requests /\ SentOf(m, t) \subseteq m.sent
         /\ IsFiniteSet(SentOf(m, t)) /\ \A r \in SentOf(m, t) : r.task = t
         /\ m.task[t] \in TaskStates /\ DOMAIN m.task = Tasks
<1>1. m \in Managers /\ IsFiniteSet(m.sent)
  BY DEF Typed
<1>2. SentOf(m, t) \subseteq m.sent
  BY DEF SentOf
<1>3. IsFiniteSet(SentOf(m, t))
  BY <1>1, <1>2, FS_Subset
<1> QED
  BY <1>1, <1>2, <1>3 DEF SentOf, Managers

\* A part in hand is asked for.
LEMMA RequestMadeGood ==
  ASSUME NEW m, NEW t \in Tasks, NEW H, NEW E, Good(m, t, H, E),
         NEW r \in Requests, r.task = t, r.offset \in H, r.kind # "hashes",
         KindOK(m.task[t], r.kind), t \in Files => m.task[t].state = "on",
         NEW G, Without(H, G, r.offset, m.task[t].astray)
  PROVE  /\ Good(Place(m, r), t, G, E) /\ Framed(m, Place(m, r))
         /\ Place(m, r).task = m.task /\ SentOf(m, t) \subseteq SentOf(Place(m, r), t)
<1> DEFINE n == Place(m, r)
           o == r.offset
<1>1. Typed(m) /\ QueueOK(m)
  BY DEF Good
<1>2. Typed(n) /\ n.task = m.task /\ Framed(m, n)
  BY <1>1, PlaceIs
<1>3. PICK a \in Int : n.sent = m.sent \cup {[r EXCEPT !.amount = a]}
  BY <1>1, PlaceIs
<1> DEFINE q == [r EXCEPT !.amount = a]
<1>4. q \in Requests /\ q.task = t /\ q.offset = o /\ q.kind = r.kind
  BY DEF Requests, AnyRequests
<1>5. n.sent = m.sent \cup {q}
  BY <1>3
<1> HIDE DEF n, q
<1>6. SentOf(n, t) = SentOf(m, t) \cup {q} /\ \A u \in Tasks : u # t => SentOf(n, u) = SentOf(m, u)
  BY <1>4, <1>5 DEF SentOf
<1>7. TaskOK(t, m.task[t], SentOf(m, t), H, PartsIn(E, t))
  BY DEF Good
<1>8. TaskOK(t, m.task[t], SentOf(m, t) \cup {q}, G, PartsIn(E, t))
  <2>1. m.task[t] \in TaskStates /\ SentOf(m, t) \in SUBSET Requests
    BY <1>1, SentOfIs
  <2>2. q.offset \in H
    BY <1>4
  <2>3. TaskOK(t, m.task[t], SentOf(m, t) \cup {q}, G, PartsIn(E, t))
    BY <1>4, <1>7, <2>1, <2>2, MadeOK
  <2> QED
    BY <1>4, <2>3
<1>9. QueueOK(n)
  BY <1>1, <1>2 DEF QueueOK, InQueue, Framed
<1>10. ASSUME NEW u \in Tasks
       PROVE  TaskOK(u, n.task[u], SentOf(n, u), IF u = t THEN G ELSE {},
                     PartsIn(E, u))
  BY <1>2, <1>6, <1>8 DEF Good
<1> QED
  BY <1>2, <1>6, <1>9, <1>10 DEF Good, n

\* Part o, which is in hand, is asked for again by makeRequest().
LEMMA MakeRequestGood ==
  ASSUME NEW m, NEW t \in Tasks, NEW H, NEW E, Good(m, t, H, E),
         NEW o \in H, o \in Nat, NEW s \in Positive, t \in Files => m.task[t].state = "on",
         NEW G, Without(H, G, o, m.task[t].astray)
  PROVE  /\ Good(MakeRequest(m, t, o, s), t, G, E) /\ Framed(m, MakeRequest(m, t, o, s))
         /\ MakeRequest(m, t, o, s).task = m.task
         /\ SentOf(m, t) \subseteq SentOf(MakeRequest(m, t, o, s), t)
<1> DEFINE r == Request(t, o, IF m.task[t].cdn THEN "cdn" ELSE "part", s)
<1>1. /\ r \in Requests /\ r.task = t /\ r.offset = o
      /\ r.kind = IF m.task[t].cdn THEN "cdn" ELSE "part"
  BY DEF Request, Requests, AnyRequests
<1>2. MakeRequest(m, t, o, s) = Place(m, r)
  BY DEF MakeRequest
<1> HIDE DEF r
<1>3. r.kind # "hashes" /\ KindOK(m.task[t], r.kind)
  BY <1>1 DEF KindOK
<1>4. r.offset \in H /\ Without(H, G, r.offset, m.task[t].astray)
  BY <1>1
<1>5. /\ Good(Place(m, r), t, G, E) /\ Framed(m, Place(m, r))
      /\ Place(m, r).task = m.task /\ SentOf(m, t) \subseteq SentOf(Place(m, r), t)
  BY <1>1, <1>3, <1>4, RequestMadeGood
<1> QED
  BY <1>2, <1>5

\* The only part in hand is asked for.
LEMMA AllMade ==
  ASSUME NEW m, NEW t \in Tasks, NEW E, NEW o \in Nat, Good(m, t, {o}, E),
         NEW s \in Positive, t \in Files => m.task[t].state = "on"
  PROVE  /\ Good(MakeRequest(m, t, o, s), t, {}, E) /\ Framed(m, MakeRequest(m, t, o, s))
         /\ MakeRequest(m, t, o, s).task = m.task
         /\ SentOf(m, t) \subseteq SentOf(MakeRequest(m, t, o, s), t)
<1> DEFINE H == {o}
           G == {}
<1>1. Good(m, t, H, E) /\ o \in H /\ Without(H, G, o, m.task[t].astray)
  BY DEF Without
<1>2. /\ Good(MakeRequest(m, t, o, s), t, G, E)
      /\ Framed(m, MakeRequest(m, t, o, s)) /\ MakeRequest(m, t, o, s).task = m.task
      /\ SentOf(m, t) \subseteq SentOf(MakeRequest(m, t, o, s), t)
  <2> HIDE DEF H, G
  <2> QED
    BY <1>1, MakeRequestGood
<1> QED
  BY <1>2

\* Nothing in hand.
LEMMA FineIsGood ==
  ASSUME NEW m, NEW t \in Tasks
  PROVE  Fine(m) <=> Good(m, t, {}, {})
<1>1. \A u \in Tasks : PartsIn({}, u) = {}
  BY DEF PartsIn
<1> QED
  BY <1>1 DEF Fine, Good

\* Requests of a task are over, and their parts in hand.
LEMMA FinishGood ==
  ASSUME NEW m, NEW t \in Tasks, NEW H, NEW E, Good(m, t, H, E), NEW R \in SUBSET SentOf(m, t)
  PROVE  /\ Good(Finish(m, R), t, H \cup Out(R), E)
         /\ Finish(m, R).task = m.task /\ Framed(m, Finish(m, R))
         /\ SentOf(Finish(m, R), t) = SentOf(m, t) \ R
<1> DEFINE n == Finish(m, R)
<1>1. Typed(m) /\ QueueOK(m)
  BY DEF Good
<1>2. R \in SUBSET Requests /\ IsFiniteSet(R) /\ \A r \in R : r.task = t
  BY <1>1, SentOfIs, FS_Subset
<1>3. Typed(n) /\ n.task = m.task /\ Framed(m, n) /\ n.sent = m.sent \ R
  BY <1>1, <1>2, FinishIs
<1> HIDE DEF n
<1>4. SentOf(n, t) = SentOf(m, t) \ R /\ \A u \in Tasks : u # t => SentOf(n, u) = SentOf(m, u)
  BY <1>2, <1>3 DEF SentOf
<1>5. TaskOK(t, m.task[t], SentOf(m, t), H, PartsIn(E, t))
  BY DEF Good
<1>6. TaskOK(t, m.task[t], SentOf(m, t) \ R, H \cup Out(R), PartsIn(E, t))
  BY <1>1, <1>5, SentOfIs, FinishedOK
<1>7. QueueOK(n)
  BY <1>1, <1>3 DEF QueueOK, InQueue, Framed
<1>8. ASSUME NEW u \in Tasks
      PROVE  TaskOK(u, n.task[u], SentOf(n, u), IF u = t THEN H \cup Out(R) ELSE {},
                    PartsIn(E, u))
  BY <1>3, <1>4, <1>6 DEF Good
<1> QED
  BY <1>3, <1>4, <1>7, <1>8 DEF Good, n

\* One request is over.
LEMMA OneFinished ==
  ASSUME NEW m, NEW t \in Tasks, NEW E, Good(m, t, {}, E), NEW r \in SentOf(m, t)
  PROVE  /\ Good(Finish(m, {r}), t, Out({r}), E)
         /\ Finish(m, {r}).task = m.task /\ Framed(m, Finish(m, {r}))
         /\ SentOf(Finish(m, {r}), t) = SentOf(m, t) \ {r}
<1>1. PICK R : R = {r}
  OBVIOUS
<1>2. R \in SUBSET SentOf(m, t)
  BY <1>1
<1>3. PICK K : K = {}
  OBVIOUS
<1>4. Good(m, t, K, E)
  BY <1>3
<1>5. /\ Good(Finish(m, R), t, K \cup Out(R), E)
      /\ Finish(m, R).task = m.task /\ Framed(m, Finish(m, R))
      /\ SentOf(Finish(m, R), t) = SentOf(m, t) \ R
  BY <1>2, <1>4, FinishGood
<1>6. K \cup Out(R) = Out({r})
  BY <1>1, <1>3
<1> QED
  BY <1>1, <1>5, <1>6

\* With nothing in hand, it does not matter whose hand.
LEMMA AnyGood ==
  ASSUME NEW m, NEW a, NEW b, NEW E, Good(m, a, {}, E)
  PROVE  Good(m, b, {}, E)
BY DEF Good

\* Fields that the invariant only types.
LEMMA SameGood ==
  ASSUME NEW m, NEW a, NEW H, NEW E, Good(m, a, H, E), NEW n, Typed(n),
         n.task = m.task, n.queue = m.queue, n.sent = m.sent
  PROVE  Good(n, a, H, E)
<1>1. QueueOK(m) /\ \A t : SentOf(n, t) = SentOf(m, t)
  BY DEF Good, SentOf
<1>2. QueueOK(n)
  BY <1>1 DEF QueueOK, InQueue
<1>3. ASSUME NEW t \in Tasks
      PROVE  TaskOK(t, n.task[t], SentOf(n, t), IF t = a THEN H ELSE {}, PartsIn(E, t))
  BY <1>1 DEF Good
<1> QED
  BY <1>2, <1>3 DEF Good

\* The history of room that nobody looked at says nothing about parts.
LEMMA IdleGood ==
  ASSUME NEW m, NEW a, NEW H, NEW E, Good(m, a, H, E), NEW b \in BOOLEAN
  PROVE  Good([m EXCEPT !.idle = b], a, H, E)
<1> DEFINE n == [m EXCEPT !.idle = b]
<1>1. m \in Managers /\ Typed(m)
  BY DEF Good, Typed
<1>2. /\ n \in Managers /\ n.task = m.task /\ n.queue = m.queue /\ n.sent = m.sent
      /\ n.sessions = m.sessions
  BY <1>1 DEF Managers
<1> HIDE DEF n
<1>3. Typed(n)
  BY <1>1, <1>2 DEF Typed
<1>4. Good(n, a, H, E)
  BY <1>2, <1>3, SameGood
<1> QED
  BY <1>4 DEF n

\* The record of a task is changed.
LEMMA PutGood ==
  ASSUME NEW m, NEW t \in Tasks, NEW H, NEW E, Good(m, t, H, E),
         NEW y \in TaskStates, NEW G, NEW F,
         TaskOK(t, y, SentOf(m, t), G, PartsIn(F, t)),
         \A u \in Tasks : u # t => PartsIn(F, u) = PartsIn(E, u),
         t \in Files => y.state = "on" \/ ~InQueue(m, t)
  PROVE  /\ Good(Put(m, t, y), t, G, F)
         /\ Put(m, t, y).task[t] = y
         /\ Put(m, t, y).sent = m.sent /\ Put(m, t, y).queue = m.queue
         /\ Framed(m, Put(m, t, y))
<1> DEFINE n == Put(m, t, y)
<1>1. Typed(m) /\ QueueOK(m)
  BY DEF Good
<1>2. m \in Managers /\ m.task \in [Tasks -> TaskStates]
  BY <1>1 DEF Typed, Managers
<1> DEFINE f == [m.task EXCEPT ![t] = y]
<1>3. f \in [Tasks -> TaskStates] /\ f[t] = y /\ \A u \in Tasks : u # t => f[u] = m.task[u]
  BY <1>2
<1>4. n = [m EXCEPT !.task = f]
  BY DEF Put
<1> HIDE DEF f, n
<1>5. /\ n \in Managers /\ n.task = f /\ n.sent = m.sent /\ n.queue = m.queue
      /\ n.sessions = m.sessions
  BY <1>2, <1>3, <1>4 DEF Managers
<1>6. Typed(n)
  BY <1>1, <1>5 DEF Typed
<1>7. \A u \in Tasks : SentOf(n, u) = SentOf(m, u)
  BY <1>5 DEF SentOf
<1>8. QueueOK(n)
  <2>1. \A u : InQueue(n, u) <=> InQueue(m, u)
    BY <1>5 DEF InQueue
  <2>2. \A u \in Files : InQueue(n, u) => n.task[u].state = "on"
    BY <1>1, <1>3, <1>5, <2>1, TasksAre DEF QueueOK
  <2> QED
    BY <1>1, <1>5, <2>2 DEF QueueOK
<1>9. ASSUME NEW u \in Tasks
      PROVE  TaskOK(u, n.task[u], SentOf(n, u), IF u = t THEN G ELSE {}, PartsIn(F, u))
  BY <1>3, <1>5, <1>7 DEF Good
<1> QED
  BY <1>3, <1>5, <1>6, <1>7, <1>8, <1>9 DEF Good, Framed, f, n

\* The record of a task is replaced by one that is well with the same requests.
LEMMA PutSame ==
  ASSUME NEW m, NEW t \in Tasks, NEW H, NEW E, Good(m, t, H, E),
         NEW y \in TaskStates, NEW G, TaskOK(t, y, SentOf(m, t), G, PartsIn(E, t)),
         t \in Files => y.state = "on" \/ ~InQueue(m, t)
  PROVE  /\ Good(Put(m, t, y), t, G, E)
         /\ Put(m, t, y).task[t] = y
         /\ Put(m, t, y).sent = m.sent /\ Put(m, t, y).queue = m.queue
         /\ Framed(m, Put(m, t, y))
<1>1. \A u \in Tasks : u # t => PartsIn(E, u) = PartsIn(E, u)
  OBVIOUS
<1> QED
  BY <1>1, PutGood

-----------------------------------------------------------------------------
(* The queue is looked at. *)

\* A part of a task is asked for.
LEMMA LoadPartGood ==
  ASSUME NEW m, NEW a, NEW E, Good(m, a, {}, E), NEW t \in Tasks, ReadyToRequest(m, t),
         NEW s \in Positive, t \in Files => m.task[t].state = "on"
  PROVE  Good(LoadPart(m, t, s), a, {}, E)
<1> DEFINE x == m.task[t]
<1>0. Good(m, t, {}, E)
  BY AnyGood
<1>1. Typed(m) /\ x \in TaskStates /\ TaskOK(t, x, SentOf(m, t), {}, PartsIn(E, t))
  <2>1. Typed(m) /\ TaskOK(t, x, SentOf(m, t), {}, PartsIn(E, t))
    BY <1>0 DEF Good
  <2> QED
    BY <2>1, SentOfIs
<1>2. CASE t \in Files
  <2> DEFINE y == [x EXCEPT !.next = @ + 1]
             n == [m EXCEPT !.task[t] = y]
  <2>1. x.next \in Nat /\ x.next < Parts[t] /\ x.state = "on"
    BY <1>1, <1>2 DEF ReadyToRequest, TaskStates
  <2>2. /\ y \in TaskStates /\ y.next = x.next + 1 /\ y.loaded = x.loaded /\ y.wanted = x.wanted
        /\ y.waits = x.waits /\ y.unchecked = x.unchecked /\ y.cdn = x.cdn
        /\ y.astray = x.astray /\ y.state = x.state
    BY <1>1 DEF TaskStates
  <2>3. LoadPart(m, t, s) = MakeRequest(n, t, x.next, s)
    BY <1>2 DEF LoadPart
  <2> HIDE DEF y, x, n
  <2>4. TaskOK(t, y, SentOf(m, t), {x.next}, PartsIn(E, t))
    BY <1>1, <1>2, <2>1, <2>2, TakenOK
  <2>5. Good(Put(m, t, y), t, {x.next}, E) /\ Put(m, t, y).task[t] = y
    <3>1. t \in Files => y.state = "on"
      BY <2>1, <2>2
    <3>2. PICK G : G = {x.next}
      OBVIOUS
    <3>3. TaskOK(t, y, SentOf(m, t), G, PartsIn(E, t)) /\ y \in TaskStates
      BY <2>2, <2>4, <3>2
    <3>4. Good(Put(m, t, y), t, G, E) /\ Put(m, t, y).task[t] = y
      BY <1>0, <3>1, <3>3, PutSame
    <3> QED
      BY <3>2, <3>4
  <2> n = Put(m, t, y)
    BY DEF Put, n
  <2>6. Good(LoadPart(m, t, s), t, {}, E)
    BY <2>1, <2>2, <2>3, <2>5, AllMade
  <2> QED
    BY <2>6, AnyGood
<1>3. CASE t \notin Files
  <2> DEFINE w == NextWanted(m, t)
             y == [x EXCEPT !.wanted = @ \ {w}]
             n == [m EXCEPT !.task[t] = y]
  <2>0. t \in Streams
    BY <1>3, TasksAre
  <2>1. x.wanted \in SUBSET ({ l \in Int : l <= 0 } \X Nat) /\ x.wanted # {}
    BY <1>1, <1>3 DEF ReadyToRequest, TaskStates
  <2>2. w \in x.wanted
    <3> HIDE DEF x
    <3>1. w = CHOOSE v \in x.wanted : \A u \in x.wanted : v[1] > u[1] \/ (v[1] = u[1] /\ v[2] <= u[2])
      BY DEF NextWanted, x
    <3> HIDE DEF w
    <3> QED
      BY <2>1, <3>1, NextWantedIs
  <2>3. w[2] \in Nat
    BY <2>1, <2>2
  <2>4. LoadPart(m, t, s) = MakeRequest(n, t, w[2], s)
    BY <1>3 DEF LoadPart
  <2> HIDE DEF w
  <2>5. /\ y \in TaskStates /\ y.next = x.next /\ y.loaded = x.loaded /\ y.wanted = x.wanted \ {w}
        /\ y.waits = x.waits /\ y.unchecked = x.unchecked /\ y.cdn = x.cdn
        /\ y.astray = x.astray /\ y.state = x.state
    BY <1>1 DEF TaskStates
  <2> HIDE DEF y, x, n
  <2>6. TaskOK(t, y, SentOf(m, t), {w[2]}, PartsIn(E, t))
    BY <1>1, <2>0, <2>2, <2>5, WantedTakenOK
  <2>7. Good(Put(m, t, y), t, {w[2]}, E) /\ Put(m, t, y).task[t] = y
    <3>1. PICK G : G = {w[2]}
      OBVIOUS
    <3>2. TaskOK(t, y, SentOf(m, t), G, PartsIn(E, t)) /\ y \in TaskStates
      BY <2>5, <2>6, <3>1
    <3>3. Good(Put(m, t, y), t, G, E) /\ Put(m, t, y).task[t] = y
      BY <1>0, <1>3, <3>2, PutSame
    <3> QED
      BY <3>1, <3>3
  <2> n = Put(m, t, y)
    BY DEF Put, n
  <2>8. Good(LoadPart(m, t, s), t, {}, E)
    BY <1>3, <2>3, <2>4, <2>7, AllMade
  <2> QED
    BY <2>8, AnyGood
<1> QED
  BY <1>2, <1>3

\* A round of the loop.
LEMMA SendNextGood ==
  ASSUME NEW m, NEW a, NEW E, Good(m, a, {}, E)
  PROVE  Good(SendNext(m), a, {}, E)
<1>1. CASE m.queue # <<>> /\ CanSend(m)
  <2> DEFINE k == Min(NextPlaces(m))
             t == m.queue[k].task
  <2>1. Typed(m) /\ QueueOK(m)
    BY DEF Good
  <2>2. m.queue \in Seq([task : Tasks, priority : Int])
    BY <2>1 DEF Typed, Managers
  <2>3. NextPlaces(m) \subseteq DOMAIN m.queue /\ NextPlaces(m) # {}
    BY <1>1 DEF NextPlaces, CanSend
  <2>4. NextPlaces(m) \in SUBSET Nat
    BY <2>2, <2>3
  <2>5. k \in NextPlaces(m)
    BY <2>3, <2>4, MinIs
  <2> HIDE DEF k
  <2>6. k \in DOMAIN m.queue /\ ReadyToRequest(m, t)
    BY <2>3, <2>5 DEF NextPlaces
  <2>7. t \in Tasks
    <3>2. m.queue[k] \in [task : Tasks, priority : Int]
      BY <2>2, <2>6, MembersAre
    <3> QED
      BY <3>2
  <2>8. t \in Files => m.task[t].state = "on"
    BY <2>1, <2>6 DEF QueueOK, InQueue
  <2>9. BestSession(m) \in Positive
    BY <1>1, <2>1, BestSessionIs DEF CanSend
  <2>10. SendNext(m) = LoadPart(m, t, BestSession(m))
    BY <1>1 DEF SendNext, k
  <2> HIDE DEF t
  <2> QED
    BY <2>6, <2>7, <2>8, <2>9, <2>10, LoadPartGood
<1>2. CASE ~(m.queue # <<>> /\ CanSend(m))
  BY <1>2 DEF SendNext
<1> QED
  BY <1>1, <1>2

\* There are finitely many parts.
LEMMA RoundsAre ==
  Rounds \in Nat
<1> DEFINE of(t) == {t} \X Offsets(t)
           S == { of(t) : t \in Tasks }
<1>1. IsFiniteSet(Tasks)
  BY DownloadsAssumption
<1>2. ASSUME NEW t \in Tasks
      PROVE  IsFiniteSet(of(t))
  <2>1. Parts[t] - 1 \in Int /\ Offsets(t) = 0 .. Parts[t] - 1
    BY TasksAre
  <2>2. IsFiniteSet(Offsets(t))
    BY <2>1, FS_Interval
  <2>3. IsFiniteSet({t})
    BY FS_Singleton
  <2> QED
    BY <2>2, <2>3, FS_Product
<1>3. IsFiniteSet(S)
  <2> DEFINE f == [t \in Tasks |-> of(t)]
  <2> HIDE DEF of
  <2>1. f \in Surjection(Tasks, S)
    BY DEF Surjection
  <2> HIDE DEF S, f
  <2> QED
    BY <1>1, <2>1, FS_Surjection
<1>4. IsFiniteSet(UNION S)
  <2>1. \A T \in S : IsFiniteSet(T)
    BY <1>2
  <2> HIDE DEF S
  <2> QED
    BY <1>3, <2>1, FS_UNION
<1> QED
  BY <1>4, FS_CardinalityType DEF Rounds

-----------------------------------------------------------------------------
(* Loops: a function over the rounds, where D are the states each may be in. *)

\* The only member of a set.
LEMMA TheIs ==
  ASSUME NEW x
  PROVE  The({x}) = x
BY DEF The

\* The rounds F of a loop, and what it goes through when it starts with a.
Advances(N, V, D, F) ==
  /\ D \in SUBSET ((0 .. N) \X V)
  /\ \A n \in 1 .. N : \A v : <<n - 1, v>> \in D => <<n, F[<<n - 1, v>>]>> \in D

Loops(g, N, V, D, F, a) ==
  /\ g \in [0 .. N -> V] /\ g[0] = a
  /\ \A n \in 1 .. N : <<n - 1, g[n - 1]>> \in D /\ g[n] = F[<<n - 1, g[n - 1]>>]

Remains(N, D, g) ==
  \A n \in 1 .. N : <<n - 1, g[n - 1]>> \in D => <<n, g[n]>> \in D

\* There is such a function.
LEMMA LoopExists ==
  ASSUME NEW N \in Nat, NEW V, NEW D, NEW F, NEW a, <<0, a>> \in D, Advances(N, V, D, F)
  PROVE  \E g : Loops(g, N, V, D, F, a)
<1> USE DEF Advances, Loops
<1> DEFINE Keeps(g, n) ==
             /\ g[0] = a /\ <<n, g[n]>> \in D
             /\ \A k \in 1 .. n : <<k - 1, g[k - 1]>> \in D /\ g[k] = F[<<k - 1, g[k - 1]>>]
           Has(n) == \E g \in [0 .. n -> V] : Keeps(g, n)
<1>1. ASSUME NEW n \in 1 .. N, Has(n - 1)
      PROVE  Has(n)
  <2>1. PICK g \in [0 .. n - 1 -> V] : Keeps(g, n - 1)
    BY <1>1
  <2> DEFINE h == [k \in 0 .. n |-> IF k = n THEN F[<<n - 1, g[n - 1]>>] ELSE g[k]]
  <2>2. h[n] = F[<<n - 1, g[n - 1]>>] /\ \A k \in 0 .. n - 1 : h[k] = g[k]
    OBVIOUS
  <2>3. h \in [0 .. n -> V]
    <3>1. <<n, F[<<n - 1, g[n - 1]>>]>> \in D
      BY <2>1
    <3>2. F[<<n - 1, g[n - 1]>>] \in V
      BY <3>1
    <3> QED
      BY <3>2
  <2> HIDE DEF h
  <2>4. <<n, h[n]>> \in D
    BY <2>1, <2>2
  <2>5. h[0] = a
    BY <2>1, <2>2
  <2>6. ASSUME NEW k \in 1 .. n
        PROVE  <<k - 1, h[k - 1]>> \in D /\ h[k] = F[<<k - 1, h[k - 1]>>]
    <3>1. h[k - 1] = g[k - 1]
      BY <2>2
    <3>2. CASE k = n
      BY <2>1, <2>2, <3>1, <3>2
    <3>3. CASE k # n
      <4>1. k \in 1 .. n - 1 /\ k \in 0 .. n - 1
        BY <3>3
      <4> QED
        BY <2>1, <2>2, <3>1, <4>1
    <3> QED
      BY <3>2, <3>3
  <2>7. Keeps(h, n)
    BY <2>4, <2>5, <2>6
  <2> HIDE DEF Keeps
  <2> QED
    BY <2>3, <2>7
<1>2. Has(0)
  <2> DEFINE g == [k \in 0 .. 0 |-> a]
  <2>1. g[0] = a /\ g \in [0 .. 0 -> V]
    OBVIOUS
  <2> HIDE DEF g
  <2>2. Keeps(g, 0)
    BY <2>1
  <2> HIDE DEF Keeps
  <2> QED
    BY <2>1, <2>2
<1>3. Has(N)
  <2> HIDE DEF Has
  <2> DEFINE X == { n \in 0 .. N : Has(n) }
  <2>1. 0 \in X /\ \A n \in 1 .. N : n - 1 \in X => n \in X
    BY <1>1, <1>2
  <2>2. N \in 0 .. N
    OBVIOUS
  <2>3. 0 .. N \subseteq X
    <3> HIDE DEF X
    <3> QED
      BY <2>1, UpTo
  <2> QED
    BY <2>2, <2>3
<1> QED
  BY <1>3

\* It ends as it should.
LEMMA LoopEnds ==
  ASSUME NEW N \in Nat, NEW D, NEW g, <<0, g[0]>> \in D, Remains(N, D, g)
  PROVE  <<N, g[N]>> \in D
<1> USE DEF Remains
<1> DEFINE X == { n \in 0 .. N : <<n, g[n]>> \in D }
<1>1. 0 \in X /\ \A n \in 1 .. N : n - 1 \in X => n \in X
  OBVIOUS
<1>2. N \in 0 .. N
  OBVIOUS
<1>3. 0 .. N \subseteq X
  <2> HIDE DEF X
  <2> QED
    BY <1>1, UpTo
<1> QED
  BY <1>2, <1>3

\* checkSendNext() keeps to what each of its rounds keeps to.
LEMMA CheckSendNextLoop ==
  ASSUME NEW P \in SUBSET Managers, NEW m \in P, \A v \in P : SendNext(v) \in P
  PROVE  \E v \in P : CheckSendNext(m) = [v EXCEPT !.idle = FALSE]
<1> DEFINE N == Rounds
           D == (0 .. N) \X P
           F == [p \in D |-> SendNext(p[2])]
           Round(g, n) == IF n = 0 THEN m ELSE The({ SendNext(v) : v \in {g[n - 1]} })
           Keeps(g) == g = [n \in 0 .. N |-> Round(g, n)]
           after == CHOOSE g : Keeps(g)
<1>0. N \in Nat
  BY RoundsAre
<1>1. CheckSendNext(m) = [after[N] EXCEPT !.idle = FALSE]
  BY DEF CheckSendNext
<1>2. \A g : Round(g, 0) = m
  OBVIOUS
<1>3. \A g, n : n # 0 => Round(g, n) = SendNext(g[n - 1])
  <2> SUFFICES ASSUME NEW g, NEW n, n # 0
               PROVE  Round(g, n) = SendNext(g[n - 1])
    OBVIOUS
  <2>1. { SendNext(v) : v \in {g[n - 1]} } = { SendNext(g[n - 1]) }
    OBVIOUS
  <2>2. The({ SendNext(v) : v \in {g[n - 1]} }) = SendNext(g[n - 1])
    BY <2>1, TheIs
  <2> QED
    BY <2>2
<1> HIDE DEF Round, after, N
<1>4. \A n \in 0 .. N : \A v : <<n, v>> \in D <=> v \in P
  OBVIOUS
<1>5. \A n \in 0 .. N : \A v : <<n, v>> \in D => F[<<n, v>>] = SendNext(v)
  OBVIOUS
<1> HIDE DEF D, F
<1>6. \A n \in 1 .. N : n - 1 \in 0 .. N /\ n \in 0 .. N /\ n # 0
  BY <1>0
<1>7. 0 \in 0 .. N /\ N \in 0 .. N
  BY <1>0
<1>8. <<0, m>> \in D
  BY <1>4, <1>7
<1>9. \A n \in 1 .. N : \A v : <<n - 1, v>> \in D => <<n, SendNext(v)>> \in D
  BY <1>4, <1>6
<1>10. Advances(N, Managers, D, F)
  <2>1. D \in SUBSET ((0 .. N) \X Managers)
    BY DEF D
  <2> QED
    BY <1>5, <1>6, <1>9, <2>1 DEF Advances
<1>11. PICK g : Loops(g, N, Managers, D, F, m)
  BY <1>0, <1>8, <1>10, LoopExists
<1>12. \A n \in 0 .. N : g[n] = Round(g, n)
  <2> SUFFICES ASSUME NEW n \in 0 .. N
               PROVE  g[n] = Round(g, n)
    OBVIOUS
  <2>1. CASE n = 0
    BY <1>2, <1>11, <2>1 DEF Loops
  <2>2. CASE n # 0
    <3>1. n \in 1 .. N
      BY <1>0, <2>2
    <3>2. <<n - 1, g[n - 1]>> \in D /\ g[n] = F[<<n - 1, g[n - 1]>>]
      BY <1>11, <3>1 DEF Loops
    <3>3. n - 1 \in 0 .. N
      BY <1>6, <3>1
    <3>4. g[n] = SendNext(g[n - 1])
      BY <1>5, <3>2, <3>3
    <3> QED
      BY <1>3, <2>2, <3>4
  <2> QED
    BY <2>1, <2>2
<1>13. Keeps(g)
  BY <1>11, <1>12 DEF Loops
<1>14. Keeps(after)
  BY <1>13 DEF after
<1>15. \A n \in 0 .. N : after[n] = Round(after, n)
  <2> HIDE DEF Keeps
  <2>1. \A h : Keeps(h) => \A n \in 0 .. N : h[n] = Round(h, n)
    BY DEF Keeps
  <2> QED
    BY <1>14, <2>1
<1>16. after[0] = m /\ \A n \in 1 .. N : after[n] = SendNext(after[n - 1])
  BY <1>2, <1>3, <1>6, <1>7, <1>15
<1>17. Remains(N, D, after)
  BY <1>9, <1>16 DEF Remains
<1>18. <<N, after[N]>> \in D
  BY <1>0, <1>8, <1>16, <1>17, LoopEnds
<1> QED
  BY <1>1, <1>4, <1>7, <1>18

\* checkSendNext()
LEMMA CheckSendNextGood ==
  ASSUME NEW m, NEW a, NEW E, Good(m, a, {}, E)
  PROVE  Good(CheckSendNext(m), a, {}, E)
<1> DEFINE P == { v \in Managers : Good(v, a, {}, E) }
<1>1. \A v : v \in P <=> Good(v, a, {}, E)
  BY DEF Good, Typed
<1>2. P \in SUBSET Managers
  OBVIOUS
<1> HIDE DEF P
<1>3. m \in P /\ \A v \in P : SendNext(v) \in P
  BY <1>1, SendNextGood
<1>4. PICK v \in P : CheckSendNext(m) = [v EXCEPT !.idle = FALSE]
  BY <1>2, <1>3, CheckSendNextLoop
<1>5. FALSE \in BOOLEAN
  OBVIOUS
<1> QED
  BY <1>1, <1>4, <1>5, IdleGood

-----------------------------------------------------------------------------
(* The queue changes. *)

\* A sequence without its member at place k.
LEMMA RemoveAtIs ==
  ASSUME NEW T, NEW q \in Seq(T), NEW k \in DOMAIN q
  PROVE  /\ RemoveAt(q, k) \in Seq(T) /\ Len(RemoveAt(q, k)) = Len(q) - 1
         /\ \A j \in DOMAIN RemoveAt(q, k) :
              RemoveAt(q, k)[j] = IF j < k THEN q[j] ELSE q[j + 1]
<1> DEFINE a == SubSeq(q, 1, k - 1)
           b == SubSeq(q, k + 1, Len(q))
<1>1. k \in 1 .. Len(q) /\ Len(q) \in Nat
  OBVIOUS
<1>2. /\ a \in Seq(T) /\ Len(a) = k - 1 /\ \A j \in 1 .. k - 1 : a[j] = q[j]
      /\ b \in Seq(T) /\ Len(b) = Len(q) - k /\ \A j \in 1 .. Len(q) - k : b[j] = q[k + j]
  BY <1>1
<1>3. RemoveAt(q, k) = a \o b
  BY DEF RemoveAt
<1> HIDE DEF a, b
<1>4. a \o b \in Seq(T) /\ Len(a \o b) = Len(q) - 1
  BY <1>1, <1>2
<1>5. ASSUME NEW j \in DOMAIN (a \o b)
      PROVE  (a \o b)[j] = IF j < k THEN q[j] ELSE q[j + 1]
  <2>1. j \in 1 .. Len(q) - 1
    BY <1>1, <1>4
  <2>2. CASE j < k
    <3>1. j \in 1 .. k - 1
      BY <1>1, <2>1, <2>2
    <3>2. (a \o b)[j] = a[j]
      BY <1>1, <1>2, <3>1
    <3> QED
      BY <1>2, <2>2, <3>1, <3>2
  <2>3. CASE ~(j < k)
    <3>1. j - (k - 1) \in 1 .. Len(q) - k
      BY <1>1, <2>1, <2>3
    <3>2. (a \o b)[j] = b[j - (k - 1)]
      BY <1>1, <1>2, <1>4, <2>1, <2>3
    <3>3. b[j - (k - 1)] = q[k + (j - (k - 1))]
      BY <1>2, <3>1
    <3>4. k + (j - (k - 1)) = j + 1
      BY <1>1, <2>1
    <3> QED
      BY <2>3, <3>2, <3>3, <3>4
  <2> QED
    BY <2>2, <2>3
<1> QED
  BY <1>3, <1>4, <1>5

\* A sequence with e inserted at place k.
LEMMA InsertAtIs ==
  ASSUME NEW T, NEW q \in Seq(T), NEW k \in 1 .. Len(q) + 1, NEW e \in T
  PROVE  /\ InsertAt(q, k, e) \in Seq(T) /\ Len(InsertAt(q, k, e)) = Len(q) + 1
         /\ \A j \in DOMAIN InsertAt(q, k, e) :
              InsertAt(q, k, e)[j] = IF j < k THEN q[j] ELSE IF j = k THEN e ELSE q[j - 1]
<1> DEFINE a == SubSeq(q, 1, k - 1)
           b == SubSeq(q, k, Len(q))
           c == a \o <<e>>
<1>1. Len(q) \in Nat /\ k \in Int /\ 1 <= k /\ k <= Len(q) + 1
  OBVIOUS
<1>2. /\ a \in Seq(T) /\ Len(a) = k - 1 /\ \A j \in 1 .. k - 1 : a[j] = q[j]
      /\ b \in Seq(T) /\ Len(b) = Len(q) - k + 1
      /\ \A j \in 1 .. Len(q) - k + 1 : b[j] = q[k + j - 1]
  BY <1>1
<1>3. InsertAt(q, k, e) = c \o b
  BY DEF InsertAt
<1> HIDE DEF a, b
<1>4. /\ c \in Seq(T) /\ Len(c) = k /\ \A j \in 1 .. k - 1 : c[j] = q[j]
      /\ c[k] = e
  <2>1. c \in Seq(T) /\ Len(c) = k
    BY <1>1, <1>2
  <2>2. \A j \in 1 .. k - 1 : c[j] = a[j]
    BY <1>1, <1>2
  <2>3. c[k] = e
    BY <1>1, <1>2
  <2> QED
    BY <1>2, <2>1, <2>2, <2>3
<1> HIDE DEF c
<1>5. c \o b \in Seq(T) /\ Len(c \o b) = Len(q) + 1
  <2>1. c \o b \in Seq(T) /\ Len(c \o b) = Len(c) + Len(b)
    BY <1>2, <1>4
  <2> QED
    BY <1>1, <1>2, <1>4, <2>1
<1>6. ASSUME NEW j \in DOMAIN (c \o b)
      PROVE  (c \o b)[j] = IF j < k THEN q[j] ELSE IF j = k THEN e ELSE q[j - 1]
  <2>1. j \in 1 .. Len(q) + 1
    BY <1>1, <1>5
  <2>2. CASE j <= k
    <3>1. j \in 1 .. Len(c)
      BY <1>1, <1>4, <2>1, <2>2
    <3>2. (c \o b)[j] = c[j]
      BY <1>2, <1>4, <3>1
    <3>3. j < k => j \in 1 .. k - 1
      BY <1>1, <2>1
    <3>4. j < k \/ j = k
      BY <1>1, <2>1, <2>2
    <3> QED
      BY <1>1, <1>4, <3>2, <3>3, <3>4
  <2>3. CASE ~(j <= k)
    <3>1. j - k \in 1 .. Len(q) - k + 1
      BY <1>1, <2>1, <2>3
    <3>2. (c \o b)[j] = b[j - k]
      BY <1>1, <1>2, <1>4, <1>5, <2>1, <2>3
    <3>3. b[j - k] = q[k + (j - k) - 1]
      BY <1>2, <3>1
    <3>4. k + (j - k) - 1 = j - 1 /\ ~(j < k) /\ j # k
      BY <1>1, <2>1, <2>3
    <3> QED
      BY <3>2, <3>3, <3>4
  <2> QED
    BY <2>2, <2>3
<1> QED
  BY <1>3, <1>5, <1>6

\* Where a task is.
LEMMA PlaceInQueueIs ==
  ASSUME NEW m, Typed(m), QueueOK(m), NEW t \in Tasks
  PROVE  IF InQueue(m, t)
         THEN PlaceInQueue(m, t) \in DOMAIN m.queue /\ m.queue[PlaceInQueue(m, t)].task = t
         ELSE PlaceInQueue(m, t) = 0
<1> DEFINE S == { k \in DOMAIN m.queue : m.queue[k].task = t }
<1>1. m.queue \in Seq([task : Tasks, priority : Int])
  BY DEF Typed, Managers
<1>2. DOMAIN m.queue \subseteq Positive
  BY <1>1 DEF Positive
<1>3. S \in SUBSET Positive /\ \A j, k \in S : j = k
  BY <1>2 DEF QueueOK
<1>4. S = {} <=> ~InQueue(m, t)
  BY DEF InQueue
<1>5. PlaceInQueue(m, t) = Max({0} \cup S)
  BY DEF PlaceInQueue
<1>6. IF S = {} THEN PlaceInQueue(m, t) = 0 ELSE PlaceInQueue(m, t) \in S
  <2> HIDE DEF S
  <2> QED
    BY <1>3, <1>5, MaxIs
<1> QED
  BY <1>4, <1>6

\* The queue of a manager is changed.
LEMMA QueueSetIs ==
  ASSUME NEW m, Typed(m), NEW q \in Seq([task : Tasks, priority : Int])
  PROVE  /\ Typed([m EXCEPT !.queue = q]) /\ [m EXCEPT !.queue = q].queue = q
         /\ [m EXCEPT !.queue = q].task = m.task /\ [m EXCEPT !.queue = q].sent = m.sent
<1>1. m \in Managers
  BY DEF Typed
<1> QED
  BY <1>1 DEF Typed, Managers

\* A task leaves the queue.
LEMMA UnqueueIs ==
  ASSUME NEW m, Typed(m), QueueOK(m), NEW t \in Tasks
  PROVE  /\ Typed(Unqueue(m, t)) /\ QueueOK(Unqueue(m, t))
         /\ Unqueue(m, t).task = m.task /\ Unqueue(m, t).sent = m.sent
         /\ ~InQueue(Unqueue(m, t), t)
         /\ \A u \in Tasks : InQueue(Unqueue(m, t), u) => InQueue(m, u)
         /\ Len(Unqueue(m, t).queue) =
              IF InQueue(m, t) THEN Len(m.queue) - 1 ELSE Len(m.queue)
<1> DEFINE k == PlaceInQueue(m, t)
           n == Unqueue(m, t)
<1>1. m.queue \in Seq([task : Tasks, priority : Int])
  BY DEF Typed, Managers
<1>2. CASE ~InQueue(m, t)
  <2>1. n = m
    BY <1>2, PlaceInQueueIs DEF Unqueue
  <2> QED
    BY <1>2, <2>1
<1>3. CASE InQueue(m, t)
  <2> DEFINE q == RemoveAt(m.queue, k)
  <2>1. k \in DOMAIN m.queue /\ m.queue[k].task = t
    BY <1>3, PlaceInQueueIs
  <2>2. k # 0 /\ k \in 1 .. Len(m.queue) /\ Len(m.queue) \in Nat
    BY <1>1, <2>1
  <2>3. /\ q \in Seq([task : Tasks, priority : Int]) /\ Len(q) = Len(m.queue) - 1
        /\ \A j \in DOMAIN q : q[j] = IF j < k THEN m.queue[j] ELSE m.queue[j + 1]
    BY <1>1, <2>1, RemoveAtIs
  <2>4. n = [m EXCEPT !.queue = q]
    BY <2>2 DEF Unqueue
  <2> HIDE DEF k, q, n
  <2>5. Typed(n) /\ n.queue = q /\ n.task = m.task /\ n.sent = m.sent
    BY <2>3, <2>4, QueueSetIs
  <2> DEFINE from(j) == IF j < k THEN j ELSE j + 1
  <2>6. DOMAIN q = 1 .. Len(m.queue) - 1
    BY <2>2, <2>3
  <2>7. \A j \in DOMAIN q : from(j) \in DOMAIN m.queue /\ from(j) # k /\ q[j] = m.queue[from(j)]
    <3>1. DOMAIN m.queue = 1 .. Len(m.queue)
      BY <1>1
    <3>2. \A j \in DOMAIN q : from(j) \in DOMAIN m.queue /\ from(j) # k
      BY <2>2, <2>6, <3>1
    <3> QED
      BY <2>3, <3>2
  <2>8. \A i, j \in DOMAIN q : from(i) = from(j) => i = j
    BY <2>2, <2>6
  <2> HIDE DEF from
  <2>9. \A i, j \in DOMAIN q : q[i].task = q[j].task => i = j
    BY <2>7, <2>8 DEF QueueOK
  <2>10. \A j \in DOMAIN q : q[j].task # t
    BY <2>1, <2>7 DEF QueueOK
  <2>11. \A u : InQueue(n, u) => InQueue(m, u)
    BY <2>5, <2>7 DEF InQueue
  <2>12. QueueOK(n)
    BY <2>5, <2>9, <2>11 DEF QueueOK
  <2>13. ~InQueue(n, t)
    BY <2>5, <2>10 DEF InQueue
  <2> QED
    BY <1>3, <2>3, <2>5, <2>11, <2>12, <2>13 DEF n
<1> QED
  BY <1>2, <1>3

\* Queue::remove(): the task is not in the queue afterwards.
LEMMA UnqueueGood ==
  ASSUME NEW m, NEW a, NEW H, NEW E, Good(m, a, H, E), NEW t \in Tasks
  PROVE  /\ Good(Unqueue(m, t), a, H, E) /\ ~InQueue(Unqueue(m, t), t)
         /\ Unqueue(m, t).task = m.task /\ Unqueue(m, t).sent = m.sent
<1> DEFINE n == Unqueue(m, t)
<1>1. Typed(m) /\ QueueOK(m)
  BY DEF Good
<1>2. Typed(n) /\ QueueOK(n) /\ n.task = m.task /\ n.sent = m.sent /\ ~InQueue(n, t)
  BY <1>1, UnqueueIs
<1> HIDE DEF n
<1>3. \A u : SentOf(n, u) = SentOf(m, u)
  BY <1>2 DEF SentOf
<1>4. ASSUME NEW u \in Tasks
      PROVE  TaskOK(u, n.task[u], SentOf(n, u), IF u = a THEN H ELSE {}, PartsIn(E, u))
  BY <1>2, <1>3 DEF Good
<1>5. Good(n, a, H, E)
  BY <1>2, <1>4 DEF Good
<1> QED
  BY <1>2, <1>5 DEF n

\* remove(): the queue without the task, and a look at what may be sent.
LEMMA DequeueGood ==
  ASSUME NEW m, NEW a, NEW E, Good(m, a, {}, E), NEW t \in Tasks
  PROVE  Good(Dequeue(m, t), a, {}, E)
BY UnqueueGood, CheckSendNextGood DEF Dequeue

\* Where what is beside place a of a list was before a was filled.
LEMMA BesideIs ==
  ASSUME NEW L \in Nat, NEW a \in 1 .. L + 1, NEW j \in 1 .. L + 1, j # a
  PROVE  (IF j < a THEN j ELSE j - 1) \in 1 .. L
OBVIOUS

\* A task comes into the queue.
LEMMA EnqueueGood ==
  ASSUME NEW m, NEW a, NEW E, Good(m, a, {}, E), NEW t \in Tasks, NEW p \in Int,
         t \in Files => m.task[t].state = "on"
  PROVE  Good(Enqueue(m, t, p), a, {}, E)
<1> DEFINE from == PlaceInQueue(m, t)
           to == Min({ k \in DOMAIN m.queue : m.queue[k].priority <= p } \cup {Len(m.queue) + 1})
           at == IF from # 0 /\ to > from THEN to - 1 ELSE to
           u == Unqueue(m, t)
           e == [task |-> t, priority |-> p]
           q == InsertAt(u.queue, at, e)
           n == [u EXCEPT !.queue = q]
<1>1. Typed(m) /\ QueueOK(m)
  BY DEF Good
<1>2. m.queue \in Seq([task : Tasks, priority : Int])
  BY <1>1 DEF Typed, Managers
<1>3. DOMAIN m.queue = 1 .. Len(m.queue) /\ Len(m.queue) \in Nat
  BY <1>2
<1>4. to \in 1 .. Len(m.queue) + 1
  <2> DEFINE S == { k \in DOMAIN m.queue : m.queue[k].priority <= p } \cup {Len(m.queue) + 1}
  <2>1. S \in SUBSET Nat /\ S # {} /\ S \subseteq 1 .. Len(m.queue) + 1
    BY <1>3
  <2>2. to = Min(S)
    OBVIOUS
  <2> HIDE DEF S, to
  <2> QED
    BY <2>1, <2>2, MinIs
<1>5. /\ Typed(u) /\ QueueOK(u) /\ u.task = m.task /\ u.sent = m.sent /\ ~InQueue(u, t)
      /\ Len(u.queue) = IF InQueue(m, t) THEN Len(m.queue) - 1 ELSE Len(m.queue)
      /\ \A v \in Tasks : InQueue(u, v) => InQueue(m, v)
  BY <1>1, UnqueueIs
<1>6. u.queue \in Seq([task : Tasks, priority : Int])
  BY <1>5 DEF Typed, Managers
<1>7. at \in 1 .. Len(u.queue) + 1
  <2>1. IF InQueue(m, t) THEN from \in 1 .. Len(m.queue) ELSE from = 0
    BY <1>1, <1>3, PlaceInQueueIs
  <2> HIDE DEF from, to, u
  <2> QED
    BY <1>3, <1>4, <1>5, <2>1
<1>8. Enqueue(m, t, p) = CheckSendNext(n)
  BY DEF Enqueue
<1> HIDE DEF at, u
<1>9. e \in [task : Tasks, priority : Int] /\ e.task = t
  OBVIOUS
<1> HIDE DEF e
<1>10. /\ q \in Seq([task : Tasks, priority : Int]) /\ Len(q) = Len(u.queue) + 1
       /\ \A j \in DOMAIN q :
            q[j] = IF j < at THEN u.queue[j] ELSE IF j = at THEN e ELSE u.queue[j - 1]
  <2>1. PICK T : T = [task : Tasks, priority : Int]
    OBVIOUS
  <2>2. u.queue \in Seq(T) /\ e \in T
    BY <1>6, <1>9, <2>1
  <2>3. /\ q \in Seq(T) /\ Len(q) = Len(u.queue) + 1
        /\ \A j \in DOMAIN q :
             q[j] = IF j < at THEN u.queue[j] ELSE IF j = at THEN e ELSE u.queue[j - 1]
    BY <1>7, <2>2, InsertAtIs
  <2> QED
    BY <2>1, <2>3
<1> HIDE DEF q
<1>11. Typed(n) /\ n.queue = q /\ n.task = u.task /\ n.sent = u.sent
  BY <1>5, <1>10, QueueSetIs
<1> HIDE DEF n
<1> DEFINE was(j) == IF j < at THEN j ELSE j - 1
<1>12. DOMAIN q = 1 .. Len(u.queue) + 1 /\ Len(u.queue) \in Nat /\ DOMAIN u.queue = 1 .. Len(u.queue)
  BY <1>6, <1>10
<1>13. \A j \in DOMAIN q : j # at => was(j) \in DOMAIN u.queue /\ q[j] = u.queue[was(j)]
  <2>1. PICK L \in Nat : L = Len(u.queue)
    BY <1>12
  <2>2. at \in 1 .. L + 1 /\ DOMAIN q = 1 .. L + 1 /\ DOMAIN u.queue = 1 .. L
    BY <1>7, <1>12, <2>1
  <2> SUFFICES ASSUME NEW j \in DOMAIN q, j # at
               PROVE  was(j) \in DOMAIN u.queue /\ q[j] = u.queue[was(j)]
    OBVIOUS
  <2>3. was(j) \in 1 .. L
    BY <2>2, BesideIs
  <2>4. q[j] = u.queue[was(j)]
    BY <1>10
  <2> QED
    BY <2>2, <2>3, <2>4
<1>14. \A i, j \in DOMAIN q : i # at /\ j # at /\ was(i) = was(j) => i = j
  BY <1>7, <1>12
<1>15. at \in DOMAIN q /\ q[at] = e
  BY <1>7, <1>10, <1>12
<1> HIDE DEF was
<1>16. \A j \in DOMAIN q : j # at => q[j].task # t
  BY <1>5, <1>13 DEF InQueue
<1>17. \A i, j \in DOMAIN q : q[i].task = q[j].task => i = j
  BY <1>5, <1>9, <1>13, <1>14, <1>15, <1>16 DEF QueueOK
<1>18. \A v : InQueue(n, v) => v = t \/ InQueue(u, v)
  BY <1>9, <1>11, <1>13, <1>15 DEF InQueue
<1>19. QueueOK(n)
  <2>1. \A f \in Files : InQueue(n, f) => n.task[f].state = "on"
    BY <1>5, <1>11, <1>18 DEF QueueOK
  <2> QED
    BY <1>11, <1>17, <2>1 DEF QueueOK
<1>20. Good(u, a, {}, E)
  BY UnqueueGood DEF u
<1>21. \A v : SentOf(n, v) = SentOf(u, v)
  BY <1>11 DEF SentOf
<1>22. ASSUME NEW v \in Tasks
       PROVE  TaskOK(v, n.task[v], SentOf(n, v), IF v = a THEN {} ELSE {}, PartsIn(E, v))
  BY <1>11, <1>20, <1>21 DEF Good
<1>23. Good(n, a, {}, E)
  BY <1>11, <1>19, <1>22 DEF Good
<1> QED
  BY <1>8, <1>23, CheckSendNextGood

-----------------------------------------------------------------------------
(* Requests for hashes, cancelled and moved requests. *)

\* The parts of a task that are not checked yet, with their sessions.
LEMMA UncheckedAre ==
  ASSUME NEW x \in TaskStates
  PROVE  /\ DOMAIN x.unchecked \in SUBSET Nat
         /\ x.unchecked \in [DOMAIN x.unchecked -> Positive]
<1>1. x.unchecked \in UNION { [K -> Positive] : K \in SUBSET Nat }
  BY DEF TaskStates
<1>2. PICK K \in SUBSET Nat : x.unchecked \in [K -> Positive]
  BY <1>1
<1>3. DOMAIN x.unchecked = K
  BY <1>2
<1> QED
  BY <1>2, <1>3

\* Hashes are asked for.
LEMMA HashesRequestedGood ==
  ASSUME NEW m, NEW t \in Tasks, NEW H, NEW E, Good(m, t, H, E),
         NEW r \in Requests, r.task = t, r.kind = "hashes", r.offset \in Unchecked(m, t),
         \A q \in SentOf(m, t) : q.kind # "hashes"
  PROVE  Good(Place(m, r), t, H, E)
<1> DEFINE n == Place(m, r)
<1>1. Typed(m) /\ QueueOK(m)
  BY DEF Good
<1>2. Typed(n) /\ n.task = m.task /\ n.queue = m.queue
  BY <1>1, PlaceIs DEF Framed
<1>3. PICK a \in Int : n.sent = m.sent \cup {[r EXCEPT !.amount = a]}
  BY <1>1, PlaceIs
<1> DEFINE q == [r EXCEPT !.amount = a]
<1>4. q \in Requests /\ q.task = t /\ q.offset = r.offset /\ q.kind = "hashes"
  BY DEF Requests, AnyRequests
<1>5. n.sent = m.sent \cup {q}
  BY <1>3
<1> HIDE DEF n, q
<1>6. SentOf(n, t) = SentOf(m, t) \cup {q} /\ \A u \in Tasks : u # t => SentOf(n, u) = SentOf(m, u)
  BY <1>4, <1>5 DEF SentOf
<1>7. TaskOK(t, m.task[t], SentOf(m, t), H, PartsIn(E, t))
  BY DEF Good
<1>8. TaskOK(t, m.task[t], SentOf(m, t) \cup {q}, H, PartsIn(E, t))
  <2>1. m.task[t] \in TaskStates /\ SentOf(m, t) \in SUBSET Requests
    BY <1>1, SentOfIs
  <2>2. q.offset \in DOMAIN m.task[t].unchecked
    BY <1>4 DEF Unchecked
  <2> QED
    BY <1>4, <1>7, <2>1, <2>2, HashesMadeOK
<1>9. QueueOK(n)
  BY <1>1, <1>2 DEF QueueOK, InQueue
<1>10. ASSUME NEW u \in Tasks
       PROVE  TaskOK(u, n.task[u], SentOf(n, u), IF u = t THEN H ELSE {}, PartsIn(E, u))
  BY <1>2, <1>6, <1>8 DEF Good
<1> QED
  BY <1>2, <1>9, <1>10 DEF Good, n

\* requestMoreCdnFileHashes()
LEMMA RequestMoreGood ==
  ASSUME NEW m, NEW t \in Tasks, NEW H, NEW E, Good(m, t, H, E)
  PROVE  Good(RequestMore(m, t), t, H, E)
<1>1. CASE Unchecked(m, t) = {} \/ \E r \in SentOf(m, t) : r.kind = "hashes"
  BY <1>1 DEF RequestMore
<1>2. CASE ~(Unchecked(m, t) = {} \/ \E r \in SentOf(m, t) : r.kind = "hashes")
  <2> DEFINE o == Min(Unchecked(m, t))
             s == m.task[t].unchecked[o]
             r == Request(t, o, "hashes", s)
  <2>1. m.task[t] \in TaskStates
    BY SentOfIs DEF Good
  <2>2. Unchecked(m, t) \in SUBSET Nat
    BY <2>1, UncheckedAre DEF Unchecked
  <2>3. o \in Unchecked(m, t)
    BY <1>2, <2>2, MinIs
  <2> HIDE DEF o
  <2>4. s \in Positive
    BY <2>1, <2>3, UncheckedAre DEF Unchecked
  <2> HIDE DEF s
  <2>5. r \in Requests /\ r.task = t /\ r.kind = "hashes" /\ r.offset = o
    BY <2>2, <2>3, <2>4 DEF Requests, AnyRequests, Request
  <2>6. RequestMore(m, t) = Place(m, r)
    BY <1>2 DEF RequestMore, o, s
  <2> HIDE DEF r
  <2> QED
    BY <1>2, <2>3, <2>5, <2>6, HashesRequestedGood
<1> QED
  BY <1>1, <1>2

\* cancelRequest(): the parts of the requests are in hand.
LEMMA CancelRequestsGood ==
  ASSUME NEW m, NEW t \in Tasks, NEW H, NEW E, Good(m, t, H, E), NEW R \in SUBSET SentOf(m, t),
         t \in Files => m.task[t].state = "on"
  PROVE  /\ Good(CancelRequests(m, t, R), t, H \cup Out(R), E)
         /\ Framed(m, CancelRequests(m, t, R))
         /\ SentOf(CancelRequests(m, t, R), t) = SentOf(m, t) \ R
         /\ CancelRequests(m, t, R).task[t].state = m.task[t].state
         /\ CancelRequests(m, t, R).task[t].wanted = m.task[t].wanted
         /\ CancelRequests(m, t, R).task[t].unchecked = m.task[t].unchecked
         /\ CancelRequests(m, t, R).task[t].waits = m.task[t].waits
<1> DEFINE F == Finish(m, R)
           x == m.task[t]
           b == x.more \/ (Unchecked(m, t) # {} /\ \E r \in R : r.kind = "hashes")
           c == x.lostRef \/ \E r \in R : r.at = "reference"
           y == [x EXCEPT !.more = b, !.lostRef = c]
           n == CancelRequests(m, t, R)
           G == H \cup Out(R)
<1>1. /\ Good(F, t, G, E) /\ F.task = m.task /\ Framed(m, F)
      /\ SentOf(F, t) = SentOf(m, t) \ R
  BY FinishGood
<1>2. x \in TaskStates /\ F \in Managers /\ F.task[t] = x
  <2>1. Typed(F)
    BY <1>1 DEF Good
  <2>2. F \in Managers
    BY <2>1 DEF Typed
  <2>3. F.task[t] = x
    BY <1>1
  <2>4. F.task \in [Tasks -> TaskStates]
    BY <2>2 DEF Managers
  <2> HIDE DEF F, x
  <2>5. F.task[t] \in TaskStates
    BY <2>4
  <2> QED
    BY <2>2, <2>3, <2>5
<1>3. b \in BOOLEAN /\ c \in BOOLEAN
  OBVIOUS
<1>4. n = [F EXCEPT !.task[t].more = b, !.task[t].lostRef = c]
  BY <1>2 DEF CancelRequests
<1> HIDE DEF F, b, c, n, G
<1>5. /\ y \in TaskStates /\ y.next = x.next /\ y.loaded = x.loaded /\ y.wanted = x.wanted
      /\ y.waits = x.waits /\ y.unchecked = x.unchecked /\ y.cdn = x.cdn
      /\ y.astray = x.astray /\ y.state = x.state
  BY <1>2, <1>3 DEF TaskStates
<1>6. n = Put(F, t, y)
  <2>1. F.task \in [Tasks -> TaskStates]
    BY <1>2 DEF Managers
  <2> HIDE DEF x
  <2>2. [[F EXCEPT !.task[t].more = b] EXCEPT !.task[t].lostRef = c] = [F EXCEPT !.task[t] = y]
    BY <1>2, <2>1 DEF Managers, TaskStates
  <2> QED
    BY <1>4, <2>2 DEF Put
<1>7. TaskOK(t, x, SentOf(F, t), G, PartsIn(E, t))
  BY <1>1, <1>2 DEF Good
<1> HIDE DEF y, x
<1>8. t \in Files => x.state = "on"
  BY DEF x
<1>9. TaskOK(t, y, SentOf(F, t), G, PartsIn(E, t))
  BY <1>2, <1>5, <1>7, <1>8, SameOK
<1>10. /\ Good(Put(F, t, y), t, G, E) /\ Put(F, t, y).task[t] = y
       /\ Put(F, t, y).sent = F.sent /\ Put(F, t, y).queue = F.queue
  BY <1>1, <1>5, <1>8, <1>9, PutSame
<1>11. SentOf(n, t) = SentOf(F, t)
  BY <1>6, <1>10 DEF SentOf
<1>12. n.sessions = F.sessions
  BY <1>2, <1>6 DEF Put, Managers
<1> QED
  BY <1>1, <1>5, <1>6, <1>10, <1>11, <1>12 DEF Framed, n, x, G

\* A request is made again through another session.
LEMMA MoveRequestGood ==
  ASSUME NEW m, NEW t \in Tasks, NEW E, Good(m, t, {}, E), NEW r \in SentOf(m, t)
  PROVE  /\ Good(MoveRequest(m, r), t, {}, E) /\ Framed(m, MoveRequest(m, r))
         /\ SentOf(m, t) \ {r} \subseteq SentOf(MoveRequest(m, r), t)
<1> DEFINE n == CancelRequests(m, t, {r})
           H == {} \cup Out({r})
<1>1. /\ Typed(m) /\ r \in Requests /\ r.task = t /\ {r} \in SUBSET SentOf(m, t)
      /\ TaskOK(t, m.task[t], SentOf(m, t), {}, PartsIn(E, t))
  <2>1. Typed(m) /\ TaskOK(t, m.task[t], SentOf(m, t), {}, PartsIn(E, t))
    BY DEF Good
  <2> QED
    BY <2>1, SentOfIs
<1>2. t \in Files => m.task[t].state = "on"
  BY <1>1 DEF TaskOK, FileOK
<1>3. /\ Good(n, t, H, E) /\ Framed(m, n) /\ SentOf(n, t) = SentOf(m, t) \ {r}
      /\ n.task[t].state = m.task[t].state
  <2>01. PICK R : R = {r}
    OBVIOUS
  <2>02. R \in SUBSET SentOf(m, t)
    BY <1>1, <2>01
  <2>03. PICK K : K = {}
    OBVIOUS
  <2>04. Good(m, t, K, E)
    BY <2>03
  <2>1. /\ Good(CancelRequests(m, t, R), t, K \cup Out(R), E)
        /\ Framed(m, CancelRequests(m, t, R))
        /\ SentOf(CancelRequests(m, t, R), t) = SentOf(m, t) \ R
        /\ CancelRequests(m, t, R).task[t].state = m.task[t].state
    BY <1>2, <2>02, <2>04, CancelRequestsGood
  <2> QED
    BY <2>01, <2>03, <2>1
<1> HIDE DEF n
<1>4. CASE r.kind = "hashes"
  <2>1. H = {}
    BY <1>4 DEF Out
  <2> DEFINE v == [n EXCEPT !.idle = TRUE]
  <2>2. MoveRequest(m, r) = v
    BY <1>1, <1>4 DEF MoveRequest, n
  <2>3. Good(n, t, {}, E)
    BY <1>3, <2>1
  <2>4. Good(v, t, {}, E)
    <3>1. TRUE \in BOOLEAN
      OBVIOUS
    <3> QED
      BY <2>3, <3>1, IdleGood
  <2>5. v.sessions = n.sessions /\ v.queue = n.queue /\ v.sent = n.sent
    BY <2>3 DEF Good, Typed, Managers
  <2> HIDE DEF v
  <2>6. SentOf(v, t) = SentOf(n, t) /\ Framed(m, v)
    BY <1>3, <2>5 DEF SentOf, Framed
  <2> QED
    BY <1>3, <2>2, <2>4, <2>6
<1>5. CASE r.kind # "hashes"
  <2> DEFINE o == r.offset
             s == ChooseSession(n)
             v == MakeRequest(n, t, o, s)
  <2>1. H = {o}
    BY <1>5 DEF Out
  <2>2. Good(n, t, {o}, E)
    BY <1>3, <2>1
  <2>3. s \in Positive
    BY <2>2, ChooseSessionIs DEF Good
  <2>4. MoveRequest(m, r) = v
    BY <1>1, <1>5 DEF MoveRequest, n
  <2>5. o \in Nat
    BY <1>1 DEF Requests, AnyRequests
  <2> HIDE DEF o, s
  <2>6. Good(v, t, {}, E) /\ Framed(n, v) /\ SentOf(n, t) \subseteq SentOf(v, t)
    BY <1>2, <1>3, <2>2, <2>3, <2>5, AllMade
  <2> QED
    BY <1>3, <2>4, <2>6 DEF Framed
<1> QED
  BY <1>4, <1>5

\* The loop of removeSession() keeps to what each of its rounds keeps to.
LEMMA MoveRequestsLoop ==
  ASSUME NEW m, NEW t, NEW s, IsFiniteSet(Through(m, t, s)),
         NEW P \in SUBSET [m : Managers, left : SUBSET Through(m, t, s)],
         [m |-> m, left |-> Through(m, t, s)] \in P,
         \A v \in P : \A r \in v.left :
           [m |-> MoveRequest(v.m, r), left |-> v.left \ {r}] \in P
  PROVE  \E v \in P : v.left = {} /\ MoveRequests(m, t, s) = v.m
<1> DEFINE of == Through(m, t, s)
           N == Cardinality(of)
           start == [m |-> m, left |-> of]
           Next1(v) == CHOOSE r \in v.left : TRUE
           move(v, r) == [m |-> MoveRequest(v.m, r), left |-> v.left \ {r}]
           Step(v) == move(v, Next1(v))
           OK(n, v) == v \in P /\ Cardinality(v.left) = N - n
           D == { p \in (0 .. N) \X P : OK(p[1], p[2]) }
           F == [p \in D |-> Step(p[2])]
           Round(g, n) == IF n = 0 THEN start ELSE The({ move(v, CHOOSE r \in v.left : TRUE) : v \in {g[n - 1]} })
           Keeps(g) == g = [n \in 0 .. N |-> Round(g, n)]
           after == CHOOSE g : Keeps(g)
<1>0. N \in Nat /\ IsFiniteSet(of) /\ \A v \in P : v.left \subseteq of
  BY FS_CardinalityType
<1>1. MoveRequests(m, t, s) = after[N].m
  BY DEF MoveRequests
<1>2. \A g : Round(g, 0) = start
  OBVIOUS
<1>3. \A g, n : n # 0 => Round(g, n) = Step(g[n - 1])
  <2> SUFFICES ASSUME NEW g, NEW n, n # 0
               PROVE  Round(g, n) = Step(g[n - 1])
    OBVIOUS
  <2> HIDE DEF move
  <2>1. { move(v, CHOOSE r \in v.left : TRUE) : v \in {g[n - 1]} } = { Step(g[n - 1]) }
    OBVIOUS
  <2>2. The({ move(v, CHOOSE r \in v.left : TRUE) : v \in {g[n - 1]} }) = Step(g[n - 1])
    BY <2>1, TheIs
  <2> QED
    BY <2>2
<1>4. ASSUME NEW n \in 1 .. N, NEW v, OK(n - 1, v)
      PROVE  OK(n, Step(v))
  <2> DEFINE r == Next1(v)
  <2>1. v.left # {} /\ IsFiniteSet(v.left)
    <3>1. IsFiniteSet(v.left)
      BY <1>0, <1>4, FS_Subset
    <3>2. Cardinality(v.left) = N - (n - 1)
      BY <1>4
    <3>3. Cardinality(v.left) # 0
      BY <1>0, <3>2
    <3> HIDE DEF N
    <3> QED
      BY <3>1, <3>3, FS_EmptySet
  <2>2. r \in v.left
    BY <2>1
  <2> HIDE DEF Next1
  <2>3. Step(v) \in P
    BY <1>4, <2>2
  <2>4. Cardinality(v.left \ {r}) = N - n
    <3>1. Cardinality(v.left \ {r}) = Cardinality(v.left) - 1
      BY <2>1, <2>2, FS_RemoveElement
    <3> QED
      BY <1>0, <1>4, <3>1
  <2>5. Step(v).left = v.left \ {r}
    OBVIOUS
  <2> QED
    BY <2>3, <2>4, <2>5
<1>5. OK(0, start)
  BY <1>0
<1> HIDE DEF OK, Step
<1>6. \A n \in 0 .. N : \A v : <<n, v>> \in D <=> OK(n, v)
  BY DEF OK
<1>7. \A n \in 0 .. N : \A v : <<n, v>> \in D => F[<<n, v>>] = Step(v)
  OBVIOUS
<1>8. D \in SUBSET ((0 .. N) \X P)
  OBVIOUS
<1> HIDE DEF Round, after, N, D, F, start, of
<1>9. \A n \in 1 .. N : n - 1 \in 0 .. N /\ n \in 0 .. N /\ n # 0
  BY <1>0
<1>10. 0 \in 0 .. N /\ N \in 0 .. N
  BY <1>0
<1>11. <<0, start>> \in D
  BY <1>5, <1>6, <1>10
<1>12. \A n \in 1 .. N : \A v : <<n - 1, v>> \in D => <<n, Step(v)>> \in D
  BY <1>4, <1>6, <1>9
<1>13. Advances(N, P, D, F)
  BY <1>7, <1>8, <1>9, <1>12 DEF Advances
<1>14. PICK g : Loops(g, N, P, D, F, start)
  BY <1>0, <1>11, <1>13, LoopExists
<1>15. \A n \in 0 .. N : g[n] = Round(g, n)
  <2> SUFFICES ASSUME NEW n \in 0 .. N
               PROVE  g[n] = Round(g, n)
    OBVIOUS
  <2>1. CASE n = 0
    BY <1>2, <1>14, <2>1 DEF Loops
  <2>2. CASE n # 0
    <3>1. n \in 1 .. N
      BY <1>0, <2>2
    <3>2. <<n - 1, g[n - 1]>> \in D /\ g[n] = F[<<n - 1, g[n - 1]>>]
      BY <1>14, <3>1 DEF Loops
    <3>3. n - 1 \in 0 .. N
      BY <1>9, <3>1
    <3>4. g[n] = Step(g[n - 1])
      BY <1>7, <3>2, <3>3
    <3> QED
      BY <1>3, <2>2, <3>4
  <2> QED
    BY <2>1, <2>2
<1>16. Keeps(g)
  BY <1>14, <1>15 DEF Loops
<1>17. Keeps(after)
  BY <1>16 DEF after
<1>18. \A n \in 0 .. N : after[n] = Round(after, n)
  <2> HIDE DEF Keeps
  <2>1. \A h : Keeps(h) => \A n \in 0 .. N : h[n] = Round(h, n)
    BY DEF Keeps
  <2> QED
    BY <1>17, <2>1
<1>19. after[0] = start /\ \A n \in 1 .. N : after[n] = Step(after[n - 1])
  BY <1>2, <1>3, <1>9, <1>10, <1>18
<1>20. Remains(N, D, after)
  BY <1>12, <1>19 DEF Remains
<1>21. <<N, after[N]>> \in D
  BY <1>0, <1>11, <1>19, <1>20, LoopEnds
<1>22. OK(N, after[N])
  BY <1>6, <1>10, <1>21
<1>23. after[N] \in P /\ after[N].left = {}
  <2> DEFINE v == after[N]
  <2>1. v \in P /\ Cardinality(v.left) = 0
    BY <1>0, <1>22 DEF OK
  <2> HIDE DEF v
  <2>2. IsFiniteSet(v.left)
    BY <1>0, <2>1, FS_Subset
  <2>3. v.left = {}
    BY <2>1, <2>2, FS_EmptySet
  <2> QED
    BY <2>1, <2>3 DEF v
<1> QED
  BY <1>1, <1>23

\* All requests of a task through a session are made again.
LEMMA MoveRequestsGood ==
  ASSUME NEW m, NEW t \in Tasks, NEW E, Good(m, t, {}, E), NEW s
  PROVE  Good(MoveRequests(m, t, s), t, {}, E) /\ Framed(m, MoveRequests(m, t, s))
<1> DEFINE of == Through(m, t, s)
           V == [m : Managers, left : SUBSET of]
           OK(v) == /\ v \in V /\ Good(v.m, t, {}, E) /\ Framed(m, v.m)
                    /\ v.left \subseteq SentOf(v.m, t)
           P == { v \in V : OK(v) }
           start == [m |-> m, left |-> of]
           move(v, r) == [m |-> MoveRequest(v.m, r), left |-> v.left \ {r}]
<1>1. IsFiniteSet(of) /\ of \subseteq SentOf(m, t)
  <2>1. IsFiniteSet(SentOf(m, t)) /\ of \subseteq SentOf(m, t)
    BY SentOfIs DEF Good, Through
  <2> QED
    BY <2>1, FS_Subset
<1>2. OK(start)
  <2>1. m \in Managers
    BY DEF Good, Typed
  <2> QED
    BY <1>1, <2>1 DEF Framed
<1>3. ASSUME NEW v, OK(v), NEW r \in v.left
      PROVE  OK(move(v, r))
  <2> DEFINE w == MoveRequest(v.m, r)
  <2>1. r \in SentOf(v.m, t)
    BY <1>3
  <2>2. /\ Good(w, t, {}, E) /\ Framed(v.m, w) /\ SentOf(v.m, t) \ {r} \subseteq SentOf(w, t)
    BY <1>3, <2>1, MoveRequestGood
  <2>3. w \in Managers
    BY <2>2 DEF Good, Typed
  <2>4. move(v, r).m = w /\ move(v, r).left = v.left \ {r}
    OBVIOUS
  <2>5. move(v, r) \in V
    BY <1>3, <2>3
  <2>6. v.left \ {r} \subseteq SentOf(w, t) /\ Framed(m, w)
    BY <1>3, <2>2 DEF Framed
  <2> HIDE DEF move, w
  <2> QED
    BY <2>2, <2>4, <2>5, <2>6
<1>4. \A v : v \in P <=> OK(v)
  OBVIOUS
<1>5. P \in SUBSET V
  OBVIOUS
<1> HIDE DEF OK, P
<1>6. \E v \in P : v.left = {} /\ MoveRequests(m, t, s) = v.m
  BY <1>1, <1>2, <1>3, <1>4, <1>5, MoveRequestsLoop
<1> QED
  BY <1>4, <1>6 DEF OK

-----------------------------------------------------------------------------
(* Sessions are removed and requests succeed. *)

\* DownloadMtprotoTask::removeSession()
LEMMA RedirectGood ==
  ASSUME NEW m, NEW a, NEW E, Good(m, a, {}, E), NEW t \in Tasks, NEW s
  PROVE  Good(Redirect(m, t, s), a, {}, E) /\ Framed(m, Redirect(m, t, s))
<1> DEFINE x == m.task[t]
           f == [o \in DOMAIN x.unchecked |->
                   IF x.unchecked[o] = s THEN ChooseSession(m) ELSE x.unchecked[o]]
           y == [x EXCEPT !.unchecked = f]
           n == Put(m, t, y)
<1>0. Good(m, t, {}, E)
  BY AnyGood
<1>1. /\ Typed(m) /\ x \in TaskStates /\ m \in Managers
      /\ TaskOK(t, x, SentOf(m, t), {}, PartsIn(E, t))
  <2>1. Typed(m) /\ TaskOK(t, x, SentOf(m, t), {}, PartsIn(E, t))
    BY <1>0 DEF Good
  <2> QED
    BY <2>1, SentOfIs DEF Typed
<1>2. /\ DOMAIN x.unchecked \in SUBSET Nat
      /\ \A o \in DOMAIN x.unchecked : x.unchecked[o] \in Positive
  <2> HIDE DEF x
  <2> QED
    BY <1>1, UncheckedAre
<1>3. f \in [DOMAIN x.unchecked -> Positive]
  BY <1>1, <1>2, ChooseSessionIs
<1>4. Redirect(m, t, s) = MoveRequests(n, t, s)
  <2>1. m.task \in [Tasks -> TaskStates]
    BY <1>1 DEF Managers
  <2>2. [m EXCEPT !.task[t].unchecked = f] = [m EXCEPT !.task[t] = y]
    BY <1>1, <2>1 DEF Managers
  <2> QED
    BY <2>2 DEF Redirect, Put
<1> HIDE DEF f, x
<1>5. /\ y \in TaskStates /\ y.next = x.next /\ y.loaded = x.loaded /\ y.wanted = x.wanted
      /\ y.waits = x.waits /\ DOMAIN y.unchecked = DOMAIN x.unchecked /\ y.cdn = x.cdn
      /\ y.astray = x.astray /\ y.state = x.state /\ y.lostRef = x.lostRef
  <2>1. f \in UNION { [K -> Positive] : K \in SUBSET Nat }
    BY <1>2, <1>3
  <2>2. DOMAIN f = DOMAIN x.unchecked
    BY <1>3
  <2> QED
    BY <1>1, <2>1, <2>2 DEF TaskStates
<1> HIDE DEF y
<1>6. t \in Files => x.state = "on" \/ ~y.lostRef
  BY <1>1, <1>5 DEF TaskOK, FileOK
<1>7. TaskOK(t, y, SentOf(m, t), {}, PartsIn(E, t))
  BY <1>1, <1>5, <1>6, SameOK
<1>8. t \in Files => y.state = "on" \/ ~InQueue(m, t)
  BY <1>0, <1>5 DEF Good, QueueOK, x
<1>9. Good(n, t, {}, E) /\ Framed(m, n)
  <2>1. PICK H : H = {}
    OBVIOUS
  <2>2. Good(m, t, H, E) /\ TaskOK(t, y, SentOf(m, t), H, PartsIn(E, t))
    BY <1>0, <1>7, <2>1
  <2>3. Good(n, t, H, E) /\ Framed(m, n)
    BY <1>5, <1>8, <2>2, PutSame
  <2> QED
    BY <2>1, <2>3
<1> HIDE DEF n
<1>10. Good(MoveRequests(n, t, s), t, {}, E) /\ Framed(n, MoveRequests(n, t, s))
  BY <1>9, MoveRequestsGood
<1>11. Good(MoveRequests(n, t, s), a, {}, E)
  BY <1>10, AnyGood
<1> QED
  BY <1>4, <1>9, <1>10, <1>11 DEF Framed

\* The loop over the queue keeps to what each of its rounds keeps to.
LEMMA RedirectAllLoop ==
  ASSUME NEW P \in SUBSET Managers, NEW m \in P, NEW s,
         \A v \in P : \A n \in DOMAIN m.queue : Redirect(v, m.queue[n].task, s) \in P
  PROVE  RedirectAll(m, s) \in P
<1> DEFINE N == Len(m.queue)
           T(n) == m.queue[n].task
           D == (0 .. N) \X P
           F == [p \in D |-> Redirect(p[2], T(p[1] + 1), s)]
           Round(g, n) == IF n = 0 THEN m
                          ELSE The({ Redirect(v, m.queue[n].task, s) : v \in {g[n - 1]} })
           Keeps(g) == g = [n \in 0 .. N |-> Round(g, n)]
           after == CHOOSE g : Keeps(g)
<1>0. N \in Nat /\ DOMAIN m.queue = 1 .. N
  <2>1. m.queue \in Seq([task : Tasks, priority : Int])
    BY DEF Managers
  <2> QED
    BY <2>1
<1>1. RedirectAll(m, s) = after[N]
  BY DEF RedirectAll
<1>2. \A g : Round(g, 0) = m
  OBVIOUS
<1>3. \A g, n : n # 0 => Round(g, n) = Redirect(g[n - 1], T(n), s)
  <2> SUFFICES ASSUME NEW g, NEW n, n # 0
               PROVE  Round(g, n) = Redirect(g[n - 1], T(n), s)
    OBVIOUS
  <2>1. { Redirect(v, m.queue[n].task, s) : v \in {g[n - 1]} } = { Redirect(g[n - 1], T(n), s) }
    OBVIOUS
  <2>2. The({ Redirect(v, m.queue[n].task, s) : v \in {g[n - 1]} }) = Redirect(g[n - 1], T(n), s)
    BY <2>1, TheIs
  <2> QED
    BY <2>2
<1> HIDE DEF T, N
<1>4. \A n \in 1 .. N : \A v \in P : Redirect(v, T(n), s) \in P
  BY <1>0 DEF T
<1>5. \A n \in 0 .. N : \A v : <<n, v>> \in D <=> v \in P
  OBVIOUS
<1>6. \A n \in 0 .. N : \A v : <<n, v>> \in D => F[<<n, v>>] = Redirect(v, T(n + 1), s)
  OBVIOUS
<1>7. D \in SUBSET ((0 .. N) \X P)
  OBVIOUS
<1> HIDE DEF Round, after, D, F
<1>8. \A n \in 1 .. N : n - 1 \in 0 .. N /\ n \in 0 .. N /\ n # 0 /\ (n - 1) + 1 = n
  BY <1>0
<1>9. 0 \in 0 .. N /\ N \in 0 .. N
  BY <1>0
<1>10. <<0, m>> \in D
  BY <1>5, <1>9
<1>11. \A n \in 1 .. N : \A v : <<n - 1, v>> \in D => <<n, Redirect(v, T(n), s)>> \in D
  BY <1>4, <1>5, <1>8
<1>12. Advances(N, P, D, F)
  <2>1. \A n \in 1 .. N : \A v : <<n - 1, v>> \in D => F[<<n - 1, v>>] = Redirect(v, T(n), s)
    <3> SUFFICES ASSUME NEW n \in 1 .. N, NEW v, <<n - 1, v>> \in D
                 PROVE  F[<<n - 1, v>>] = Redirect(v, T(n), s)
      OBVIOUS
    <3>1. n - 1 \in 0 .. N /\ (n - 1) + 1 = n
      BY <1>8
    <3>2. F[<<n - 1, v>>] = Redirect(v, T((n - 1) + 1), s)
      BY <1>6, <3>1
    <3> QED
      BY <3>1, <3>2
  <2> QED
    BY <1>7, <1>11, <2>1 DEF Advances
<1>13. PICK g : Loops(g, N, P, D, F, m)
  BY <1>0, <1>10, <1>12, LoopExists
<1>14. \A n \in 0 .. N : g[n] = Round(g, n)
  <2> SUFFICES ASSUME NEW n \in 0 .. N
               PROVE  g[n] = Round(g, n)
    OBVIOUS
  <2>1. CASE n = 0
    BY <1>2, <1>13, <2>1 DEF Loops
  <2>2. CASE n # 0
    <3>1. n \in 1 .. N
      BY <1>0, <2>2
    <3>2. <<n - 1, g[n - 1]>> \in D /\ g[n] = F[<<n - 1, g[n - 1]>>]
      BY <1>13, <3>1 DEF Loops
    <3>3. n - 1 \in 0 .. N /\ (n - 1) + 1 = n
      BY <1>8, <3>1
    <3>4. F[<<n - 1, g[n - 1]>>] = Redirect(g[n - 1], T((n - 1) + 1), s)
      BY <1>6, <3>2, <3>3
    <3> QED
      BY <1>3, <2>2, <3>2, <3>3, <3>4
  <2> QED
    BY <2>1, <2>2
<1>15. Keeps(g)
  BY <1>13, <1>14 DEF Loops
<1>16. Keeps(after)
  BY <1>15 DEF after
<1>17. \A n \in 0 .. N : after[n] = Round(after, n)
  <2> HIDE DEF Keeps
  <2>1. \A h : Keeps(h) => \A n \in 0 .. N : h[n] = Round(h, n)
    BY DEF Keeps
  <2> QED
    BY <1>16, <2>1
<1>18. after[0] = m /\ \A n \in 1 .. N : after[n] = Redirect(after[n - 1], T(n), s)
  BY <1>2, <1>3, <1>8, <1>9, <1>17
<1>19. Remains(N, D, after)
  BY <1>11, <1>18 DEF Remains
<1>20. <<N, after[N]>> \in D
  BY <1>0, <1>10, <1>18, <1>19, LoopEnds
<1> QED
  BY <1>1, <1>5, <1>9, <1>20

\* All tasks of the queue move their requests.
LEMMA RedirectAllGood ==
  ASSUME NEW m, NEW a, NEW E, Good(m, a, {}, E), NEW s
  PROVE  Good(RedirectAll(m, s), a, {}, E) /\ Framed(m, RedirectAll(m, s))
<1> DEFINE OK(v) == Good(v, a, {}, E) /\ Framed(m, v)
           P == { v \in Managers : OK(v) }
<1>1. m \in Managers /\ \A n \in DOMAIN m.queue : m.queue[n].task \in Tasks
  <2>1. m \in Managers
    BY DEF Good, Typed
  <2>2. m.queue \in Seq([task : Tasks, priority : Int])
    BY <2>1 DEF Managers
  <2>3. \A n \in DOMAIN m.queue : m.queue[n] \in [task : Tasks, priority : Int]
    BY <2>2, MembersAre
  <2> QED
    BY <2>1, <2>3
<1>2. ASSUME NEW v, OK(v), NEW n \in DOMAIN m.queue
      PROVE  OK(Redirect(v, m.queue[n].task, s))
  <2>1. PICK t \in Tasks : t = m.queue[n].task
    BY <1>1
  <2>2. Good(Redirect(v, t, s), a, {}, E) /\ Framed(v, Redirect(v, t, s))
    BY <1>2, RedirectGood
  <2> QED
    BY <1>2, <2>1, <2>2 DEF Framed
<1>3. \A v : v \in P <=> OK(v)
  BY DEF Good, Typed
<1>4. P \in SUBSET Managers
  OBVIOUS
<1>5. OK(m)
  BY DEF Framed
<1> HIDE DEF OK, P
<1>6. m \in P /\ \A v \in P : \A n \in DOMAIN m.queue : Redirect(v, m.queue[n].task, s) \in P
  BY <1>2, <1>3, <1>5
<1>7. RedirectAll(m, s) \in P
  BY <1>4, <1>6, RedirectAllLoop
<1> QED
  BY <1>3, <1>7 DEF OK

\* Requests get other marks.
LEMMA MarkedGood ==
  ASSUME NEW m, NEW a, NEW H, NEW E, Good(m, a, H, E), NEW n, Typed(n),
         n.task = m.task, n.queue = m.queue,
         \A t \in Tasks :
           /\ Once(SentOf(m, t)) => Once(SentOf(n, t))
           /\ \A r \in SentOf(m, t) : \E q \in SentOf(n, t) : q.kind = r.kind /\ q.offset = r.offset
           /\ \A q \in SentOf(n, t) : \E r \in SentOf(m, t) : q.kind = r.kind /\ q.offset = r.offset
  PROVE  Good(n, a, H, E)
<1>1. QueueOK(n)
  BY DEF Good, QueueOK, InQueue
<1>2. ASSUME NEW t \in Tasks
      PROVE  TaskOK(t, n.task[t], SentOf(n, t), IF t = a THEN H ELSE {}, PartsIn(E, t))
  <2> DEFINE G == IF t = a THEN H ELSE {}
  <2>1. TaskOK(t, m.task[t], SentOf(m, t), G, PartsIn(E, t))
    BY DEF Good
  <2>2. m.task[t] \in TaskStates
    BY SentOfIs DEF Good
  <2> HIDE DEF G
  <2>3. TaskOK(t, m.task[t], SentOf(n, t), G, PartsIn(E, t))
    BY <2>1, <2>2, MarkedOK
  <2> QED
    BY <2>3 DEF G
<1> QED
  BY <1>1, <1>2 DEF Good

\* The lesser of two numbers.
LEMMA MinOfTwo ==
  ASSUME NEW i \in Nat, NEW j \in Nat
  PROVE  Min({i, j}) \in Nat
<1> DEFINE S == {i, j}
<1>1. S \in SUBSET Nat /\ S # {}
  OBVIOUS
<1>2. Min(S) \in Nat
  <2> HIDE DEF S
  <2> QED
    BY <1>1, MinIs
<1> QED
  BY <1>2

\* The last session is removed.
LEMMA RemoveSessionGood ==
  ASSUME NEW m, NEW a, NEW E, Good(m, a, {}, E), Len(m.sessions) > 1
  PROVE  Good(RemoveSession(m), a, {}, E)
<1> DEFINE s == Len(m.sessions)
           all == [m.sessions EXCEPT ![s].requested = @ + Much]
           times == IF m.removeIndex = s THEN Min({m.removes + 1, MaxRemoves}) ELSE 1
           shut == [m EXCEPT !.sessions = all, !.removes = times, !.removeIndex = s]
           n == RedirectAll(shut, s)
           more == IF n.sessions[s].requested # Much THEN {"left in a removed session"} ELSE {}
           left == [k \in 1 .. s - 1 |-> n.sessions[k]]
           Old(r) == [r EXCEPT !.old = TRUE, !.amount = 0]
           sent == { Old(r) : r \in n.sent }
           v == [n EXCEPT !.broken = @ \cup more, !.sessions = left, !.removed = TRUE, !.sent = sent]
<1>1. Typed(m) /\ m \in Managers /\ m.sessions \in Seq(Sessions)
  BY DEF Good, Typed, Managers
<1>2. /\ DOMAIN m.sessions = 1 .. s /\ s \in Nat /\ s > 1
      /\ \A k \in DOMAIN m.sessions : m.sessions[k] \in Sessions
  BY <1>1, SessionsAre
<1>3. all \in Seq(Sessions) /\ DOMAIN all = 1 .. s
  <2>0. Much \in Nat /\ m.sessions[s] \in Sessions
    BY <1>2, ConstantsAre
  <2>1. [m.sessions[s] EXCEPT !.requested = @ + Much] \in Sessions
    <3> HIDE DEF s
    <3> QED
      BY <2>0 DEF Sessions
  <2>2. all = [m.sessions EXCEPT ![s] = [m.sessions[s] EXCEPT !.requested = @ + Much]]
    OBVIOUS
  <2> HIDE DEF all, s
  <2> QED
    BY <1>1, <1>2, <2>1, <2>2
<1>4. times \in Nat
  <2>1. m.removes \in Nat /\ MaxRemoves \in Nat
    BY <1>1, ConstantsAre DEF Managers
  <2>2. m.removes + 1 \in Nat
    BY <2>1
  <2> QED
    BY <2>1, <2>2, MinOfTwo
<1>5. RemoveSession(m) = v
  <2>1. [m EXCEPT !.sessions[s].requested = @ + Much,
                  !.removes = IF m.removeIndex = s THEN Min({@ + 1, MaxRemoves}) ELSE 1,
                  !.removeIndex = s] = shut
    BY <1>1 DEF Managers
  <2> DEFINE gone(u) == [u EXCEPT
        !.broken = @ \cup (IF u.sessions[s].requested # Much
                           THEN {"left in a removed session"} ELSE {}),
        !.sessions = [k \in 1 .. s - 1 |-> @[k]], !.removed = TRUE,
        !.sent = { [r EXCEPT !.old = TRUE, !.amount = 0] : r \in @ }]
  <2>2. RemoveSession(m) = The({ gone(u) : u \in {n} })
    BY <2>1 DEF RemoveSession
  <2>3. gone(n) = v
    OBVIOUS
  <2> HIDE DEF gone, v, n
  <2>4. { gone(u) : u \in {n} } = { v }
    BY <2>3
  <2> QED
    BY <2>2, <2>4, TheIs
<1>6. Good(shut, a, {}, E) /\ shut.sessions = all
  <2>1. /\ shut \in Managers /\ shut.sessions = all /\ shut.task = m.task
        /\ shut.queue = m.queue /\ shut.sent = m.sent
    <3> HIDE DEF all, times, s
    <3> QED
      BY <1>1, <1>2, <1>3, <1>4 DEF Managers
  <2> HIDE DEF shut, all
  <2>2. all # <<>>
    BY <1>2, <1>3
  <2>3. Typed(shut)
    BY <1>1, <2>1, <2>2 DEF Typed
  <2> QED
    BY <2>1, <2>3, SameGood
<1>7. Good(n, a, {}, E) /\ DOMAIN n.sessions = 1 .. s
  <2> HIDE DEF shut, all
  <2> QED
    BY <1>3, <1>6, RedirectAllGood DEF Framed
<1> HIDE DEF shut, all, times, n, s
<1>8. Typed(n) /\ n \in Managers /\ \A k \in 1 .. s : n.sessions[k] \in Sessions
  BY <1>7, SessionsAre DEF Good, Typed
<1>9. left \in Seq(Sessions) /\ left # <<>>
  <2>1. left \in [1 .. s - 1 -> Sessions] /\ s - 1 \in Nat
    BY <1>2, <1>8
  <2>2. 1 \in DOMAIN left
    BY <1>2, <2>1
  <2> HIDE DEF left
  <2> QED
    BY <2>1, <2>2
<1>10. more \in SUBSET Failures
  BY DEF Failures
<1>11. \A r \in Requests : /\ Old(r) \in Requests /\ Old(r).task = r.task /\ Old(r).kind = r.kind
                           /\ Old(r).offset = r.offset
  <2> SUFFICES ASSUME NEW r \in Requests
               PROVE  /\ Old(r) \in Requests /\ Old(r).task = r.task /\ Old(r).kind = r.kind
                      /\ Old(r).offset = r.offset
    OBVIOUS
  <2>1. TRUE \in BOOLEAN /\ 0 \in Int
    OBVIOUS
  <2> QED
    BY <2>1 DEF Requests, AnyRequests
<1> HIDE DEF Old
<1>12. sent \in SUBSET Requests /\ IsFiniteSet(sent)
  <2>1. n.sent \in SUBSET Requests /\ IsFiniteSet(n.sent)
    BY <1>8 DEF Typed, Managers
  <2>2. IsFiniteSet(sent)
    <3> DEFINE f == [r \in n.sent |-> Old(r)]
    <3>1. f \in Surjection(n.sent, sent)
      BY DEF Surjection
    <3> HIDE DEF f, sent
    <3> QED
      BY <2>1, <3>1, FS_Surjection
  <2> QED
    BY <1>11, <2>1, <2>2
<1>13. /\ v \in Managers /\ v.task = n.task /\ v.queue = n.queue /\ v.sent = sent
       /\ v.sessions = left
  <2> HIDE DEF sent, left, more
  <2> QED
    BY <1>8, <1>9, <1>10, <1>12 DEF Managers
<1> HIDE DEF v, left
<1>14. Typed(v)
  BY <1>9, <1>12, <1>13 DEF Typed
<1>15. ASSUME NEW t \in Tasks
       PROVE  /\ Once(SentOf(n, t)) => Once(SentOf(v, t))
              /\ \A r \in SentOf(n, t) : \E q \in SentOf(v, t) : q.kind = r.kind /\ q.offset = r.offset
              /\ \A q \in SentOf(v, t) : \E r \in SentOf(n, t) : q.kind = r.kind /\ q.offset = r.offset
  <2>1. n.sent \in SUBSET Requests
    BY <1>8 DEF Managers
  <2>2. \A r \in SentOf(n, t) : Old(r) \in SentOf(v, t)
    BY <1>11, <1>13, <2>1 DEF SentOf
  <2>3. \A q \in SentOf(v, t) : \E r \in SentOf(n, t) : q = Old(r)
    BY <1>11, <1>13, <2>1 DEF SentOf
  <2>4. \A r \in SentOf(n, t) : Old(r).kind = r.kind /\ Old(r).offset = r.offset
    BY <1>11, <2>1 DEF SentOf
  <2>5. Once(SentOf(n, t)) => Once(SentOf(v, t))
    BY <2>3, <2>4 DEF Once
  <2> QED
    BY <2>2, <2>3, <2>4, <2>5
<1>16. Good(v, a, {}, E)
  BY <1>7, <1>13, <1>14, <1>15, MarkedGood
<1> QED
  BY <1>5, <1>16

\* The successes of all sessions are forgotten.
LEMMA NoSuccessesIs ==
  ASSUME NEW m, Typed(m)
  PROVE  /\ Typed(NoSuccesses(m)) /\ DOMAIN NoSuccesses(m).sessions = DOMAIN m.sessions
         /\ NoSuccesses(m).task = m.task /\ NoSuccesses(m).queue = m.queue
         /\ NoSuccesses(m).sent = m.sent
<1> DEFINE of(s) == [m.sessions[s] EXCEPT !.successes = 0]
           all == [s \in DOMAIN m.sessions |-> of(s)]
           n == NoSuccesses(m)
<1>1. m \in Managers /\ IsFiniteSet(m.sent)
  BY DEF Typed
<1>2. /\ DOMAIN m.sessions = 1 .. Len(m.sessions) /\ Len(m.sessions) \in Nat /\ Len(m.sessions) > 0
      /\ \A s \in DOMAIN m.sessions : m.sessions[s] \in Sessions
  BY SessionsAre DEF Positive
<1>3. \A s \in DOMAIN m.sessions : of(s) \in Sessions
  BY <1>2 DEF Sessions
<1> HIDE DEF of
<1>4. all \in Seq(Sessions) /\ all # <<>> /\ DOMAIN all = DOMAIN m.sessions
  <2>1. all \in [1 .. Len(m.sessions) -> Sessions] /\ 1 \in DOMAIN all
    BY <1>2, <1>3
  <2> HIDE DEF all
  <2> QED
    BY <1>2, <2>1
<1>5. n = [m EXCEPT !.sessions = all]
  BY DEF NoSuccesses, of
<1> HIDE DEF all, n
<1> QED
  BY <1>1, <1>4, <1>5 DEF Typed, Managers, n

\* sessionTimedOut(), with or without the removal of a session.
LEMMA SessionTimedOutGood ==
  ASSUME NEW m, NEW a, NEW E, Good(m, a, {}, E), NEW s
  PROVE  Good(SessionTimedOut(m, s), a, {}, E)
<1> DEFINE n == NoSuccesses(m)
<1>1. Typed(m) /\ m \in Managers /\ m.timeouts \in Nat
  BY DEF Good, Typed, Managers
<1>2. /\ Typed(n) /\ n.task = m.task /\ n.queue = m.queue /\ n.sent = m.sent
      /\ DOMAIN n.sessions = DOMAIN m.sessions
  BY <1>1, NoSuccessesIs
<1>3. Good(n, a, {}, E)
  <2> HIDE DEF n
  <2> QED
    BY <1>2, SameGood
<1> HIDE DEF n
<1>4. n \in Managers /\ n.timeouts \in Nat /\ n.sessions # <<>> /\ IsFiniteSet(n.sent)
  BY <1>2 DEF Typed, Managers
<1>5. ASSUME NEW k \in Nat
      PROVE  Good([n EXCEPT !.timeouts = k], a, {}, E) /\ [n EXCEPT !.timeouts = k].sessions = n.sessions
  <2> DEFINE v == [n EXCEPT !.timeouts = k]
  <2>1. /\ v \in Managers /\ v.task = n.task /\ v.queue = n.queue /\ v.sent = n.sent
        /\ v.sessions = n.sessions
    BY <1>4 DEF Managers
  <2> HIDE DEF v
  <2>2. Typed(v)
    BY <1>4, <2>1 DEF Typed
  <2>3. Good(v, a, {}, E)
    BY <1>3, <2>1, <2>2, SameGood
  <2> QED
    BY <2>1, <2>3 DEF v
<1>6. CASE s \notin DOMAIN m.sessions
  BY <1>6 DEF SessionTimedOut
<1>7. CASE s \in DOMAIN m.sessions /\ Len(m.sessions) = 1
  BY <1>3, <1>7 DEF SessionTimedOut, n
<1>8. CASE s \in DOMAIN m.sessions /\ Len(m.sessions) > 1 /\ m.timeouts + 1 < RemoveAfter
  <2>1. SessionTimedOut(m, s) = [n EXCEPT !.timeouts = @ + 1]
    BY <1>8 DEF SessionTimedOut, n
  <2>2. n.timeouts + 1 \in Nat
    BY <1>4
  <2>3. [n EXCEPT !.timeouts = @ + 1] = [n EXCEPT !.timeouts = n.timeouts + 1]
    OBVIOUS
  <2> QED
    BY <1>5, <2>1, <2>2, <2>3
<1>9. CASE s \in DOMAIN m.sessions /\ Len(m.sessions) # 1
             /\ ~(Len(m.sessions) > 1 /\ m.timeouts + 1 < RemoveAfter)
  <2> DEFINE v == [n EXCEPT !.timeouts = 0]
  <2>1. SessionTimedOut(m, s) = RemoveSession(v)
    BY <1>9 DEF SessionTimedOut, n
  <2>2. Good(v, a, {}, E) /\ v.sessions = n.sessions
    <3>1. 0 \in Nat
      OBVIOUS
    <3> QED
      BY <1>5, <3>1
  <2> HIDE DEF v
  <2>3. Len(v.sessions) > 1
    <3>1. /\ DOMAIN m.sessions = 1 .. Len(m.sessions) /\ Len(m.sessions) \in Nat
          /\ Len(m.sessions) > 0
      BY <1>1, SessionsAre DEF Positive
    <3>2. DOMAIN v.sessions = 1 .. Len(v.sessions) /\ Len(v.sessions) \in Nat
      BY <2>2, SessionsAre DEF Good, Positive
    <3>3. 1 .. Len(v.sessions) = 1 .. Len(m.sessions)
      BY <1>2, <2>2, <3>1, <3>2
    <3>4. Len(m.sessions) \in 1 .. Len(m.sessions) /\ Len(m.sessions) > 1
      <4>1. PICK N : N = Len(m.sessions)
        OBVIOUS
      <4>2. N # 1 /\ N \in Nat /\ N > 0
        BY <1>9, <3>1, <4>1
      <4>3. N \in 1 .. N /\ N > 1
        BY <4>2
      <4> QED
        BY <4>1, <4>3
    <3>5. Len(m.sessions) \in 1 .. Len(v.sessions)
      BY <3>3, <3>4
    <3> QED
      BY <3>1, <3>2, <3>4, <3>5
  <2> QED
    BY <2>1, <2>2, <2>3, RemoveSessionGood
<1>10. Len(m.sessions) \in Nat
  BY <1>1, SessionsAre DEF Positive
<1> QED
  BY <1>6, <1>7, <1>8, <1>9, <1>10

\* What the invariant only types is changed.
LEMMA SessionsSetIs ==
  ASSUME NEW m, Typed(m), NEW q \in Seq(Sessions), q # <<>>
  PROVE  /\ Typed([m EXCEPT !.sessions = q]) /\ [m EXCEPT !.sessions = q].task = m.task
         /\ [m EXCEPT !.sessions = q].queue = m.queue /\ [m EXCEPT !.sessions = q].sent = m.sent
         /\ [m EXCEPT !.sessions = q].sessions = q
<1>1. m \in Managers
  BY DEF Typed
<1> QED
  BY <1>1 DEF Typed, Managers

\* What a failed assertion leaves alone.
LEMMA BrokenSetIs ==
  ASSUME NEW m, Typed(m), NEW e \in Failures
  PROVE  /\ Typed([m EXCEPT !.broken = @ \cup {e}]) /\ [m EXCEPT !.broken = @ \cup {e}].task = m.task
         /\ [m EXCEPT !.broken = @ \cup {e}].queue = m.queue
         /\ [m EXCEPT !.broken = @ \cup {e}].sent = m.sent
<1>1. m \in Managers
  BY DEF Typed
<1> QED
  BY <1>1 DEF Typed, Managers

\* What a posted sessionTimedOut() leaves alone.
LEMMA PostedSetIs ==
  ASSUME NEW m, Typed(m), NEW q \in Seq(Positive)
  PROVE  /\ Typed([m EXCEPT !.posted = q]) /\ [m EXCEPT !.posted = q].task = m.task
         /\ [m EXCEPT !.posted = q].queue = m.queue /\ [m EXCEPT !.posted = q].sent = m.sent
<1>1. m \in Managers
  BY DEF Typed
<1> QED
  BY <1>1 DEF Typed, Managers

\* What the number of time-outs leaves alone.
LEMMA TimeoutsSetIs ==
  ASSUME NEW m, Typed(m), NEW k \in Nat
  PROVE  /\ Typed([m EXCEPT !.timeouts = k]) /\ [m EXCEPT !.timeouts = k].task = m.task
         /\ [m EXCEPT !.timeouts = k].queue = m.queue /\ [m EXCEPT !.timeouts = k].sent = m.sent
<1>1. m \in Managers
  BY DEF Typed
<1> QED
  BY <1>1 DEF Typed, Managers

\* A session that has succeeded once more.
GrownSession(mine, r) ==
  [mine EXCEPT
     !.max = IF r.amount = @ THEN Min({@ + 1, MaxWaited}) ELSE @,
     !.successes = Min({@ + 1, RetrySuccesses * MaxRemoves})]

\* One session succeeds once more.
LEMMA GrownIs ==
  ASSUME NEW m \in Managers, NEW r, r.session \in DOMAIN m.sessions,
         m.sessions[r.session] \in Sessions
  PROVE  Grown(m, r) =
           [m EXCEPT !.sessions = [m.sessions EXCEPT ![r.session] =
              GrownSession(m.sessions[r.session], r)]]
<1> DEFINE s == r.session
           mine == m.sessions[s]
           a == IF r.amount = mine.max THEN Min({mine.max + 1, MaxWaited}) ELSE mine.max
           b == Min({mine.successes + 1, RetrySuccesses * MaxRemoves})
<1>1. Grown(m, r) = [m EXCEPT !.sessions[s].max = a, !.sessions[s].successes = b]
  BY DEF Managers, Sessions, Grown
<1>2. GrownSession(mine, r) = [mine EXCEPT !.max = a, !.successes = b]
  BY DEF Sessions, GrownSession
<1> HIDE DEF a, b
<1>3. [m EXCEPT !.sessions[s].max = a, !.sessions[s].successes = b]
      = [m EXCEPT !.sessions = [m.sessions EXCEPT ![s] = [mine EXCEPT !.max = a, !.successes = b]]]
  BY DEF Managers
<1> QED
  BY <1>1, <1>2, <1>3

\* requestSucceeded() changes the sessions only.
LEMMA RequestSucceededIs ==
  ASSUME NEW m, Typed(m), NEW r \in Requests, NEW slow \in BOOLEAN, NEW waited \in BOOLEAN
  PROVE  /\ Typed(RequestSucceeded(m, r, slow, waited))
         /\ RequestSucceeded(m, r, slow, waited).task = m.task
         /\ RequestSucceeded(m, r, slow, waited).queue = m.queue
         /\ RequestSucceeded(m, r, slow, waited).sent = m.sent
<1> DEFINE s == r.session
           mine == m.sessions[s]
           next == [mine EXCEPT
                      !.max = IF r.amount = @ THEN Min({@ + 1, MaxWaited}) ELSE @,
                      !.successes = Min({@ + 1, RetrySuccesses * MaxRemoves})]
           all == [m.sessions EXCEPT ![s] = next]
           grown == [m EXCEPT !.sessions = all]
           enough == \A k \in DOMAIN grown.sessions :
                       grown.sessions[k].successes >= (m.removes + 1) * RetrySuccesses
           start == NoSuccesses(grown)
           new == [start EXCEPT !.sessions = Append(@, NewSession)]
           n == RequestSucceeded(m, r, slow, waited)
           Same(v) == Typed(v) /\ v.task = m.task /\ v.queue = m.queue /\ v.sent = m.sent
<1>1. m \in Managers /\ m.sessions \in Seq(Sessions) /\ m.posted \in Seq(Positive) /\ s \in Positive
  BY DEF Typed, Managers, Requests, AnyRequests
<1>2. \A k \in DOMAIN m.sessions : m.sessions[k] \in Sessions
  BY SessionsAre
<1>3. CASE s \notin DOMAIN m.sessions
  <2>1. n = [m EXCEPT !.broken = @ \cup {"no such session"}]
    BY <1>3 DEF RequestSucceeded
  <2>2. "no such session" \in Failures
    BY DEF Failures
  <2> QED
    BY <2>1, <2>2, BrokenSetIs
<1>4. CASE s \in DOMAIN m.sessions /\ (r.old \/ r.amount > mine.max)
  BY <1>4 DEF RequestSucceeded
<1>5. CASE s \in DOMAIN m.sessions /\ ~(r.old \/ r.amount > mine.max)
  <2>1. next \in Sessions
    <3>1. mine \in Sessions
      BY <1>2, <1>5
    <3>2. mine.max \in Nat /\ mine.successes \in Nat
      BY <3>1 DEF Sessions
    <3>3. Min({mine.max + 1, MaxWaited}) \in Nat
      BY <3>2, ConstantsAre, MinOfTwo
    <3>4. Min({mine.successes + 1, RetrySuccesses * MaxRemoves}) \in Nat
      <4>1. mine.successes + 1 \in Nat
        BY <3>2
      <4>2. RetrySuccesses * MaxRemoves \in Nat
        BY ConstantsAre
      <4> QED
        BY <4>1, <4>2, MinOfTwo
    <3> HIDE DEF mine
    <3> QED
      BY <3>1, <3>2, <3>3, <3>4 DEF Sessions
  <2>2. all \in Seq(Sessions) /\ all # <<>>
    <3>1. m.sessions # <<>>
      BY DEF Typed
    <3> HIDE DEF next, s
    <3> QED
      BY <1>1, <1>5, <2>1, <3>1
  <2>3. grown = Grown(m, r)
    BY Zenon, <1>1, <1>2, <1>5, GrownIs DEF GrownSession
  <2>4. /\ slow => n = [m EXCEPT !.posted = Append(@, s)]
        /\ ~slow /\ ~enough => n = grown
        /\ ~slow /\ enough /\ m.timeouts > 0 => n = [start EXCEPT !.timeouts = @ - 1]
        /\ ~slow /\ enough /\ m.timeouts = 0 => n = new \/ n = start
    <3>1. n = CASE slow -> [m EXCEPT !.posted = Append(@, s)]
               [] ~slow /\ ~enough -> grown
               [] ~slow /\ enough /\ m.timeouts > 0 -> [start EXCEPT !.timeouts = @ - 1]
               [] ~slow /\ enough /\ m.timeouts = 0 ->
                    IF Len(m.sessions) < MaxSessions /\ (m.removed => waited) THEN new ELSE start
      <4> HIDE DEF grown
      <4> QED
        BY <1>5, <2>3 DEF RequestSucceeded
    <3> HIDE DEF n, start, new, enough, grown
    <3> QED
      BY <3>1
  <2> HIDE DEF next, all
  <2>5. Same(grown)
    BY <2>2, SessionsSetIs
  <2> HIDE DEF grown, enough
  <2>6. Same(start)
    BY <2>5, NoSuccessesIs
  <2> HIDE DEF start
  <2>7. Same(new)
    <3>1. NewSession \in Sessions
      BY ConstantsAre DEF NewSession, Sessions
    <3>2. start.sessions \in Seq(Sessions) /\ start.sessions # <<>>
      BY <2>6 DEF Typed, Managers
    <3>3. Append(start.sessions, NewSession) \in Seq(Sessions)
      BY <3>1, <3>2
    <3>4. Append(start.sessions, NewSession) # <<>>
      BY <3>1, <3>2
    <3> QED
      BY <2>6, <3>3, <3>4, SessionsSetIs
  <2> HIDE DEF new
  <2>8. Same([m EXCEPT !.posted = Append(@, s)])
    <3>1. Append(m.posted, s) \in Seq(Positive)
      BY <1>1
    <3> QED
      BY <3>1, PostedSetIs
  <2>9. m.timeouts > 0 => Same([start EXCEPT !.timeouts = @ - 1])
    <3>1. start.timeouts = m.timeouts
      <4>1. grown.timeouts = m.timeouts /\ grown \in Managers
        BY <1>1, <2>5 DEF Typed, Managers, grown
      <4>2. start.timeouts = grown.timeouts
        BY <4>1 DEF start, NoSuccesses, Managers
      <4> QED
        BY <4>1, <4>2
    <3>2. m.timeouts \in Nat
      BY <1>1 DEF Managers
    <3>3. ASSUME m.timeouts > 0
          PROVE  start.timeouts - 1 \in Nat
      BY <3>1, <3>2, <3>3
    <3> QED
      BY <2>6, <3>3, TimeoutsSetIs
  <2>10. m.timeouts \in Nat
    BY <1>1 DEF Managers
  <2>11. m.timeouts > 0 \/ m.timeouts = 0
    BY <2>10
  <2>12. Same(n)
    <3> HIDE DEF n, Same
    <3>1. CASE slow
      BY <2>4, <2>8, <3>1
    <3>2. CASE ~slow /\ ~enough
      BY <2>4, <2>5, <3>2
    <3>3. CASE ~slow /\ enough /\ m.timeouts > 0
      BY <2>4, <2>9, <3>3
    <3>4. CASE ~slow /\ enough /\ m.timeouts = 0
      BY <2>4, <2>6, <2>7, <3>4
    <3> QED
      BY <2>11, <3>1, <3>2, <3>3, <3>4
  <2> QED
    BY <2>12
<1> QED
  BY <1>3, <1>4, <1>5

\* A request is done: its part is in hand.
LEMMA SucceedGood ==
  ASSUME NEW m, NEW t \in Tasks, Good(m, t, {}, {}), NEW r \in SentOf(m, t),
         NEW slow \in BOOLEAN, NEW waited \in BOOLEAN
  PROVE  /\ Good(Succeed(m, r, slow, waited), t, Out({r}), {})
         /\ Succeed(m, r, slow, waited).task = m.task
         /\ SentOf(Succeed(m, r, slow, waited), t) = SentOf(m, t) \ {r}
<1> DEFINE F == Finish(m, {r})
           n == Succeed(m, r, slow, waited)
<1>1. r \in Requests
  BY SentOfIs DEF Good
<1>2. /\ Good(F, t, Out({r}), {}) /\ F.task = m.task /\ SentOf(F, t) = SentOf(m, t) \ {r}
  BY OneFinished
<1>3. n = RequestSucceeded(F, r, slow, waited)
  BY DEF Succeed
<1>4. Typed(n) /\ n.task = F.task /\ n.queue = F.queue /\ n.sent = F.sent
  <2> HIDE DEF F, n
  <2> QED
    BY <1>1, <1>2, <1>3, RequestSucceededIs DEF Good
<1> HIDE DEF F, n
<1>5. Good(n, t, Out({r}), {})
  BY <1>2, <1>4, SameGood
<1>6. SentOf(n, t) = SentOf(F, t)
  BY <1>4 DEF SentOf
<1> QED
  BY <1>2, <1>4, <1>5, <1>6 DEF n

-----------------------------------------------------------------------------
(* A task ends, is fed, and moves to a CDN or back. *)

\* A task that is over.
LEMMA NoTaskIs ==
  ASSUME NEW how \in {"done", "failed", "cancelled", "gone"}, NEW L \in SUBSET Nat
  PROVE  [NoTask EXCEPT !.state = how, !.loaded = L] \in TaskStates
<1> DEFINE y == [NoTask EXCEPT !.state = how, !.loaded = L]
<1>1. <<>> \in UNION { [K -> Positive] : K \in SUBSET Nat }
  <2>1. <<>> \in [{} -> Positive]
    OBVIOUS
  <2>2. {} \in SUBSET Nat
    OBVIOUS
  <2> QED
    BY <2>1, <2>2
<1>2. NoTask \in TaskStates
  BY <1>1 DEF NoTask, TaskStates
<1>3. y \in TaskStates
  BY <1>2 DEF TaskStates
<1> QED
  BY <1>3

\* The loader is destroyed.
LEMMA EndGood ==
  ASSUME NEW m, NEW t \in Tasks, NEW H, NEW E, Good(m, t, H, E),
         NEW how \in {"done", "failed", "cancelled", "gone"},
         how = "done" => t \in Files /\ m.task[t].loaded = Offsets(t)
  PROVE  Good(End(m, t, how), t, {}, E)
<1> DEFINE S == SentOf(m, t)
           F == Finish(m, S)
           x == m.task[t]
           y == [NoTask EXCEPT !.state = how, !.loaded = x.loaded]
           u == Unqueue(F, t)
<1>1. /\ Good(F, t, H \cup Out(S), E) /\ F.task = m.task /\ SentOf(F, t) = {}
  <2>1. S \in SUBSET SentOf(m, t)
    OBVIOUS
  <2>2. SentOf(m, t) \ S = {}
    OBVIOUS
  <2> HIDE DEF S
  <2>3. /\ Good(Finish(m, S), t, H \cup Out(S), E) /\ Finish(m, S).task = m.task
        /\ SentOf(Finish(m, S), t) = SentOf(m, t) \ S
    BY <2>1, FinishGood
  <2> QED
    BY <2>2, <2>3
<1>2. x \in TaskStates /\ F \in Managers /\ F.task[t] = x /\ F.task \in [Tasks -> TaskStates]
  <2>1. F \in Managers
    BY <1>1 DEF Good, Typed
  <2>2. F.task \in [Tasks -> TaskStates]
    BY <2>1 DEF Managers
  <2> HIDE DEF F
  <2> QED
    BY <1>1, <2>1, <2>2
<1>3. y \in TaskStates
  <2>1. x.loaded \in SUBSET Nat
    BY <1>2 DEF TaskStates
  <2> QED
    BY <2>1, NoTaskIs
<1>4. /\ y.next = 0 /\ y.loaded = x.loaded /\ y.wanted = {} /\ y.waits = {}
      /\ DOMAIN y.unchecked = {} /\ ~y.cdn /\ ~y.lostRef /\ y.state = how
  BY DEF NoTask
<1> HIDE DEF y
<1>5. [CancelRequests(m, t, S) EXCEPT !.task[t] = y] = Put(F, t, y)
  <2> DEFINE b == x.more \/ (Unchecked(m, t) # {} /\ \E r \in S : r.kind = "hashes")
             c == x.lostRef \/ \E r \in S : r.at = "reference"
  <2>1. CancelRequests(m, t, S) = [F EXCEPT !.task[t].more = b, !.task[t].lostRef = c]
    BY <1>2 DEF CancelRequests
  <2> HIDE DEF b, c, x, F
  <2>2. [[F EXCEPT !.task[t].more = b, !.task[t].lostRef = c] EXCEPT !.task[t] = y]
          = [F EXCEPT !.task[t] = y]
    BY <1>2 DEF Managers
  <2> QED
    BY <2>1, <2>2 DEF Put
<1>6. End(m, t, how) = CheckSendNext(Unqueue(Put(F, t, y), t))
  BY <1>5 DEF End, Dequeue, y
<1>7. Unqueue(Put(F, t, y), t) = Put(u, t, y)
  <2>1. Put(F, t, y).queue = F.queue
    BY <1>2 DEF Put, Managers
  <2>2. PlaceInQueue(Put(F, t, y), t) = PlaceInQueue(F, t)
    BY <2>1 DEF PlaceInQueue
  <2> HIDE DEF F
  <2> DEFINE k == PlaceInQueue(F, t)
  <2> HIDE DEF k
  <2>3. CASE k = 0
    BY <2>2, <2>3 DEF Unqueue, k
  <2>4. CASE k # 0
    <3>1. Unqueue(Put(F, t, y), t) = [Put(F, t, y) EXCEPT !.queue = RemoveAt(F.queue, k)]
      BY <2>1, <2>2, <2>4 DEF Unqueue, k
    <3>2. u = [F EXCEPT !.queue = RemoveAt(F.queue, k)]
      BY <2>4 DEF Unqueue, k
    <3> HIDE DEF u
    <3> QED
      BY <1>2, <3>1, <3>2 DEF Put, Managers
  <2> QED
    BY <2>3, <2>4
<1>8. /\ Good(u, t, H \cup Out(S), E) /\ ~InQueue(u, t) /\ u.task = F.task /\ u.sent = F.sent
  BY <1>1, UnqueueGood
<1>9. SentOf(u, t) = {}
  BY <1>1, <1>8 DEF SentOf
<1>10. TaskOK(t, y, {}, {}, PartsIn(E, t))
  <2>1. Out({}) = {} /\ Offs({}) = {} /\ Wanted(y) = {}
    BY <1>4 DEF Out, Offs, Wanted
  <2>2. TaskOK(t, x, SentOf(m, t), H, PartsIn(E, t))
    BY DEF Good
  <2>3. Parts[t] \in Nat
    BY TasksAre
  <2>4. t \in Files => FileOK(t, y, {}, {})
    BY <1>4, <2>1, <2>3 DEF FileOK
  <2>5. t \in Streams => StreamOK(t, y, {}, {})
    BY <1>4, <2>1, <2>2, TasksAre DEF StreamOK, TaskOK
  <2>6. NeatOK(y, {}, {}, PartsIn(E, t))
    BY <1>4, <2>1 DEF NeatOK, Once
  <2> QED
    BY <2>4, <2>5, <2>6 DEF TaskOK
<1> HIDE DEF S, F, u, x
<1>11. Good(Put(u, t, y), t, {}, E)
  <2>1. PICK K : K = {}
    OBVIOUS
  <2>2. TaskOK(t, y, SentOf(u, t), K, PartsIn(E, t))
    BY <1>9, <1>10, <2>1
  <2>3. Good(Put(u, t, y), t, K, E)
    BY <1>3, <1>8, <2>2, PutSame
  <2> QED
    BY <2>1, <2>3
<1> QED
  BY <1>6, <1>7, <1>11, CheckSendNextGood

\* A part has failed.
LEMMA CancelOnFailGood ==
  ASSUME NEW m, NEW t \in Tasks, NEW H, NEW E, Good(m, t, H, E)
  PROVE  Good(CancelOnFail(m, t), t, {}, E)
<1>1. CASE t \in Files
  <2>1. CancelOnFail(m, t) = End(m, t, "failed")
    BY <1>1 DEF CancelOnFail
  <2> QED
    BY <2>1, EndGood
<1>2. CASE t \notin Files
  <2> DEFINE x == m.task[t]
             y == [x EXCEPT !.state = "failed", !.waits = {}]
  <2>0. t \in Streams
    BY <1>2, TasksAre
  <2>1. /\ x \in TaskStates /\ m \in Managers /\ m.task \in [Tasks -> TaskStates]
        /\ TaskOK(t, x, SentOf(m, t), H, PartsIn(E, t))
    BY DEF Good, Typed, Managers
  <2>2. CancelOnFail(m, t) = Put(m, t, y)
    <3>1. [[m EXCEPT !.task[t].state = "failed"] EXCEPT !.task[t].waits = {}]
            = [m EXCEPT !.task[t] = y]
      BY <2>1 DEF Managers, TaskStates
    <3> QED
      BY <1>2, <3>1 DEF CancelOnFail, Put
  <2> HIDE DEF x
  <2>3. /\ y \in TaskStates /\ y.next = x.next /\ y.loaded = x.loaded /\ y.wanted = x.wanted
        /\ y.waits = {} /\ y.unchecked = x.unchecked /\ y.cdn = x.cdn
        /\ y.astray = x.astray /\ y.state = "failed"
    BY <2>1 DEF TaskStates
  <2> HIDE DEF y
  <2>4. TaskOK(t, y, SentOf(m, t), {}, PartsIn(E, t))
    <3>1. Wanted(y) = Wanted(x)
      BY <2>3 DEF Wanted
    <3>2. StreamOK(t, y, SentOf(m, t), {})
      BY <2>0, <2>1, <2>3, <3>1 DEF TaskOK, StreamOK
    <3>3. NeatOK(x, SentOf(m, t), H, PartsIn(E, t)) => NeatOK(y, SentOf(m, t), {}, PartsIn(E, t))
      BY <2>3, <3>1 DEF NeatOK
    <3> QED
      BY <1>2, <2>1, <2>3, <3>2, <3>3 DEF TaskOK
  <2>5. PICK K : K = {}
    OBVIOUS
  <2>6. TaskOK(t, y, SentOf(m, t), K, PartsIn(E, t))
    BY <2>4, <2>5
  <2>7. Good(Put(m, t, y), t, K, E)
    BY <1>2, <2>3, <2>6, PutSame
  <2> QED
    BY <2>2, <2>5, <2>7
<1> QED
  BY <1>1, <1>2

\* Parts in hand are fed.
LEMMA FeedPartsGood ==
  ASSUME NEW m, NEW t \in Tasks, NEW F, NEW E, Good(m, t, F, E),
         t \in Files => m.task[t].state = "on"
  PROVE  Good(FeedParts(m, t, F), t, {}, E)
<1> DEFINE x == m.task[t]
<1>1. /\ x \in TaskStates /\ m \in Managers /\ m.task \in [Tasks -> TaskStates]
      /\ TaskOK(t, x, SentOf(m, t), F, PartsIn(E, t))
  BY DEF Good, Typed, Managers
<1>2. CASE t \in Files
  <2> DEFINE y == [x EXCEPT !.loaded = @ \cup F]
             n == [m EXCEPT !.task[t].loaded = @ \cup F]
  <2>1. n = Put(m, t, y)
    BY <1>1 DEF Put, Managers
  <2>2. FeedParts(m, t, F) = IF F # {} /\ ~HaveSent(m, t) /\ x.next >= Parts[t]
                             THEN End(n, t, "done") ELSE n
    BY <1>2 DEF FeedParts
  <2> HIDE DEF n, x
  <2>3. FileOK(t, x, SentOf(m, t), F) /\ x.state = "on"
    BY <1>1, <1>2 DEF TaskOK, x
  <2>4. F \subseteq Taken(x) /\ Taken(x) \subseteq Nat /\ x.loaded \subseteq Taken(x)
    <3>1. x.next \in Nat
      BY <1>1 DEF TaskStates
    <3> QED
      BY <2>3, <3>1 DEF FileOK, Taken
  <2>5. /\ y \in TaskStates /\ y.next = x.next /\ y.loaded = x.loaded \cup F
        /\ y.wanted = x.wanted /\ y.waits = x.waits /\ y.unchecked = x.unchecked
        /\ y.cdn = x.cdn /\ y.astray = x.astray /\ y.state = x.state
    BY <1>1, <2>4 DEF TaskStates
  <2> HIDE DEF y
  <2>6. TaskOK(t, y, SentOf(m, t), {}, PartsIn(E, t))
    <3>1. Wanted(y) = Wanted(x) /\ Taken(y) = Taken(x)
      BY <2>5 DEF Wanted, Taken
    <3>2. FileOK(t, y, SentOf(m, t), {})
      BY <2>3, <2>5, <3>1 DEF FileOK
    <3>3. ASSUME NeatOK(x, SentOf(m, t), F, PartsIn(E, t))
          PROVE  NeatOK(y, SentOf(m, t), {}, PartsIn(E, t))
      <4>1. Wanted(x) = {} /\ x.waits = {}
        BY <2>3 DEF FileOK, Wanted
      <4> QED
        BY <2>5, <3>1, <3>3, <4>1 DEF NeatOK
    <3>4. t \notin Streams
      BY <1>2, TasksAre
    <3> QED
      BY <1>1, <2>5, <3>2, <3>3, <3>4 DEF TaskOK
  <2>7. /\ Good(n, t, {}, E) /\ n.task[t] = y
    <3>1. PICK K : K = {}
      OBVIOUS
    <3>2. TaskOK(t, y, SentOf(m, t), K, PartsIn(E, t)) /\ y.state = "on"
      BY <2>3, <2>5, <2>6, <3>1
    <3>3. Good(Put(m, t, y), t, K, E) /\ Put(m, t, y).task[t] = y
      BY <2>5, <3>2, PutSame
    <3> QED
      BY <2>1, <3>1, <3>3
  <2>8. ASSUME ~HaveSent(m, t), x.next >= Parts[t]
        PROVE  y.loaded = Offsets(t)
    <3>1. Offs(SentOf(m, t)) = {} /\ Out(SentOf(m, t)) = {} /\ DOMAIN x.unchecked = {}
      BY <2>8 DEF HaveSent, Unchecked, Offs, Out, x
    <3>2. Taken(x) = x.loaded \cup F
      BY <2>3, <2>4, <3>1 DEF FileOK
    <3>3. x.next = Parts[t]
      <4>1. x.next \in Nat /\ Parts[t] \in Nat /\ x.next <= Parts[t]
        BY <1>1, <2>3, TasksAre DEF TaskStates, FileOK
      <4> QED
        BY <2>8, <4>1
    <3> QED
      BY <2>5, <3>2, <3>3 DEF Taken, Offsets
  <2>9. CASE F # {} /\ ~HaveSent(m, t) /\ x.next >= Parts[t]
    <3>1. n.task[t].loaded = Offsets(t)
      BY <2>7, <2>8, <2>9
    <3>2. Good(End(n, t, "done"), t, {}, E)
      BY <1>2, <2>7, <3>1, EndGood
    <3> QED
      BY <2>2, <2>9, <3>2
  <2>10. CASE ~(F # {} /\ ~HaveSent(m, t) /\ x.next >= Parts[t])
    BY <2>2, <2>7, <2>10
  <2> QED
    BY <2>9, <2>10
<1>3. CASE t \notin Files
  <2> DEFINE y == [x EXCEPT !.waits = @ \ F]
  <2>0. t \in Streams
    BY <1>3, TasksAre
  <2>1. FeedParts(m, t, F) = Put(m, t, y)
    <3>1. [m EXCEPT !.task[t].waits = @ \ F] = [m EXCEPT !.task[t] = y]
      BY <1>1 DEF Managers
    <3> QED
      BY <1>3, <3>1 DEF FeedParts, Put
  <2> HIDE DEF x
  <2>2. /\ y \in TaskStates /\ y.next = x.next /\ y.loaded = x.loaded /\ y.wanted = x.wanted
        /\ y.waits = x.waits \ F /\ y.unchecked = x.unchecked /\ y.cdn = x.cdn
        /\ y.astray = x.astray /\ y.state = x.state
    BY <1>1 DEF TaskStates
  <2> HIDE DEF y
  <2>3. TaskOK(t, y, SentOf(m, t), {}, PartsIn(E, t))
    <3>1. Wanted(y) = Wanted(x)
      BY <2>2 DEF Wanted
    <3>2. StreamOK(t, y, SentOf(m, t), {})
      BY <1>1, <2>0, <2>2, <3>1 DEF TaskOK, StreamOK
    <3>3. NeatOK(x, SentOf(m, t), F, PartsIn(E, t)) => NeatOK(y, SentOf(m, t), {}, PartsIn(E, t))
      BY <2>2, <3>1 DEF NeatOK
    <3> QED
      BY <1>1, <1>3, <2>2, <3>2, <3>3 DEF TaskOK
  <2>4. PICK K : K = {}
    OBVIOUS
  <2>5. TaskOK(t, y, SentOf(m, t), K, PartsIn(E, t))
    BY <2>3, <2>4
  <2>6. Good(Put(m, t, y), t, K, E)
    BY <1>3, <2>2, <2>5, PutSame
  <2> QED
    BY <2>1, <2>4, <2>6
<1> QED
  BY <1>2, <1>3

\* Requests are made for parts in hand; G are other parts in hand.
Apart(R, G, astray) ==
  astray \/ /\ Offs(R) \cap G = {}
            /\ \A q, r \in R : q.offset = r.offset => q = r

\* P holds whatever the loop of changeCDNParams() makes of m, round for round.
MakesIn(P, m, t, R) ==
  /\ P \subseteq [m : Managers, left : SUBSET R]
  /\ [m |-> m, left |-> R] \in P
  /\ \A v \in P : \A r \in v.left :
       [m |-> MakeRequest(v.m, t, r.offset, r.session), left |-> v.left \ {r}] \in P

\* n is what a loop that stays in P left when nothing was left to make.
MadeIn(P, n) == \E v \in P : v.left = {} /\ n = v.m

\* The loop of changeCDNParams() keeps to what each of its rounds keeps to.
LEMMA MakeRequestsLoop ==
  ASSUME NEW m, NEW t, NEW R, IsFiniteSet(R), NEW P, MakesIn(P, m, t, R)
  PROVE  MadeIn(P, MakeRequests(m, t, R))
<1> DEFINE N == Cardinality(R)
           start == [m |-> m, left |-> R]
           Next1(v) == CHOOSE r \in v.left : TRUE
           make(v, r) == [m |-> MakeRequest(v.m, t, r.offset, r.session), left |-> v.left \ {r}]
           Step(v) == make(v, Next1(v))
           OK(n, v) == v \in P /\ Cardinality(v.left) = N - n
           D == { p \in (0 .. N) \X P : OK(p[1], p[2]) }
           F == [p \in D |-> Step(p[2])]
           Round(g, n) == IF n = 0 THEN start
                          ELSE The({ make(v, CHOOSE r \in v.left : TRUE) : v \in {g[n - 1]} })
           Keeps(g) == g = [n \in 0 .. N |-> Round(g, n)]
           after == CHOOSE g : Keeps(g)
<1>a. /\ P \in SUBSET [m : Managers, left : SUBSET R]
      /\ start \in P /\ \A v \in P : \A r \in v.left : make(v, r) \in P
  BY DEF MakesIn
<1>0. N \in Nat /\ \A v \in P : v.left \subseteq R
  BY <1>a, FS_CardinalityType
<1>1. MakeRequests(m, t, R) = after[N].m
  BY DEF MakeRequests
<1>2. \A g : Round(g, 0) = start
  OBVIOUS
<1>3. \A g, n : n # 0 => Round(g, n) = Step(g[n - 1])
  <2> SUFFICES ASSUME NEW g, NEW n, n # 0
               PROVE  Round(g, n) = Step(g[n - 1])
    OBVIOUS
  <2> HIDE DEF make
  <2>1. { make(v, CHOOSE r \in v.left : TRUE) : v \in {g[n - 1]} } = { Step(g[n - 1]) }
    OBVIOUS
  <2>2. The({ make(v, CHOOSE r \in v.left : TRUE) : v \in {g[n - 1]} }) = Step(g[n - 1])
    BY <2>1, TheIs
  <2> QED
    BY <2>2
<1>4. ASSUME NEW n \in 1 .. N, NEW v, OK(n - 1, v)
      PROVE  OK(n, Step(v))
  <2> DEFINE r == Next1(v)
  <2>1. v.left # {} /\ IsFiniteSet(v.left)
    <3>1. IsFiniteSet(v.left)
      BY <1>0, <1>4, FS_Subset
    <3>2. Cardinality(v.left) = N - (n - 1)
      BY <1>4
    <3>3. Cardinality(v.left) # 0
      BY <1>0, <3>2
    <3> HIDE DEF N
    <3> QED
      BY <3>1, <3>3, FS_EmptySet
  <2>2. r \in v.left
    BY <2>1
  <2> HIDE DEF Next1
  <2>3. Step(v) \in P
    BY <1>a, <1>4, <2>2
  <2>4. Cardinality(v.left \ {r}) = N - n
    <3>1. Cardinality(v.left \ {r}) = Cardinality(v.left) - 1
      BY <2>1, <2>2, FS_RemoveElement
    <3> QED
      BY <1>0, <1>4, <3>1
  <2>5. Step(v).left = v.left \ {r}
    OBVIOUS
  <2> QED
    BY <2>3, <2>4, <2>5
<1>5. OK(0, start)
  BY <1>a, <1>0
<1> HIDE DEF OK, Step
<1>6. \A n \in 0 .. N : \A v : <<n, v>> \in D <=> OK(n, v)
  BY DEF OK
<1>7. \A n \in 0 .. N : \A v : <<n, v>> \in D => F[<<n, v>>] = Step(v)
  OBVIOUS
<1>8. D \in SUBSET ((0 .. N) \X P)
  OBVIOUS
<1> HIDE DEF Round, after, N, D, F, start
<1>9. \A n \in 1 .. N : n - 1 \in 0 .. N /\ n \in 0 .. N /\ n # 0
  BY <1>0
<1>10. 0 \in 0 .. N /\ N \in 0 .. N
  BY <1>0
<1>11. <<0, start>> \in D
  BY <1>5, <1>6, <1>10
<1>12. \A n \in 1 .. N : \A v : <<n - 1, v>> \in D => <<n, Step(v)>> \in D
  BY <1>4, <1>6, <1>9
<1>13. Advances(N, P, D, F)
  BY <1>7, <1>8, <1>9, <1>12 DEF Advances
<1>14. PICK g : Loops(g, N, P, D, F, start)
  BY <1>0, <1>11, <1>13, LoopExists
<1>15. \A n \in 0 .. N : g[n] = Round(g, n)
  <2> SUFFICES ASSUME NEW n \in 0 .. N
               PROVE  g[n] = Round(g, n)
    OBVIOUS
  <2>1. CASE n = 0
    BY <1>2, <1>14, <2>1 DEF Loops
  <2>2. CASE n # 0
    <3>1. n \in 1 .. N
      BY <1>0, <2>2
    <3>2. <<n - 1, g[n - 1]>> \in D /\ g[n] = F[<<n - 1, g[n - 1]>>]
      BY <1>14, <3>1 DEF Loops
    <3>3. n - 1 \in 0 .. N
      BY <1>9, <3>1
    <3>4. g[n] = Step(g[n - 1])
      BY <1>7, <3>2, <3>3
    <3> QED
      BY <1>3, <2>2, <3>4
  <2> QED
    BY <2>1, <2>2
<1>16. Keeps(g)
  BY <1>14, <1>15 DEF Loops
<1>17. Keeps(after)
  BY <1>16 DEF after
<1>18. \A n \in 0 .. N : after[n] = Round(after, n)
  <2> HIDE DEF Keeps
  <2>1. \A h : Keeps(h) => \A n \in 0 .. N : h[n] = Round(h, n)
    BY DEF Keeps
  <2> QED
    BY <1>17, <2>1
<1>19. after[0] = start /\ \A n \in 1 .. N : after[n] = Step(after[n - 1])
  BY <1>2, <1>3, <1>9, <1>10, <1>18
<1>20. Remains(N, D, after)
  BY <1>12, <1>19 DEF Remains
<1>21. <<N, after[N]>> \in D
  BY <1>0, <1>11, <1>19, <1>20, LoopEnds
<1>22. OK(N, after[N])
  BY <1>6, <1>10, <1>21
<1>23. after[N] \in P /\ after[N].left = {}
  <2> DEFINE v == after[N]
  <2>1. v \in P /\ Cardinality(v.left) = 0
    BY <1>0, <1>22 DEF OK
  <2> HIDE DEF v
  <2>2. IsFiniteSet(v.left)
    BY <1>0, <2>1, FS_Subset
  <2>3. v.left = {}
    BY <2>1, <2>2, FS_EmptySet
  <2> QED
    BY <2>1, <2>3 DEF v
<1> QED
  BY <1>1, <1>23 DEF MadeIn

\* The requests R of a task can be made, with G left to be asked for.
InHand(m, t, R, G, E) ==
  /\ Good(m, t, Offs(R) \cup G, E) /\ (t \in Files => m.task[t].state = "on")
  /\ Apart(R, G, m.task[t].astray)

\* The requests R of a task, all in hand, are made one after the other.
LEMMA MakeRequestsGood ==
  ASSUME NEW m, NEW t \in Tasks, NEW E, NEW R \in SUBSET Requests, IsFiniteSet(R), NEW G,
         InHand(m, t, R, G, E)
  PROVE  Good(MakeRequests(m, t, R), t, G, E) /\ MakeRequests(m, t, R).task = m.task
<1>h. /\ Good(m, t, Offs(R) \cup G, E) /\ (t \in Files => m.task[t].state = "on")
      /\ Apart(R, G, m.task[t].astray)
  BY DEF InHand
<1> DEFINE V == [m : Managers, left : SUBSET R]
           OK(v) == /\ v \in V /\ Good(v.m, t, Offs(v.left) \cup G, E)
                    /\ v.m.task = m.task
           P == { v \in V : OK(v) }
           start == [m |-> m, left |-> R]
           make(v, r) == [m |-> MakeRequest(v.m, t, r.offset, r.session), left |-> v.left \ {r}]
<1>1. OK(start)
  BY <1>h DEF Good, Typed
<1>2. ASSUME NEW v, OK(v), NEW r \in v.left
      PROVE  OK(make(v, r))
  <2> DEFINE w == MakeRequest(v.m, t, r.offset, r.session)
             A == Offs(v.left) \cup G
             B == Offs(v.left \ {r}) \cup G
  <2>1. r \in R /\ r \in Requests /\ v.left \subseteq R
    BY <1>2
  <2>2. r.offset \in A /\ r.offset \in Nat /\ r.session \in Positive
    BY <1>2, <2>1 DEF Offs, Requests, AnyRequests
  <2>3. Without(A, B, r.offset, v.m.task[t].astray)
    <3>1. B \subseteq A /\ A \subseteq B \cup {r.offset}
      BY DEF Offs
    <3>2. ASSUME ~m.task[t].astray
          PROVE  r.offset \notin B
      <4>1. /\ Offs(R) \cap G = {} /\ \A q \in R : q.offset = r.offset => q = r
        BY <1>h, <2>1, <3>2 DEF Apart
      <4>2. r.offset \in Offs(R)
        BY <2>1 DEF Offs
      <4>3. r.offset \notin Offs(v.left \ {r})
        BY <2>1, <4>1 DEF Offs
      <4> QED
        BY <4>1, <4>2, <4>3
    <3>3. v.m.task[t].astray = m.task[t].astray
      BY <1>2
    <3> HIDE DEF A, B
    <3> QED
      BY <3>1, <3>2, <3>3 DEF Without
  <2>4. Good(v.m, t, A, E) /\ (t \in Files => v.m.task[t].state = "on")
    BY <1>h, <1>2
  <2> HIDE DEF A, B
  <2>5. Good(w, t, B, E) /\ w.task = m.task
    <3>1. PICK u, o, k : u = v.m /\ o = r.offset /\ k = r.session
      OBVIOUS
    <3>2. /\ Good(u, t, A, E) /\ (t \in Files => u.task[t].state = "on")
          /\ o \in A /\ o \in Nat /\ k \in Positive /\ Without(A, B, o, u.task[t].astray)
      BY <2>2, <2>3, <2>4, <3>1
    <3>3. Good(MakeRequest(u, t, o, k), t, B, E) /\ MakeRequest(u, t, o, k).task = u.task
      BY <3>2, MakeRequestGood
    <3> QED
      BY <1>2, <3>1, <3>3
  <2>6. w \in Managers
    BY <2>5 DEF Good, Typed
  <2>7. make(v, r).m = w /\ make(v, r).left = v.left \ {r}
    OBVIOUS
  <2>8. make(v, r) \in V
    BY <1>2, <2>6
  <2> HIDE DEF make, w
  <2> QED
    BY <2>5, <2>7, <2>8 DEF B
<1>3. \A v : v \in P <=> OK(v)
  OBVIOUS
<1>4. P \in SUBSET V
  OBVIOUS
<1>s. MakesIn(P, m, t, R)
  <2> HIDE DEF OK, P
  <2> QED
    BY <1>1, <1>2, <1>3, <1>4 DEF MakesIn
<1> HIDE DEF OK, P
<1>m. MadeIn(P, MakeRequests(m, t, R))
  BY <1>s, MakeRequestsLoop
<1>5. PICK v \in P : v.left = {} /\ MakeRequests(m, t, R) = v.m
  BY <1>m DEF MadeIn
<1>6. Offs(v.left) \cup G = G
  BY <1>5 DEF Offs
<1> QED
  BY <1>3, <1>5, <1>6 DEF OK

\* Some request of the task waits for a reference.
LostAny(m, t) == \E q \in SentOf(m, t) : q.at = "reference"

\* The task leaves the CDN with parts that are not checked.
Strays(m, t, on) == ~on /\ Unchecked(m, t) # {}

\* m with the marks of a task that moves to a CDN, or back.
Moved(m, t, on, a, b) ==
  [m EXCEPT !.task[t].cdn = on, !.task[t].lostRef = @ \/ a, !.task[t].astray = @ \/ b]

\* The record of such a task.
MovedState(x, on, a, b) ==
  [x EXCEPT !.cdn = on, !.lostRef = x.lostRef \/ a, !.astray = x.astray \/ b]

\* A task is marked as moved to a CDN, or back.
LEMMA MovedIs ==
  ASSUME NEW m \in Managers, NEW t \in Tasks, NEW on \in BOOLEAN, NEW a \in BOOLEAN, NEW b \in BOOLEAN
  PROVE  Moved(m, t, on, a, b) = Put(m, t, MovedState(m.task[t], on, a, b))
<1> DEFINE z == m.task[t]
           c == z.lostRef \/ a
           e == z.astray \/ b
<1>1. m.task \in [Tasks -> TaskStates] /\ z \in TaskStates
  BY DEF Managers
<1>2. MovedState(m.task[t], on, a, b) = [z EXCEPT !.cdn = on, !.lostRef = c, !.astray = e]
  BY DEF MovedState
<1> DEFINE p == [z EXCEPT !.cdn = on]
           q == [p EXCEPT !.lostRef = c]
           y == [q EXCEPT !.astray = e]
<1>3. p \in TaskStates /\ p.lostRef = z.lostRef /\ p.astray = z.astray
  BY <1>1 DEF TaskStates
<1>4. q \in TaskStates /\ q.astray = z.astray
  <2> HIDE DEF p
  <2> QED
    BY <1>3 DEF TaskStates
<1>5. [m EXCEPT !.task[t].cdn = on] = Put(m, t, p)
  BY DEF Put
<1>6. y = MovedState(m.task[t], on, a, b)
  BY <1>2
<1> DEFINE on1(n) == [n EXCEPT !.task[t].cdn = on]
           on2(n) == [n EXCEPT !.task[t].lostRef = c]
           on3(n) == [n EXCEPT !.task[t].astray = e]
<1>7. Moved(m, t, on, a, b) = on3(on2(on1(m)))
  BY DEF Moved
<1> HIDE DEF z, c, e, p, q, y
<1>8. on2(Put(m, t, p)) = Put(m, t, q)
  <2>1. on2(Put(m, t, p)) = Put(m, t, [p EXCEPT !.lostRef = c])
    BY <1>3 DEF Managers, TaskStates, Put
  <2> QED
    BY <2>1 DEF q
<1>9. on3(Put(m, t, q)) = Put(m, t, y)
  <2>1. on3(Put(m, t, q)) = Put(m, t, [q EXCEPT !.astray = e])
    BY <1>4 DEF Managers, TaskStates, Put
  <2> QED
    BY <2>1 DEF y
<1>10. on1(m) = Put(m, t, p)
  BY Zenon, <1>5
<1> HIDE DEF on1, on2, on3
<1> QED
  BY <1>6, <1>7, <1>8, <1>9, <1>10

\* All requests of a task are made again, to the CDN or not.
LEMMA ChangeCdnGood ==
  ASSUME NEW m, NEW r \in Requests, NEW t \in Tasks, r.task = t, NEW H, NEW E,
         Good(m, t, H, E), H \subseteq {r.offset}, NEW on \in BOOLEAN,
         t \in Files => m.task[t].state = "on" /\ r.offset \in Taken(m.task[t]),
         t \in Streams => r.offset \in Offsets(t),
         ~m.task[t].astray /\ on => ~m.task[t].cdn,
         ~m.task[t].astray /\ Unchecked(m, t) = {} => r.offset \in H
  PROVE  Good(ChangeCdn(m, r, on), t, {}, E)
<1> DEFINE o == r.offset
           mine == SentOf(m, t)
           F == Finish(m, mine)
           x == m.task[t]
           c == x.lostRef \/ LostAny(m, t)
           e == x.astray \/ Strays(m, t, on)
           y == [x EXCEPT !.cdn = on, !.lostRef = c, !.astray = e]
           away == Put(F, t, y)
           K == Offs(mine) \cup {o}
<1>1. /\ Typed(m) /\ x \in TaskStates /\ TaskOK(t, x, mine, H, PartsIn(E, t))
      /\ mine \in SUBSET Requests /\ IsFiniteSet(mine)
  <2>1. Typed(m) /\ TaskOK(t, x, mine, H, PartsIn(E, t))
    BY DEF Good
  <2> QED
    BY <2>1, SentOfIs
<1>2. Good(F, t, H \cup Out(mine), E) /\ F.task = m.task /\ SentOf(F, t) = {}
  <2>1. mine \in SUBSET SentOf(m, t)
    OBVIOUS
  <2>2. SentOf(m, t) \ mine = {}
    OBVIOUS
  <2> HIDE DEF mine
  <2>3. /\ Good(Finish(m, mine), t, H \cup Out(mine), E) /\ Finish(m, mine).task = m.task
        /\ SentOf(Finish(m, mine), t) = SentOf(m, t) \ mine
    BY <2>1, FinishGood
  <2> QED
    BY <2>2, <2>3
<1>3. F \in Managers /\ F.task[t] = x /\ F.task \in [Tasks -> TaskStates]
  <2>1. F \in Managers
    BY <1>2 DEF Good, Typed
  <2>2. F.task \in [Tasks -> TaskStates]
    BY <2>1 DEF Managers
  <2> HIDE DEF F
  <2> QED
    BY <1>2, <2>1, <2>2
<1>4. ChangeCdn(m, r, on) = MakeRequest(MakeRequests(away, t, mine), t, o, r.session)
  <2>1. LostAny(m, t) \in BOOLEAN /\ Strays(m, t, on) \in BOOLEAN
    BY Zenon DEF LostAny, Strays
  <2>2. ChangeCdn(m, r, on) = MakeRequest(MakeRequests(
          Moved(F, t, on, LostAny(m, t), Strays(m, t, on)), t, mine), t, o, r.session)
    BY Zenon DEF ChangeCdn, Moved, LostAny, Strays
  <2> HIDE DEF F, x, mine
  <2>3. F.task[t] = x
    BY <1>3
  <2>4. y = MovedState(x, on, LostAny(m, t), Strays(m, t, on))
    BY Zenon DEF MovedState
  <2> HIDE DEF y
  <2>5. Moved(F, t, on, LostAny(m, t), Strays(m, t, on)) = away
    BY <1>3, <2>1, <2>3, <2>4, MovedIs
  <2> HIDE DEF away
  <2> QED
    BY <2>2, <2>5
<1>5. c \in BOOLEAN /\ e \in BOOLEAN
  OBVIOUS
<1>6. e => x.astray \/ (~on /\ DOMAIN x.unchecked # {})
  BY DEF Strays, Unchecked
<1>7. ~e => ~x.astray /\ (on \/ DOMAIN x.unchecked = {})
  BY DEF Strays, Unchecked
<1> HIDE DEF c, e, F
<1>8. /\ y \in TaskStates /\ y.next = x.next /\ y.loaded = x.loaded /\ y.wanted = x.wanted
      /\ y.waits = x.waits /\ y.unchecked = x.unchecked /\ y.cdn = on
      /\ y.astray = e /\ y.state = x.state
  <2> HIDE DEF x
  <2> QED
    BY <1>1, <1>5 DEF TaskStates
<1>9. /\ t \in Files => x.state = "on" /\ o \in Taken(x)
      /\ t \in Streams => o \in Offsets(t)
      /\ ~x.astray /\ on => ~x.cdn
      /\ ~x.astray /\ DOMAIN x.unchecked = {} => o \in H
  BY DEF Unchecked
<1> HIDE DEF x, y
<1>10. ASSUME ~y.astray
       PROVE  /\ DOMAIN x.unchecked = {} /\ o \in H /\ Offs(mine) = Out(mine)
              /\ NeatOK(x, mine, H, PartsIn(E, t)) /\ o \notin Offs(mine)
              /\ \A q \in mine : q.kind # "hashes"
  <2>1. ~x.astray /\ NeatOK(x, mine, H, PartsIn(E, t)) /\ (on \/ DOMAIN x.unchecked = {})
    BY <1>1, <1>7, <1>8, <1>10 DEF TaskOK
  <2>2. DOMAIN x.unchecked = {}
    BY <1>9, <2>1 DEF NeatOK
  <2>3. o \in H
    BY <1>9, <2>1, <2>2
  <2>4. \A q \in mine : q.kind # "hashes"
    BY <2>1, <2>2 DEF NeatOK
  <2> HIDE DEF mine, o
  <2>5. Offs(mine) = Out(mine)
    BY <2>4 DEF Offs, Out
  <2>6. o \notin Offs(mine)
    BY <2>1, <2>3, <2>5 DEF NeatOK
  <2> QED
    BY <2>1, <2>2, <2>3, <2>4, <2>5, <2>6
<1>11. TaskOK(t, y, {}, K, PartsIn(E, t))
  <2> HIDE DEF mine, o
  <2>1. Out({}) = {} /\ Offs({}) = {} /\ Wanted(y) = Wanted(x) /\ Taken(y) = Taken(x)
    BY <1>8 DEF Out, Offs, Wanted, Taken
  <2>2. Out(mine) \subseteq Offs(mine) /\ H \subseteq {o}
    BY DEF Out, Offs, o
  <2>3. t \in Files => FileOK(t, y, {}, K)
    BY <1>1, <1>8, <1>9, <2>1, <2>2 DEF TaskOK, FileOK
  <2>4. t \in Streams => StreamOK(t, y, {}, K)
    BY <1>1, <1>8, <1>9, <2>1, <2>2 DEF TaskOK, StreamOK
  <2>5. ~y.astray => NeatOK(y, {}, K, PartsIn(E, t))
    <3>1. ASSUME ~y.astray
          PROVE  NeatOK(y, {}, K, PartsIn(E, t))
      <4>1. /\ DOMAIN x.unchecked = {} /\ o \in H /\ Offs(mine) = Out(mine)
            /\ NeatOK(x, mine, H, PartsIn(E, t))
        BY <1>10, <3>1
      <4>2. K = Out(mine) \cup H
        BY <2>2, <4>1
      <4> HIDE DEF K
      <4> QED
        BY <1>8, <2>1, <4>1, <4>2 DEF NeatOK, Once
    <3> QED
      BY <3>1
  <2> QED
    BY <2>3, <2>4, <2>5 DEF TaskOK
<1>12. Good(away, t, K, E) /\ away.task[t] = y
  <2> HIDE DEF K, mine
  <2>1. TaskOK(t, y, SentOf(F, t), K, PartsIn(E, t))
    BY <1>2, <1>11
  <2>2. t \in Files => y.state = "on"
    BY <1>8, <1>9
  <2>3. PICK G : G = H \cup Out(mine)
    OBVIOUS
  <2>4. Good(F, t, G, E)
    BY <1>2, <2>3 DEF mine
  <2>5. Good(Put(F, t, y), t, K, E) /\ Put(F, t, y).task[t] = y
    BY <1>8, <2>1, <2>2, <2>4, PutSame
  <2> QED
    BY <2>5
<1> HIDE DEF away
<1>13. Apart(mine, {o}, away.task[t].astray)
  <2>1. ASSUME ~y.astray
        PROVE  Offs(mine) \cap {o} = {} /\ \A q, p \in mine : q.offset = p.offset => q = p
    <3>1. o \notin Offs(mine) /\ NeatOK(x, mine, H, PartsIn(E, t)) /\ \A q \in mine : q.kind # "hashes"
      BY <1>10, <2>1
    <3>2. Once(mine)
      BY <3>1 DEF NeatOK
    <3> HIDE DEF mine
    <3>3. \A q, p \in mine : q.offset = p.offset => q = p
      BY <3>1, <3>2 DEF Once
    <3> QED
      BY <3>1, <3>3
  <2>2. away.task[t].astray = y.astray
    BY <1>12
  <2> HIDE DEF mine, y
  <2> QED
    BY <2>1, <2>2 DEF Apart
<1> HIDE DEF mine
<1>14. /\ Good(MakeRequests(away, t, mine), t, {o}, E)
       /\ MakeRequests(away, t, mine).task = away.task
  <2>1. PICK G : G = {o}
    OBVIOUS
  <2>2. Good(away, t, Offs(mine) \cup G, E) /\ Apart(mine, G, away.task[t].astray)
    BY <1>12, <1>13, <2>1
  <2>3. t \in Files => away.task[t].state = "on"
    BY <1>8, <1>9, <1>12
  <2>a. mine \in SUBSET Requests /\ IsFiniteSet(mine)
    BY <1>1
  <2>b. InHand(away, t, mine, G, E)
    BY <2>2, <2>3 DEF InHand
  <2>4. /\ Good(MakeRequests(away, t, mine), t, G, E)
        /\ MakeRequests(away, t, mine).task = away.task
    BY <2>a, <2>b, MakeRequestsGood
  <2> QED
    BY <2>1, <2>4
<1>15. /\ o \in Nat /\ r.session \in Positive
       /\ t \in Files => MakeRequests(away, t, mine).task[t].state = "on"
  BY <1>8, <1>9, <1>12, <1>14 DEF Requests, AnyRequests
<1> HIDE DEF o
<1> QED
  BY <1>4, <1>14, <1>15, AllMade

-----------------------------------------------------------------------------
(* What the actions call, with nothing in hand before and after. *)

\* checkSendNext() at the end of a handler.
LEMMA CheckSendNextFine ==
  ASSUME NEW m, NEW t \in Tasks, Good(m, t, {}, {})
  PROVE  Fine(CheckSendNext(m))
<1>1. PICK K : K = {}
  OBVIOUS
<1>2. Good(m, t, {}, K)
  BY <1>1
<1>3. Good(CheckSendNext(m), t, {}, K)
  BY <1>2, CheckSendNextGood
<1> QED
  BY <1>1, <1>3, FineIsGood

\* enqueue() at the end of a handler.
LEMMA EnqueueFine ==
  ASSUME NEW m, NEW t \in Tasks, Good(m, t, {}, {}), NEW p \in Int,
         t \in Files => m.task[t].state = "on"
  PROVE  Fine(Enqueue(m, t, p))
<1>1. PICK K : K = {}
  OBVIOUS
<1>2. Good(m, t, {}, K)
  BY <1>1
<1>3. Good(Enqueue(m, t, p), t, {}, K)
  BY <1>2, EnqueueGood
<1> QED
  BY <1>1, <1>3, FineIsGood

\* A loader that ends in any way but success gives up its requests and its place.
LEMMA EndFine ==
  ASSUME NEW m, NEW t \in Tasks, Fine(m), NEW how \in {"failed", "cancelled", "gone"}
  PROVE  Fine(End(m, t, how))
<1>1. PICK K : K = {}
  OBVIOUS
<1>2. Good(m, t, K, K)
  BY <1>1, FineIsGood
<1>3. Good(End(m, t, how), t, {}, K)
  BY <1>2, EndGood
<1> QED
  BY <1>1, <1>3, FineIsGood

\* cancelOnFail() may drop what is in hand: a file ends, a player waits no more.
LEMMA CancelOnFailFine ==
  ASSUME NEW m, NEW t \in Tasks, NEW H, Good(m, t, H, {})
  PROVE  Fine(CancelOnFail(m, t))
<1>1. PICK K : K = {}
  OBVIOUS
<1>2. Good(m, t, H, K)
  BY <1>1
<1>3. Good(CancelOnFail(m, t), t, {}, K)
  BY <1>2, CancelOnFailGood
<1> QED
  BY <1>1, <1>3, FineIsGood

\* A request belongs to a task that is on, for one of its parts.
LEMMA RequestIs ==
  ASSUME NEW m, Fine(m), NEW t \in Tasks, NEW r \in SentOf(m, t)
  PROVE  /\ r \in Requests /\ r.task = t /\ Typed(m) /\ m.task[t] \in TaskStates
         /\ r.offset \in Nat /\ r.session \in Positive
         /\ t \in Files => m.task[t].state = "on" /\ r.offset \in Taken(m.task[t])
         /\ t \in Streams => r.offset \in Offsets(t)
         /\ ~m.task[t].astray =>
              /\ r.kind = "hashes" => r.offset \in Unchecked(m, t)
              /\ m.task[t].cdn => r.kind # "part"
              /\ ~m.task[t].cdn => r.kind = "part" /\ Unchecked(m, t) = {}
<1> DEFINE x == m.task[t]
           S == SentOf(m, t)
<1>1. /\ r \in Requests /\ r.task = t /\ Typed(m) /\ x \in TaskStates
      /\ TaskOK(t, x, S, {}, {}) /\ r \in S
  <2>1. Typed(m) /\ TaskOK(t, x, S, {}, {})
    BY DEF Fine
  <2> QED
    BY <2>1, SentOfIs
<1>2. r.offset \in Nat /\ r.session \in Positive
  BY <1>1 DEF Requests, AnyRequests
<1>3. r.offset \in Offs(S)
  BY <1>1 DEF Offs
<1>4. Unchecked(m, t) = DOMAIN x.unchecked
  BY DEF Unchecked
<1> HIDE DEF x, S
<1>5. t \in Files => x.state = "on" /\ r.offset \in Taken(x)
  BY <1>1, <1>3 DEF TaskOK, FileOK
<1>6. t \in Streams => r.offset \in Offsets(t)
  BY <1>1, <1>3 DEF TaskOK, StreamOK
<1>7. ~x.astray => /\ r.kind = "hashes" => r.offset \in Unchecked(m, t)
                   /\ x.cdn => r.kind # "part"
                   /\ ~x.cdn => r.kind = "part" /\ Unchecked(m, t) = {}
  BY <1>1, <1>4 DEF TaskOK, NeatOK
<1> QED
  BY <1>1, <1>2, <1>5, <1>6, <1>7 DEF x

\* n is m without request r of task t.
Finished(m, t, r, n) ==
  /\ Good(n, t, Out({r}), {}) /\ n.task = m.task /\ SentOf(n, t) = SentOf(m, t) \ {r}
  /\ r.kind # "hashes" => Out({r}) = {r.offset}
  /\ r.kind = "hashes" => Out({r}) = {}

\* A request is over: its part is in hand.
LEMMA FinishedIs ==
  ASSUME NEW m, Fine(m), NEW t \in Tasks, NEW r \in SentOf(m, t)
  PROVE  Finished(m, t, r, Finish(m, {r}))
<1>1. PICK K : K = {}
  OBVIOUS
<1>2. Good(m, t, {}, K)
  BY <1>1, FineIsGood
<1>3. /\ Good(Finish(m, {r}), t, Out({r}), K)
      /\ Finish(m, {r}).task = m.task
      /\ SentOf(Finish(m, {r}), t) = SentOf(m, t) \ {r}
  BY <1>2, OneFinished
<1>4. r.kind # "hashes" => Out({r}) = {r.offset}
  BY DEF Out
<1>5. r.kind = "hashes" => Out({r}) = {}
  BY DEF Out
<1> QED
  BY <1>1, <1>3, <1>4, <1>5 DEF Finished

\* The same with requestSucceeded().
LEMMA SucceededIs ==
  ASSUME NEW m, Fine(m), NEW t \in Tasks, NEW r \in SentOf(m, t),
         NEW slow \in BOOLEAN, NEW waited \in BOOLEAN
  PROVE  /\ Good(Succeed(m, r, slow, waited), t, Out({r}), {})
         /\ Succeed(m, r, slow, waited).task = m.task
         /\ SentOf(Succeed(m, r, slow, waited), t) = SentOf(m, t) \ {r}
         /\ r.kind # "hashes" => Out({r}) = {r.offset}
<1>1. Good(m, t, {}, {})
  BY FineIsGood
<1>2. /\ Good(Succeed(m, r, slow, waited), t, Out({r}), {})
      /\ Succeed(m, r, slow, waited).task = m.task
      /\ SentOf(Succeed(m, r, slow, waited), t) = SentOf(m, t) \ {r}
  BY <1>1, SucceedGood
<1>3. r.kind # "hashes" => Out({r}) = {r.offset}
  BY DEF Out
<1> QED
  BY <1>2, <1>3

-----------------------------------------------------------------------------
(* The actions, one by one. *)

\* A file's loader starts, with some parts loaded before.
LEMMA StartFine ==
  ASSUME Fine(d), NEW f \in Files, NEW have \in Offsets(f), Start(f, have)
  PROVE  Fine(d')
<1> DEFINE x == d.task[f]
           L == 0 .. (have - 1)
           y == [x EXCEPT !.state = "on", !.next = have, !.loaded = L]
<1>1. f \in Tasks /\ Parts[f] \in Nat /\ have \in 0 .. Parts[f] - 1 /\ f \notin Streams
  BY TasksAre
<1>2. /\ Typed(d) /\ x \in TaskStates /\ TaskOK(f, x, SentOf(d, f), {}, {})
      /\ QueueOK(d) /\ x.state = "new"
  <2>1. Typed(d) /\ TaskOK(f, x, SentOf(d, f), {}, {}) /\ QueueOK(d)
    BY <1>1 DEF Fine
  <2> QED
    BY <1>1, <2>1, SentOfIs DEF Start
<1>3. d' = Enqueue(Put(d, f, y), f, 0)
  BY DEF Start, Put
<1> HIDE DEF x
<1>4. /\ y \in TaskStates /\ y.next = have /\ y.loaded = 0 .. (have - 1)
      /\ y.wanted = x.wanted /\ y.waits = x.waits /\ y.unchecked = x.unchecked
      /\ y.cdn = x.cdn /\ y.astray = x.astray /\ y.state = "on"
  <2>1. have \in Nat /\ L \in SUBSET Nat
    BY <1>1
  <2>2. L = 0 .. (have - 1)
    OBVIOUS
  <2> HIDE DEF L
  <2>3. /\ y \in TaskStates /\ y.next = have /\ y.loaded = L
        /\ y.wanted = x.wanted /\ y.waits = x.waits /\ y.unchecked = x.unchecked
        /\ y.cdn = x.cdn /\ y.astray = x.astray /\ y.state = "on"
    BY <1>2, <2>1 DEF TaskStates
  <2> QED
    BY <2>2, <2>3
<1> HIDE DEF y
<1>5. SentOf(d, f) = {} /\ DOMAIN x.unchecked = {} /\ x.wanted = {} /\ x.waits = {}
  BY <1>2 DEF TaskOK, FileOK
<1>6. Offs({}) = {} /\ Out({}) = {} /\ Wanted(y) = {}
  BY <1>4, <1>5 DEF Offs, Out, Wanted
<1>7. PICK K : K = {}
  OBVIOUS
<1>8. TaskOK(f, y, SentOf(d, f), K, PartsIn(K, f))
  <2>1. PartsIn(K, f) = {}
    BY <1>7 DEF PartsIn
  <2>2. FileOK(f, y, {}, {})
    BY <1>1, <1>4, <1>5, <1>6 DEF FileOK, Taken
  <2>3. NeatOK(y, {}, {}, {})
    BY <1>4, <1>5, <1>6 DEF NeatOK, Once
  <2> QED
    BY <1>1, <1>5, <1>7, <2>1, <2>2, <2>3 DEF TaskOK
<1>9. Good(d, f, K, K)
  BY <1>1, <1>7, FineIsGood
<1>10. Good(Put(d, f, y), f, K, K) /\ Put(d, f, y).task[f] = y
  BY <1>1, <1>4, <1>8, <1>9, PutSame
<1>11. Good(Put(d, f, y), f, {}, {})
  BY <1>7, <1>10
<1> QED
  BY <1>1, <1>3, <1>4, <1>10, <1>11, EnqueueFine

\* A file that failed or was cancelled starts again.
LEMMA StartAgainFine ==
  ASSUME Fine(d), NEW f \in Files, StartAgain(f)
  PROVE  Fine(d')
<1>1. f \in Tasks
  BY TasksAre
<1>2. Good(d, f, {}, {})
  BY <1>1, FineIsGood
<1> QED
  BY <1>1, <1>2, EnqueueFine DEF StartAgain

\* The user cancels a file.
LEMMA CancelFine ==
  ASSUME Fine(d), NEW f \in Files, Cancel(f)
  PROVE  Fine(d')
BY TasksAre, EndFine DEF Cancel

\* The loader of a stream is destroyed with what it asked for.
LEMMA DestroyFine ==
  ASSUME Fine(d), NEW s \in Streams, Destroy(s)
  PROVE  Fine(d')
BY TasksAre, EndFine DEF Destroy

\* A stream with nothing out and nothing wanted leaves the queue.
LEMMA LeaveFine ==
  ASSUME Fine(d), NEW s \in Streams, Leave(s)
  PROVE  Fine(d')
<1>1. s \in Tasks
  BY TasksAre
<1>2. PICK K : K = {}
  OBVIOUS
<1>3. Good(d, s, {}, K)
  BY <1>1, <1>2, FineIsGood
<1>4. Good(Dequeue(d, s), s, {}, K)
  BY <1>1, <1>3, DequeueGood
<1> QED
  BY <1>1, <1>2, <1>4, FineIsGood DEF Leave

\* setPriority() lowers the levels of the wanted parts.
LEMMA SetPriorityGood ==
  ASSUME NEW m, NEW s \in Streams, NEW E, Good(m, s, {}, E), NEW p \in {0, 1}
  PROVE  Good(SetPriority(m, s, p), s, {}, E)
<1> DEFINE x == m.task[s]
           y == [x EXCEPT !.priority = p]
           n == Put(m, s, y)
<1>1. s \in Tasks /\ s \notin Files
  BY TasksAre
<1>2. Typed(m) /\ x \in TaskStates /\ TaskOK(s, x, SentOf(m, s), {}, PartsIn(E, s))
  <2>1. Typed(m) /\ TaskOK(s, x, SentOf(m, s), {}, PartsIn(E, s))
    BY <1>1 DEF Good
  <2> QED
    BY <1>1, <2>1, SentOfIs
<1>3. SetPriority(m, s, p) = IF x.priority # p /\ HaveSent(m, s) THEN Enqueue(n, s, p) ELSE n
  <2>1. [m EXCEPT !.task[s].priority = p] = n
    BY DEF Put
  <2> HIDE DEF n
  <2> QED
    BY <2>1 DEF SetPriority
<1>4. PICK K : K = {}
  OBVIOUS
<1>5. Good(m, s, K, E) /\ TaskOK(s, x, SentOf(m, s), K, PartsIn(E, s))
  BY <1>2, <1>4
<1> HIDE DEF x
<1>6. /\ y \in TaskStates /\ y.next = x.next /\ y.loaded = x.loaded /\ y.wanted = x.wanted
      /\ y.waits = x.waits /\ DOMAIN y.unchecked = DOMAIN x.unchecked /\ y.cdn = x.cdn
      /\ y.astray = x.astray /\ y.state = x.state
  BY <1>2 DEF TaskStates
<1> HIDE DEF y
<1>7. TaskOK(s, y, SentOf(m, s), K, PartsIn(E, s))
  BY <1>1, <1>2, <1>5, <1>6, SameOK
<1>8. Good(n, s, K, E)
  BY <1>1, <1>5, <1>6, <1>7, PutSame
<1> HIDE DEF n
<1>9. Good(Enqueue(n, s, p), s, {}, E)
  BY <1>1, <1>4, <1>8, EnqueueGood
<1> QED
  BY <1>3, <1>4, <1>8, <1>9

\* The player of a stream stops.
LEMMA StopStreamingFine ==
  ASSUME Fine(d), NEW s \in Streams, StopStreaming(s)
  PROVE  Fine(d')
<1> DEFINE x == d.task[s]
           y == [x EXCEPT !.waits = {}]
           n == Put(d, s, y)
<1>1. s \in Tasks /\ s \notin Files
  BY TasksAre
<1>2. Typed(d) /\ x \in TaskStates /\ TaskOK(s, x, SentOf(d, s), {}, {})
  <2>1. Typed(d) /\ TaskOK(s, x, SentOf(d, s), {}, {})
    BY <1>1 DEF Fine
  <2> QED
    BY <1>1, <2>1, SentOfIs
<1>3. d' = SetPriority(n, s, 0)
  BY DEF StopStreaming, Put
<1>4. PICK K : K = {}
  OBVIOUS
<1> HIDE DEF x
<1>5. /\ y \in TaskStates /\ y.next = x.next /\ y.loaded = x.loaded /\ y.wanted = x.wanted
      /\ y.waits = {} /\ y.unchecked = x.unchecked /\ y.cdn = x.cdn
      /\ y.astray = x.astray /\ y.state = x.state
  BY <1>2 DEF TaskStates
<1> HIDE DEF y
<1>6. TaskOK(s, y, SentOf(d, s), K, PartsIn(K, s))
  <2>1. PartsIn(K, s) = {}
    BY <1>4 DEF PartsIn
  <2>2. Wanted(y) = Wanted(x)
    BY <1>5 DEF Wanted
  <2>3. StreamOK(s, y, SentOf(d, s), {})
    BY <1>2, <1>5, <2>2 DEF TaskOK, StreamOK
  <2>4. NeatOK(x, SentOf(d, s), {}, {}) => NeatOK(y, SentOf(d, s), {}, {})
    BY <1>5, <2>2 DEF NeatOK
  <2> QED
    BY <1>1, <1>2, <1>4, <1>5, <2>1, <2>3, <2>4 DEF TaskOK
<1>7. Good(d, s, K, K)
  BY <1>1, <1>4, FineIsGood
<1>8. Good(n, s, K, K)
  BY <1>1, <1>5, <1>6, <1>7, PutSame
<1> HIDE DEF n
<1>9. Good(SetPriority(n, s, 0), s, {}, K)
  BY <1>4, <1>8, SetPriorityGood
<1> QED
  BY <1>1, <1>3, <1>4, <1>9, FineIsGood

\* E holds part o of s and nothing else.
OnlyPart(E, s, o) == PartsIn(E, s) = {o} /\ \A u : u # s => PartsIn(E, u) = {}

\* One part of one task.
LEMMA OnePart ==
  ASSUME NEW s, NEW o
  PROVE  OnlyPart({<<s, o>>}, s, o)
<1> DEFINE E == {<<s, o>>}
<1>1. { f \in E : f[1] = s } = {<<s, o>>}
  OBVIOUS
<1>2. PartsIn(E, s) = { e[2] : e \in {<<s, o>>} }
  BY <1>1 DEF PartsIn
<1>3. { e[2] : e \in {<<s, o>>} } = {o}
  OBVIOUS
<1>4. ASSUME NEW u, u # s
      PROVE  PartsIn(E, u) = {}
  <2>1. { f \in E : f[1] = u } = {}
    BY <1>4
  <2> QED
    BY <2>1 DEF PartsIn
<1> QED
  BY <1>2, <1>3, <1>4 DEF OnlyPart

\* All that is wanted comes after what will be wanted next.
Lower(T) == { <<w[1] - 1, w[2]>> : w \in T }

\* What a lowered order of parts keeps of the order it comes from.
Lowered(T, L) ==
  /\ L \in SUBSET ({ l \in Int : l <= 0 } \X Nat)
  /\ { w[2] : w \in L } = { w[2] : w \in T }
  /\ (\A p, q \in T : p[2] = q[2] => p = q) => \A p, q \in L : p[2] = q[2] => p = q

\* What is wanted goes to lower levels.
LEMMA LowerIs ==
  ASSUME NEW T \in SUBSET ({ l \in Int : l <= 0 } \X Nat)
  PROVE  Lowered(T, Lower(T))
<1> DEFINE L == { <<w[1] - 1, w[2]>> : w \in T }
<1>0. L = Lower(T)
  BY DEF Lower
<1>1. \A w \in T : /\ w[1] - 1 \in { l \in Int : l <= 0 } /\ w[2] \in Nat
                  /\ w = <<w[1], w[2]>>
  OBVIOUS
<1>2. \A v \in L : \E w \in T : v = <<w[1] - 1, w[2]>>
  OBVIOUS
<1>3. \A w \in T : <<w[1] - 1, w[2]>> \in L
  OBVIOUS
<1>4. L \in SUBSET ({ l \in Int : l <= 0 } \X Nat)
  BY <1>1, <1>2
<1>5. { w[2] : w \in L } = { w[2] : w \in T }
  <2>1. ASSUME NEW w \in L
        PROVE  w[2] \in { v[2] : v \in T }
    BY <1>2
  <2>2. ASSUME NEW v \in T
        PROVE  v[2] \in { w[2] : w \in L }
    <3>1. <<v[1] - 1, v[2]>> \in L /\ <<v[1] - 1, v[2]>>[2] = v[2]
      BY <1>3
    <3> QED
      BY <3>1
  <2> QED
    BY <2>1, <2>2
<1>6. ASSUME \A p, q \in T : p[2] = q[2] => p = q,
             NEW p \in L, NEW q \in L, p[2] = q[2]
      PROVE  p = q
  <2>1. PICK v \in T : p = <<v[1] - 1, v[2]>>
    BY <1>2
  <2>2. PICK w \in T : q = <<w[1] - 1, w[2]>>
    BY <1>2
  <2>3. v = w
    BY <1>6, <2>1, <2>2
  <2> QED
    BY <2>1, <2>2, <2>3
<1>7. Lowered(T, L)
  BY <1>4, <1>5, <1>6 DEF Lowered
<1> HIDE DEF L
<1> QED
  BY <1>0, <1>7

\* A part is noted as wanted, on the current level.
Noted(T, o) == { w \in T : w[2] # o } \cup {<<0, o>>}

\* Part o is noted as wanted on the current level, and on no other.
LEMMA NotedIs ==
  ASSUME NEW T, NEW o, NEW M, M = Noted(T, o)
  PROVE  /\ \A w \in M : w[2] = o => w = <<0, o>>
         /\ \A w \in M : w[2] # o => w \in T
         /\ { w[2] : w \in M } = { w[2] : w \in T } \cup {o}
<1> USE DEF Noted
<1>1. <<0, o>>[2] = o
  OBVIOUS
<1>2. \A w \in M : w = <<0, o>> \/ (w \in T /\ w[2] # o)
  OBVIOUS
<1>3. ASSUME NEW w \in T
      PROVE  w[2] \in { v[2] : v \in M }
  <2>1. CASE w[2] = o
    <3>1. <<0, o>> \in M
      OBVIOUS
    <3> QED
      BY <1>1, <2>1, <3>1
  <2>2. CASE w[2] # o
    <3>1. w \in M
      BY <2>2
    <3> QED
      BY <3>1
  <2> QED
    BY <2>1, <2>2
<1>4. o \in { v[2] : v \in M }
  <2>1. <<0, o>> \in M
    OBVIOUS
  <2> QED
    BY <1>1, <2>1
<1>5. \A w \in M : w[2] = o \/ w[2] \in { v[2] : v \in T }
  BY <1>1, <1>2
<1>6. { w[2] : w \in M } = { w[2] : w \in T } \cup {o}
  BY <1>3, <1>4, <1>5
<1> QED
  BY <1>1, <1>2, <1>6

\* What is wanted of a task is set after its record is.
LEMMA PutWanted ==
  ASSUME NEW m \in Managers, NEW s \in Tasks, NEW y \in TaskStates, NEW W
  PROVE  [Put(m, s, y) EXCEPT !.task[s].wanted = W] = Put(m, s, [y EXCEPT !.wanted = W])
BY DEF Managers, TaskStates, Put

\* What the player asks for is waited for before it is noted as wanted.
LEMMA LoadFine ==
  ASSUME Fine(d), NEW s \in Streams, NEW o \in Offsets(s), NEW first \in BOOLEAN,
         Load(s, o, first)
  PROVE  Fine(d')
<1> DEFINE x == d.task[s]
           lower == IF first THEN { <<w[1] - 1, w[2]>> : w \in x.wanted } ELSE x.wanted
           W == x.waits \cup {o}
           y == [x EXCEPT !.waits = W, !.wanted = lower]
           n == Put(d, s, y)
           m == SetPriority(n, s, 1)
           z == m.task[s]
           more == { w \in z.wanted : w[2] # o } \cup {<<0, o>>}
           v == [z EXCEPT !.wanted = more]
           added == Put(m, s, v)
<1>1. s \in Tasks /\ s \notin Files /\ o \in Nat
  BY TasksAre
<1>2. Typed(d) /\ x \in TaskStates /\ TaskOK(s, x, SentOf(d, s), {}, {})
  <2>1. Typed(d) /\ TaskOK(s, x, SentOf(d, s), {}, {})
    BY <1>1 DEF Fine
  <2> QED
    BY <1>1, <2>1, SentOfIs
<1>3. d' = IF HaveSentFor(m, s, o) \/ <<0, o>> \in z.wanted THEN m ELSE Enqueue(added, s, 1)
  <2> DEFINE n0 == [d EXCEPT !.task[s].waits = @ \cup {o}, !.task[s].wanted = lower]
  <2>1. n0 = n
    <3> HIDE DEF lower
    <3>1. n0 = [[d EXCEPT !.task[s].waits = x.waits \cup {o}] EXCEPT !.task[s].wanted = lower]
      OBVIOUS
    <3> HIDE DEF W, n0
    <3>2. d.task \in [Tasks -> TaskStates] /\ d \in Managers
      BY <1>2 DEF Typed, Managers
    <3>3. [[d EXCEPT !.task[s].waits = W] EXCEPT !.task[s].wanted = lower] = n
      BY <1>1, <1>2, <3>2 DEF Managers, TaskStates, Put
    <3> QED
      BY <3>1, <3>3 DEF W
  <2>2. d' = IF HaveSentFor(SetPriority(n0, s, 1), s, o) \/ <<0, o>> \in SetPriority(n0, s, 1).task[s].wanted
             THEN SetPriority(n0, s, 1)
             ELSE Enqueue([SetPriority(n0, s, 1) EXCEPT !.task[s].wanted = { w \in @ : w[2] # o } \cup {<<0, o>>}], s, 1)
    BY Zenon DEF Load
  <2> HIDE DEF n, n0
  <2> QED
    BY <2>1, <2>2 DEF Put
<1>4. PICK K : K = {}
  OBVIOUS
<1>5. PICK E : E = {<<s, o>>} /\ OnlyPart(E, s, o)
  BY OnePart
<1>6. PartsIn(E, s) = {o} /\ PartsIn(K, s) = {}
  <2>1. PartsIn(K, s) = {}
    BY <1>4 DEF PartsIn
  <2> QED
    BY <1>5, <2>1 DEF OnlyPart
<1>7. \A u \in Tasks : u # s => PartsIn(E, u) = PartsIn(K, u)
  <2>1. \A u \in Tasks : PartsIn(K, u) = {}
    BY <1>4 DEF PartsIn
  <2> QED
    BY <1>5, <2>1 DEF OnlyPart
<1>8. x.wanted \in SUBSET ({ l \in Int : l <= 0 } \X Nat) /\ W \in SUBSET Nat
  <2> HIDE DEF x
  <2>1. x.wanted \in SUBSET ({ l \in Int : l <= 0 } \X Nat) /\ x.waits \in SUBSET Nat
    BY <1>2 DEF TaskStates
  <2> QED
    BY <1>1, <2>1
<1>9. /\ lower \in SUBSET ({ l \in Int : l <= 0 } \X Nat)
      /\ { w[2] : w \in lower } = Wanted(x)
      /\ (\A p, q \in x.wanted : p[2] = q[2] => p = q) => \A p, q \in lower : p[2] = q[2] => p = q
  <2>1. CASE first
    <3>1. lower = Lower(x.wanted)
      BY <2>1 DEF Lower
    <3> HIDE DEF lower
    <3>2. Lowered(x.wanted, lower)
      BY <1>8, <3>1, LowerIs
    <3> QED
      BY <3>2 DEF Lowered, Wanted
  <2>2. CASE ~first
    <3>1. lower = x.wanted
      BY <2>2
    <3> HIDE DEF lower
    <3> QED
      BY <1>8, <3>1 DEF Wanted
  <2> QED
    BY <2>1, <2>2
<1> HIDE DEF lower, x
<1>10. /\ y \in TaskStates /\ y.next = x.next /\ y.loaded = x.loaded /\ y.wanted = lower
       /\ y.waits = W /\ y.unchecked = x.unchecked /\ y.cdn = x.cdn
       /\ y.astray = x.astray /\ y.state = x.state
  <2> HIDE DEF W
  <2> QED
    BY <1>2, <1>8, <1>9 DEF TaskStates
<1> HIDE DEF y
<1>11. TaskOK(s, y, SentOf(d, s), K, PartsIn(E, s))
  <2>1. Wanted(y) = Wanted(x)
    BY <1>9, <1>10 DEF Wanted
  <2>2. StreamOK(s, y, SentOf(d, s), {})
    BY <1>2, <1>10, <2>1 DEF TaskOK, StreamOK
  <2>3. NeatOK(x, SentOf(d, s), {}, {}) => NeatOK(y, SentOf(d, s), {}, {o})
    BY <1>9, <1>10, <2>1 DEF NeatOK
  <2> QED
    BY <1>1, <1>2, <1>4, <1>6, <1>10, <2>2, <2>3 DEF TaskOK
<1>12. Good(d, s, K, K)
  BY <1>1, <1>4, FineIsGood
<1>13. Good(n, s, K, E)
  BY <1>1, <1>7, <1>10, <1>11, <1>12, PutGood
<1> HIDE DEF n
<1>14. Good(m, s, {}, E)
  BY <1>4, <1>13, SetPriorityGood
<1> HIDE DEF m
<1>15. Typed(m) /\ z \in TaskStates /\ TaskOK(s, z, SentOf(m, s), {}, {o})
  <2>1. Typed(m) /\ TaskOK(s, z, SentOf(m, s), {}, {o})
    BY <1>1, <1>6, <1>14 DEF Good
  <2> QED
    BY <1>1, <2>1, SentOfIs
<1>16. z.wanted \in SUBSET ({ l \in Int : l <= 0 } \X Nat)
  <2> HIDE DEF z
  <2> QED
    BY <1>15 DEF TaskStates
<1>17. more \in SUBSET ({ l \in Int : l <= 0 } \X Nat)
  <2>1. <<0, o>> \in { l \in Int : l <= 0 } \X Nat
    BY <1>1
  <2> QED
    BY <1>16, <2>1
<1>18. /\ \A w \in more : w[2] = o => w = <<0, o>>
       /\ \A w \in more : w[2] # o => w \in z.wanted
       /\ { w[2] : w \in more } = Wanted(z) \cup {o}
  <2>1. PICK T : T = z.wanted
    OBVIOUS
  <2>2. more = { w \in T : w[2] # o } \cup {<<0, o>>}
    BY <2>1
  <2>3. PICK M : M = more
    OBVIOUS
  <2>4. M = Noted(T, o)
    BY <2>2, <2>3 DEF Noted
  <2>5. /\ \A w \in M : w[2] = o => w = <<0, o>>
        /\ \A w \in M : w[2] # o => w \in T
        /\ { w[2] : w \in M } = { w[2] : w \in T } \cup {o}
    BY <2>4, NotedIs
  <2> HIDE DEF more
  <2> QED
    BY <2>1, <2>3, <2>5 DEF Wanted
<1>19. HaveSentFor(m, s, o) <=> o \in Offs(SentOf(m, s)) \cup DOMAIN z.unchecked
  BY DEF HaveSentFor, Asked, Unchecked, Offs
<1> HIDE DEF more, z
<1>20. /\ v \in TaskStates /\ v.next = z.next /\ v.loaded = z.loaded /\ v.wanted = more
       /\ v.waits = z.waits /\ v.unchecked = z.unchecked /\ v.cdn = z.cdn
       /\ v.astray = z.astray /\ v.state = z.state
  BY <1>15, <1>17 DEF TaskStates
<1> HIDE DEF v
<1>21. CASE HaveSentFor(m, s, o) \/ <<0, o>> \in z.wanted
  <2>1. TaskOK(s, z, SentOf(m, s), {}, {})
    <3>1. ASSUME NeatOK(z, SentOf(m, s), {}, {o})
          PROVE  NeatOK(z, SentOf(m, s), {}, {})
      <4>1. o \in Wanted(z) \cup Out(SentOf(m, s)) \cup DOMAIN z.unchecked
        <5>1. CASE <<0, o>> \in z.wanted
          BY <5>1 DEF Wanted
        <5>2. CASE o \in Offs(SentOf(m, s))
          BY <3>1, <5>2 DEF NeatOK, Offs, Out
        <5> QED
          BY <1>19, <1>21, <5>1, <5>2
      <4> QED
        BY <3>1, <4>1 DEF NeatOK
    <3> QED
      BY <1>1, <1>15, <3>1 DEF TaskOK
  <2>2. TaskOK(s, z, SentOf(m, s), {}, PartsIn(K, s))
    BY <1>6, <2>1
  <2>3. Fine(m)
    <3>1. Typed(m) /\ QueueOK(m)
      BY <1>14 DEF Good
    <3>2. ASSUME NEW u \in Tasks
          PROVE  TaskOK(u, m.task[u], SentOf(m, u), {}, {})
      <4>1. CASE u = s
        BY <2>1, <4>1 DEF z
      <4>2. CASE u # s
        <5>1. PartsIn(E, u) = {}
          BY <1>5, <4>2 DEF PartsIn
        <5>2. TaskOK(u, m.task[u], SentOf(m, u), {}, PartsIn(E, u))
          BY <1>14 DEF Good
        <5> QED
          BY <5>1, <5>2
      <4> QED
        BY <4>1, <4>2
    <3> QED
      BY <3>1, <3>2 DEF Fine
  <2> QED
    BY <1>3, <1>21, <2>3
<1>22. CASE ~(HaveSentFor(m, s, o) \/ <<0, o>> \in z.wanted)
  <2>1. Wanted(v) = Wanted(z) \cup {o}
    BY <1>18, <1>20 DEF Wanted
  <2>2. StreamOK(s, v, SentOf(m, s), {})
    BY <1>15, <1>20, <2>1 DEF TaskOK, StreamOK
  <2>3. NeatOK(z, SentOf(m, s), {}, {o}) => NeatOK(v, SentOf(m, s), {}, {})
    <3>1. ASSUME NeatOK(z, SentOf(m, s), {}, {o})
          PROVE  NeatOK(v, SentOf(m, s), {}, {})
      <4>1. o \notin Out(SentOf(m, s)) \cup DOMAIN z.unchecked /\ o \notin z.loaded
        <5>1. z.loaded = {}
          BY <1>15 DEF TaskOK, StreamOK
        <5> QED
          BY <1>19, <1>22, <5>1 DEF Offs, Out
      <4>2. \A p, q \in v.wanted : p[2] = q[2] => p = q
        BY <1>18, <1>20, <3>1 DEF NeatOK
      <4> QED
        BY <1>20, <2>1, <3>1, <4>1, <4>2 DEF NeatOK
    <3> QED
      BY <3>1
  <2>4. TaskOK(s, v, SentOf(m, s), K, PartsIn(K, s))
    BY <1>1, <1>4, <1>6, <1>15, <1>20, <2>2, <2>3 DEF TaskOK
  <2>5. Good(m, s, K, E)
    BY <1>4, <1>14
  <2>6. Good(added, s, K, K)
    BY <1>1, <1>7, <1>20, <2>4, <2>5, PutGood
  <2> HIDE DEF added
  <2>7. Good(added, s, {}, {})
    BY <1>4, <2>6
  <2>8. Fine(Enqueue(added, s, 1))
    BY <1>1, <2>7, EnqueueFine
  <2> QED
    BY <1>3, <1>22, <2>8
<1> QED
  BY <1>21, <1>22

\* The player of a stream does not wait for a part any more.
LEMMA CancelLoadFine ==
  ASSUME Fine(d), NEW s \in Streams, NEW o \in Offsets(s), CancelLoad(s, o)
  PROVE  Fine(d')
<1> DEFINE x == d.task[s]
           W == x.waits \ {o}
           y == [x EXCEPT !.waits = W]
           m == Put(d, s, y)
           less == { w \in x.wanted : w[2] # o }
           v == [y EXCEPT !.wanted = less]
           R == { r \in SentOf(m, s) : r.offset = o }
           n == CancelRequests(m, s, R)
           z == n.task[s]
           rest == [p \in DOMAIN z.unchecked \ {o} |-> z.unchecked[p]]
           u == [z EXCEPT !.unchecked = rest]
           cut == Put(n, s, u)
<1>1. s \in Tasks /\ s \notin Files /\ o \in Nat
  BY TasksAre
<1>2. /\ Typed(d) /\ x \in TaskStates /\ TaskOK(s, x, SentOf(d, s), {}, {})
      /\ SentOf(d, s) \in SUBSET Requests /\ d.task \in [Tasks -> TaskStates] /\ d \in Managers
  <2>1. Typed(d) /\ TaskOK(s, x, SentOf(d, s), {}, {})
    BY <1>1 DEF Fine
  <2> QED
    BY <1>1, <2>1, SentOfIs DEF Typed, Managers
<1>3. \/ ~HaveSentFor(d, s, o) /\ d' = [m EXCEPT !.task[s].wanted = { w \in @ : w[2] # o }]
      \/ d' = Enqueue(cut, s, 1)
      \/ d' = [cut EXCEPT !.idle = TRUE]
  <2> DEFINE n0 == [d EXCEPT !.task[s].waits = @ \ {o}]
  <2>1. n0 = m
    BY DEF Put
  <2>2. \/ ~HaveSentFor(d, s, o) /\ d' = [n0 EXCEPT !.task[s].wanted = { w \in @ : w[2] # o }]
        \/ d' = Enqueue([CancelRequests(n0, s, { r \in SentOf(n0, s) : r.offset = o })
                           EXCEPT !.task[s].unchecked = [p \in DOMAIN @ \ {o} |-> @[p]]], s, 1)
        \/ d' = [[CancelRequests(n0, s, { r \in SentOf(n0, s) : r.offset = o })
                           EXCEPT !.task[s].unchecked = [p \in DOMAIN @ \ {o} |-> @[p]]]
                   EXCEPT !.idle = TRUE]
    BY Zenon DEF CancelLoad
  <2> DEFINE none == [n0 EXCEPT !.task[s].wanted = { w \in @ : w[2] # o }]
             over == [CancelRequests(n0, s, { r \in SentOf(n0, s) : r.offset = o })
                        EXCEPT !.task[s].unchecked = [p \in DOMAIN @ \ {o} |-> @[p]]]
  <2> HIDE DEF m, n0
  <2>3. none = [m EXCEPT !.task[s].wanted = { w \in @ : w[2] # o }]
    BY <2>1
  <2>4. over = cut
    BY <2>1 DEF Put
  <2>5. \/ ~HaveSentFor(d, s, o) /\ d' = none
        \/ d' = Enqueue(over, s, 1)
        \/ d' = [over EXCEPT !.idle = TRUE]
    BY <2>2
  <2> HIDE DEF none, over, cut
  <2> QED
    BY <2>3, <2>4, <2>5
<1>4. PICK K : K = {}
  OBVIOUS
<1>5. PartsIn(K, s) = {}
  BY <1>4 DEF PartsIn
<1>6. W \in SUBSET Nat /\ less \in SUBSET ({ l \in Int : l <= 0 } \X Nat)
  <2> HIDE DEF x
  <2> QED
    BY <1>2 DEF TaskStates
<1>7. Wanted(x) \ {o} = { w[2] : w \in less } /\ less \subseteq x.wanted
  BY DEF Wanted
<1>8. W = x.waits \ {o}
  OBVIOUS
<1> HIDE DEF x, W, less
<1>9. /\ y \in TaskStates /\ y.next = x.next /\ y.loaded = x.loaded /\ y.wanted = x.wanted
      /\ y.waits = W /\ y.unchecked = x.unchecked /\ y.cdn = x.cdn
      /\ y.astray = x.astray /\ y.state = x.state
  BY <1>2, <1>6 DEF TaskStates
<1> HIDE DEF y
<1>10. TaskOK(s, y, SentOf(d, s), K, PartsIn(K, s))
  <2>1. Wanted(y) = Wanted(x)
    BY <1>9 DEF Wanted
  <2>2. StreamOK(s, y, SentOf(d, s), {})
    BY <1>2, <1>9, <2>1 DEF TaskOK, StreamOK
  <2>3. NeatOK(x, SentOf(d, s), {}, {}) => NeatOK(y, SentOf(d, s), {}, {})
    BY <1>8, <1>9, <2>1 DEF NeatOK
  <2> QED
    BY <1>1, <1>2, <1>4, <1>5, <1>9, <2>2, <2>3 DEF TaskOK
<1>11. Good(d, s, K, K)
  BY <1>1, <1>4, FineIsGood
<1>12. /\ Good(m, s, K, K) /\ m.task[s] = y /\ m.sent = d.sent
  BY <1>1, <1>9, <1>10, <1>11, PutSame
<1>13. CASE ~HaveSentFor(d, s, o) /\ d' = [m EXCEPT !.task[s].wanted = { w \in @ : w[2] # o }]
  <2>1. /\ v \in TaskStates /\ v.next = y.next /\ v.loaded = y.loaded /\ v.wanted = less
        /\ v.waits = y.waits /\ v.unchecked = y.unchecked /\ v.cdn = y.cdn
        /\ v.astray = y.astray /\ v.state = y.state
    BY <1>6, <1>9 DEF TaskStates
  <2>2. d' = Put(d, s, v)
    <3>1. d' = [m EXCEPT !.task[s].wanted = { w \in x.wanted : w[2] # o }]
      <4> HIDE DEF m
      <4>1. { w \in m.task[s].wanted : w[2] # o } = { w \in x.wanted : w[2] # o }
        BY <1>9, <1>12
      <4> QED
        BY <1>13, <4>1
    <3>2. d' = [m EXCEPT !.task[s].wanted = less]
      BY <3>1 DEF less
    <3>3. d \in Managers
      BY <1>2 DEF Typed
    <3>4. [Put(d, s, y) EXCEPT !.task[s].wanted = less] = Put(d, s, [y EXCEPT !.wanted = less])
      BY <1>1, <1>9, <3>3, PutWanted
    <3> QED
      BY <3>2, <3>4
  <2> HIDE DEF v, m
  <2>3. TaskOK(s, v, SentOf(d, s), K, PartsIn(K, s))
    <3>1. Wanted(v) = Wanted(x) \ {o}
      BY <1>7, <2>1 DEF Wanted
    <3>2. StreamOK(s, v, SentOf(d, s), {})
      BY <1>2, <1>9, <2>1, <3>1 DEF TaskOK, StreamOK
    <3>3. NeatOK(x, SentOf(d, s), {}, {}) => NeatOK(v, SentOf(d, s), {}, {})
      BY <1>7, <1>8, <1>9, <2>1, <3>1 DEF NeatOK
    <3> QED
      BY <1>1, <1>2, <1>4, <1>5, <1>9, <2>1, <3>2, <3>3 DEF TaskOK
  <2>4. Good(Put(d, s, v), s, K, K)
    BY <1>1, <1>11, <2>1, <2>3, PutSame
  <2> QED
    BY <1>1, <1>4, <2>2, <2>4, FineIsGood
<1>14. Fine(Enqueue(cut, s, 1)) /\ Fine([cut EXCEPT !.idle = TRUE])
  <2> HIDE DEF m
  <2>1. R \in SUBSET SentOf(m, s) /\ Offs(R) \subseteq {o} /\ Out(R) \subseteq {o}
    BY DEF Offs, Out
  <2>2. \A r \in SentOf(m, s) \ R : r.offset # o
    OBVIOUS
  <2> HIDE DEF R
  <2>3. PICK H : H = K \cup Out(R)
    OBVIOUS
  <2>4. /\ Good(n, s, H, K) /\ SentOf(n, s) = SentOf(m, s) \ R
        /\ z.waits = W /\ H \subseteq {o}
    BY <1>1, <1>4, <1>9, <1>12, <2>1, <2>3, CancelRequestsGood
  <2> HIDE DEF n
  <2>5. Typed(n) /\ z \in TaskStates /\ TaskOK(s, z, SentOf(n, s), H, {})
    <3>1. Typed(n) /\ TaskOK(s, z, SentOf(n, s), H, {})
      BY <1>1, <1>5, <2>4 DEF Good
    <3> QED
      BY <1>1, <3>1, SentOfIs
  <2>6. \A r \in SentOf(n, s) : r.offset # o
    BY <2>2, <2>4
  <2>7. cut = [n EXCEPT !.task[s].unchecked = [p \in DOMAIN @ \ {o} |-> @[p]]]
    BY DEF Put
  <2> HIDE DEF z
  <2>8. rest \in UNION { [D -> Positive] : D \in SUBSET Nat } /\ DOMAIN rest = DOMAIN z.unchecked \ {o}
    <3>1. DOMAIN z.unchecked \in SUBSET Nat /\ z.unchecked \in [DOMAIN z.unchecked -> Positive]
      BY <2>5, UncheckedAre
    <3>2. DOMAIN z.unchecked \ {o} \in SUBSET Nat
      BY <3>1
    <3>3. rest \in [DOMAIN z.unchecked \ {o} -> Positive]
      BY <3>1
    <3> HIDE DEF rest
    <3> QED
      BY <3>2, <3>3
  <2> HIDE DEF rest
  <2>9. /\ u \in TaskStates /\ u.next = z.next /\ u.loaded = z.loaded /\ u.wanted = z.wanted
        /\ u.waits = z.waits /\ u.unchecked = rest /\ u.cdn = z.cdn
        /\ u.astray = z.astray /\ u.state = z.state
    BY <2>5, <2>8 DEF TaskStates
  <2> HIDE DEF u
  <2>10. TaskOK(s, u, SentOf(n, s), K, PartsIn(K, s))
    <3>1. Wanted(u) = Wanted(z)
      BY <2>9 DEF Wanted
    <3>2. StreamOK(s, u, SentOf(n, s), {})
      BY <2>5, <2>8, <2>9, <3>1 DEF TaskOK, StreamOK
    <3>3. NeatOK(z, SentOf(n, s), H, {}) => NeatOK(u, SentOf(n, s), {}, {})
      BY <1>8, <2>4, <2>6, <2>8, <2>9, <3>1 DEF NeatOK
    <3> QED
      BY <1>1, <1>4, <1>5, <2>5, <2>9, <3>2, <3>3 DEF TaskOK
  <2>11. Good(cut, s, K, K)
    BY <1>1, <2>4, <2>9, <2>10, PutSame
  <2> HIDE DEF cut
  <2>12. Fine(Enqueue(cut, s, 1))
    <3>1. Good(cut, s, {}, {})
      BY <1>4, <2>11
    <3> QED
      BY <1>1, <3>1, EnqueueFine
  <2>13. Good([cut EXCEPT !.idle = TRUE], s, K, K)
    BY <2>11, IdleGood
  <2> QED
    BY <1>1, <1>4, <2>12, <2>13, FineIsGood
<1> QED
  BY <1>3, <1>13, <1>14

-----------------------------------------------------------------------------
(* What comes back. *)

\* A part of the data center comes: it is fed.
LEMMA PartCameFine ==
  ASSUME Fine(d), NEW t \in Tasks, NEW r \in SentOf(d, t), PartCame(r)
  PROVE  Fine(d')
<1>1. PICK slow \in BOOLEAN, waited \in BOOLEAN :
        /\ r.kind = "part"
        /\ d' = The({ CheckSendNext(FeedParts(m, r.task, {r.offset})) :
                        m \in {Succeed(d, r, slow, waited)} })
  BY DEF PartCame, Done
<1> DEFINE m == Succeed(d, r, slow, waited)
           n == FeedParts(m, t, {r.offset})
<1>2. r.task = t /\ (t \in Files => d.task[t].state = "on")
  BY RequestIs
<1>3. d' = CheckSendNext(n)
  <2>1. { CheckSendNext(FeedParts(v, r.task, {r.offset})) : v \in {m} } = {CheckSendNext(n)}
    BY <1>2
  <2> HIDE DEF n, m
  <2> QED
    BY <1>1, <2>1, TheIs DEF m
<1>4. PICK K : K = {}
  OBVIOUS
<1>5. PICK H : H = {r.offset}
  OBVIOUS
<1>6. Good(m, t, H, K) /\ m.task = d.task
  <2>1. /\ Good(m, t, Out({r}), {}) /\ m.task = d.task
        /\ r.kind # "hashes" => Out({r}) = {r.offset}
    BY SucceededIs
  <2> QED
    BY <1>1, <1>4, <1>5, <2>1
<1> HIDE DEF m
<1>7. Good(FeedParts(m, t, H), t, {}, K)
  BY <1>2, <1>6, FeedPartsGood
<1>8. Good(n, t, {}, {})
  BY <1>4, <1>5, <1>7
<1> HIDE DEF n
<1> QED
  BY <1>3, <1>8, CheckSendNextFine

\* Hashes come to a task.
LEMMA AddHashesGood ==
  ASSUME NEW m, NEW t \in Tasks, NEW H, NEW E, Good(m, t, H, E), NEW N \in SUBSET Nat,
         t \in Files => m.task[t].state = "on"
  PROVE  /\ Good(AddHashes(m, t, N), t, H, E)
         /\ SentOf(AddHashes(m, t, N), t) = SentOf(m, t)
         /\ AddHashes(m, t, N).task[t].next = m.task[t].next
         /\ AddHashes(m, t, N).task[t].state = m.task[t].state
         /\ AddHashes(m, t, N).task[t].astray = m.task[t].astray
         /\ AddHashes(m, t, N).task[t].cdn = m.task[t].cdn
         /\ Unchecked(AddHashes(m, t, N), t) = Unchecked(m, t)
<1> DEFINE x == m.task[t]
           L == x.hashes \cup N
           y == [x EXCEPT !.hashes = L]
           n == Put(m, t, y)
<1>1. Typed(m) /\ x \in TaskStates /\ TaskOK(t, x, SentOf(m, t), H, PartsIn(E, t))
  <2>1. Typed(m) /\ TaskOK(t, x, SentOf(m, t), H, PartsIn(E, t))
    BY DEF Good
  <2> QED
    BY <2>1, SentOfIs
<1>2. AddHashes(m, t, N) = n
  BY DEF AddHashes, Put
<1>3. t \in Files => x.state = "on"
  OBVIOUS
<1> HIDE DEF x
<1>4. L \in SUBSET Nat
  BY <1>1 DEF TaskStates
<1> HIDE DEF L
<1>5. /\ y \in TaskStates /\ y.next = x.next /\ y.loaded = x.loaded /\ y.wanted = x.wanted
      /\ y.waits = x.waits /\ y.unchecked = x.unchecked /\ y.cdn = x.cdn
      /\ y.astray = x.astray /\ y.state = x.state
  BY <1>1, <1>4 DEF TaskStates
<1> HIDE DEF y
<1>6. TaskOK(t, y, SentOf(m, t), H, PartsIn(E, t))
  BY <1>1, <1>3, <1>5, SameOK
<1>7. Good(n, t, H, E) /\ n.task[t] = y /\ n.sent = m.sent
  BY <1>3, <1>5, <1>6, PutSame
<1> HIDE DEF n
<1> QED
  BY <1>2, <1>5, <1>7 DEF SentOf, Unchecked, x

\* The data center sends the task to a CDN: all its requests are made again.
LEMMA SwitchToCdnFine ==
  ASSUME Fine(d), NEW t \in Tasks, NEW r \in SentOf(d, t), NEW N \in SUBSET Nat,
         SwitchToCdn(r, N)
  PROVE  Fine(d')
<1>1. PICK slow \in BOOLEAN, waited \in BOOLEAN :
        /\ r.kind = "part"
        /\ d' = The({ CheckSendNext(ChangeCdn(AddHashes(m, r.task, N), r, TRUE)) :
                        m \in {Succeed(d, r, slow, waited)} })
  BY DEF SwitchToCdn, Done
<1> DEFINE m == Succeed(d, r, slow, waited)
           a == AddHashes(m, t, N)
           n == ChangeCdn(a, r, TRUE)
<1>2. /\ r.task = t /\ r \in Requests
      /\ t \in Files => d.task[t].state = "on" /\ r.offset \in Taken(d.task[t])
      /\ t \in Streams => r.offset \in Offsets(t)
      /\ ~d.task[t].astray => ~d.task[t].cdn
  BY <1>1, RequestIs
<1>3. d' = CheckSendNext(n)
  <2>1. { CheckSendNext(ChangeCdn(AddHashes(v, r.task, N), r, TRUE)) : v \in {m} }
        = {CheckSendNext(n)}
    BY <1>2
  <2> HIDE DEF n, m
  <2> QED
    BY <1>1, <2>1, TheIs DEF m
<1>4. PICK K : K = {}
  OBVIOUS
<1>5. PICK H : H = {r.offset}
  OBVIOUS
<1>6. Good(m, t, H, K) /\ m.task = d.task
  <2>1. /\ Good(m, t, Out({r}), {}) /\ m.task = d.task
        /\ r.kind # "hashes" => Out({r}) = {r.offset}
    BY SucceededIs
  <2> QED
    BY <1>1, <1>4, <1>5, <2>1
<1> HIDE DEF m
<1>7. /\ Good(a, t, H, K) /\ a.task[t].next = m.task[t].next
      /\ a.task[t].state = m.task[t].state /\ a.task[t].astray = m.task[t].astray
      /\ a.task[t].cdn = m.task[t].cdn
  BY <1>2, <1>6, AddHashesGood
<1> HIDE DEF a
<1>8. /\ t \in Files => a.task[t].state = "on" /\ r.offset \in Taken(a.task[t])
      /\ ~a.task[t].astray => ~a.task[t].cdn
  BY <1>2, <1>6, <1>7 DEF Taken
<1>9. Good(n, t, {}, K)
  BY <1>2, <1>5, <1>7, <1>8, ChangeCdnGood
<1> HIDE DEF n
<1>10. Good(n, t, {}, {})
  BY <1>4, <1>9
<1> QED
  BY <1>3, <1>10, CheckSendNextFine

\* A part waits for its hash.
LEMMA KeptUncheckedGood ==
  ASSUME NEW m, NEW t \in Tasks, NEW o \in Nat, NEW s \in Positive, Good(m, t, {o}, {}),
         t \in Files => m.task[t].state = "on",
         ~m.task[t].astray => m.task[t].cdn
  PROVE  Good(WithUnchecked(m, t, o, s), t, {}, {})
<1> DEFINE x == m.task[t]
           more == [p \in DOMAIN x.unchecked \cup {o} |->
                      IF p \in DOMAIN x.unchecked THEN x.unchecked[p] ELSE s]
           y == [x EXCEPT !.unchecked = more]
           S == SentOf(m, t)
<1>1. Typed(m) /\ x \in TaskStates /\ TaskOK(t, x, S, {o}, PartsIn({}, t))
  <2>1. Typed(m) /\ TaskOK(t, x, S, {o}, PartsIn({}, t))
    BY DEF Good
  <2> QED
    BY <2>1, SentOfIs
<1>2. WithUnchecked(m, t, o, s) = Put(m, t, y)
  BY DEF Put, WithUnchecked
<1>3. /\ t \in Files => x.state = "on"
      /\ ~x.astray => x.cdn
  OBVIOUS
<1> HIDE DEF x, S
<1>4. DOMAIN more = DOMAIN x.unchecked \cup {o}
      /\ more \in UNION { [D -> Positive] : D \in SUBSET Nat }
  <2>1. DOMAIN x.unchecked \in SUBSET Nat /\ x.unchecked \in [DOMAIN x.unchecked -> Positive]
    BY <1>1, UncheckedAre
  <2>3. PICK D : D = DOMAIN x.unchecked \cup {o}
    OBVIOUS
  <2>4. D \in SUBSET Nat
    BY <2>1, <2>3
  <2>5. more \in [D -> Positive]
    BY <2>1, <2>3
  <2> HIDE DEF more
  <2> QED
    BY <2>3, <2>4, <2>5
<1> HIDE DEF more
<1>5. /\ y \in TaskStates /\ y.next = x.next /\ y.loaded = x.loaded /\ y.wanted = x.wanted
      /\ y.waits = x.waits /\ y.unchecked = more /\ y.cdn = x.cdn
      /\ y.astray = x.astray /\ y.state = x.state
  BY <1>1, <1>4 DEF TaskStates
<1> HIDE DEF y
<1>6. PartsIn({}, t) = {}
  BY DEF PartsIn
<1>7. TaskOK(t, y, S, {}, {})
  <2>1. Wanted(y) = Wanted(x)
    BY <1>5 DEF Wanted
  <2>2. t \in Files => FileOK(t, y, S, {})
    BY <1>1, <1>3, <1>4, <1>5 DEF TaskOK, FileOK, Taken
  <2>3. t \in Streams => StreamOK(t, y, S, {})
    BY <1>1, <1>4, <1>5, <2>1 DEF TaskOK, StreamOK
  <2>4. ~x.astray /\ NeatOK(x, S, {o}, {}) => NeatOK(y, S, {}, {})
    BY <1>3, <1>4, <1>5, <2>1 DEF NeatOK
  <2> QED
    BY <1>1, <1>5, <1>6, <2>2, <2>3, <2>4 DEF TaskOK
<1>8. PICK K : K = {}
  OBVIOUS
<1>9. PICK H : H = {o}
  OBVIOUS
<1>10. Good(m, t, H, K)
  BY <1>8, <1>9
<1>11. TaskOK(t, y, SentOf(m, t), K, PartsIn(K, t))
  BY <1>6, <1>7, <1>8 DEF S
<1>12. Good(Put(m, t, y), t, K, K)
  BY <1>3, <1>5, <1>10, <1>11, PutSame
<1> QED
  BY <1>2, <1>8, <1>12

\* A part of the CDN comes: it is fed, or kept until its hash is there.
LEMMA CdnPartCameFine ==
  ASSUME Fine(d), NEW t \in Tasks, NEW r \in SentOf(d, t), CdnPartCame(r)
  PROVE  Fine(d')
<1> DEFINE kept(m) == WithUnchecked(m, t, r.offset, r.session)
           next(v) == IF r.offset \in v.task[t].hashes THEN FeedParts(v, t, {r.offset})
                      ELSE RequestMore(kept(v), t)
<1>1. /\ r.task = t /\ r \in Requests /\ r.offset \in Nat /\ r.session \in Positive
      /\ t \in Files => d.task[t].state = "on"
  BY RequestIs
<1>2. PICK slow \in BOOLEAN, waited \in BOOLEAN :
        /\ r.kind = "cdn"
        /\ d' = The({ CheckSendNext(
             IF r.offset \in m.task[r.task].hashes THEN FeedParts(m, r.task, {r.offset})
             ELSE RequestMore(WithUnchecked(m, r.task, r.offset, r.session), r.task)) :
             m \in {Succeed(d, r, slow, waited)} })
  BY DEF CdnPartCame, Done
<1> DEFINE m == Succeed(d, r, slow, waited)
<1>3. d' = CheckSendNext(next(m))
  <2> HIDE DEF m
  <2>1. { CheckSendNext(
             IF r.offset \in v.task[r.task].hashes THEN FeedParts(v, r.task, {r.offset})
             ELSE RequestMore(WithUnchecked(v, r.task, r.offset, r.session), r.task)) :
             v \in {m} } = {CheckSendNext(next(m))}
    BY <1>1
  <2> HIDE DEF next
  <2> QED
    BY <1>2, <2>1, TheIs DEF m
<1>4. Good(m, t, {r.offset}, {}) /\ m.task = d.task
  <2>1. /\ Good(m, t, Out({r}), {}) /\ m.task = d.task
        /\ r.kind # "hashes" => Out({r}) = {r.offset}
    BY SucceededIs
  <2> QED
    BY <1>2, <2>1
<1>5. ~d.task[t].astray => d.task[t].cdn
  BY <1>2, RequestIs
<1> HIDE DEF m
<1>6. Good(next(m), t, {}, {})
  <2>1. PICK K : K = {}
    OBVIOUS
  <2>2. PICK H : H = {r.offset}
    OBVIOUS
  <2>3. Good(FeedParts(m, t, {r.offset}), t, {}, {})
    <3>1. Good(m, t, H, K)
      BY <1>4, <2>1, <2>2
    <3>2. Good(FeedParts(m, t, H), t, {}, K)
      BY <1>1, <1>4, <3>1, FeedPartsGood
    <3> QED
      BY <2>1, <2>2, <3>2
  <2>4. Good(kept(m), t, {}, {})
    BY <1>1, <1>4, <1>5, KeptUncheckedGood
  <2> HIDE DEF kept
  <2>5. Good(RequestMore(kept(m), t), t, {}, {})
    <3>1. Good(kept(m), t, K, K)
      BY <2>1, <2>4
    <3>2. Good(RequestMore(kept(m), t), t, K, K)
      BY <3>1, RequestMoreGood
    <3> QED
      BY <2>1, <3>2
  <2> QED
    BY <2>3, <2>5
<1> HIDE DEF next
<1> QED
  BY <1>3, <1>6, CheckSendNextFine

\* A part of the CDN that is not what its hash says ends the task.
LEMMA CdnPartWrongFine ==
  ASSUME Fine(d), NEW t \in Tasks, NEW r \in SentOf(d, t), CdnPartWrong(r)
  PROVE  Fine(d')
<1>1. /\ r.task = t /\ r \in Requests
  BY RequestIs
<1>2. /\ d' = CheckSendNext(CancelOnFail(Succeed(d, r, FALSE, FALSE), t))
  BY <1>1 DEF CdnPartWrong
<1> DEFINE m == Succeed(d, r, FALSE, FALSE)
<1>3. PICK H : H = Out({r})
  OBVIOUS
<1>4. Good(m, t, H, {})
  BY <1>3, SucceededIs
<1> HIDE DEF m
<1>5. Fine(CancelOnFail(m, t))
  BY <1>4, CancelOnFailFine
<1>6. Good(CancelOnFail(m, t), t, {}, {})
  BY <1>5, FineIsGood
<1>7. Fine(CheckSendNext(CancelOnFail(m, t)))
  BY <1>6, CheckSendNextFine
<1> QED
  BY <1>2, <1>7 DEF m

\* A request for a part is made in the place of one that is over.
LEMMA MadeAgainFine ==
  ASSUME NEW m, NEW t \in Tasks, NEW q \in Requests, q.task = t, q.kind # "hashes",
         Good(m, t, {q.offset}, {}), KindOK(m.task[t], q.kind),
         t \in Files => m.task[t].state = "on"
  PROVE  Fine(Place(m, q))
<1>1. PICK K : K = {}
  OBVIOUS
<1>2. PICK H : H = {q.offset}
  OBVIOUS
<1>3. Good(m, t, H, K) /\ q.offset \in H
  BY <1>1, <1>2
<1>4. Without(H, K, q.offset, m.task[t].astray)
  BY <1>1, <1>2 DEF Without
<1>5. Good(Place(m, q), t, K, K)
  BY <1>3, <1>4, RequestMadeGood
<1> QED
  BY <1>1, <1>5, FineIsGood

\* The CDN does not have the part: the data center is asked to give it.
LEMMA ReuploadNeededFine ==
  ASSUME Fine(d), NEW t \in Tasks, NEW r \in SentOf(d, t), ReuploadNeeded(r)
  PROVE  Fine(d')
<1> DEFINE q == Request(t, r.offset, "reupload", r.session)
           m == Finish(d, {r})
<1>1. /\ r.task = t /\ r \in Requests /\ r.offset \in Nat /\ r.session \in Positive
      /\ t \in Files => d.task[t].state = "on"
  BY RequestIs
<1>2. r.kind = "cdn" /\ d' = Place(m, q)
  BY <1>1 DEF ReuploadNeeded
<1>3. ~d.task[t].astray => d.task[t].cdn
  BY <1>2, RequestIs
<1>4. Good(m, t, {r.offset}, {}) /\ m.task = d.task
  <2>1. /\ Good(m, t, Out({r}), {}) /\ m.task = d.task
        /\ r.kind # "hashes" => Out({r}) = {r.offset}
    BY FinishedIs DEF Finished
  <2> QED
    BY <1>2, <2>1
<1>5. q \in Requests /\ q.task = t /\ q.kind = "reupload" /\ q.offset = r.offset
  BY <1>1 DEF Request, Requests, AnyRequests
<1> HIDE DEF q, m
<1>6. KindOK(m.task[t], q.kind)
  BY <1>3, <1>4, <1>5 DEF KindOK
<1> QED
  BY <1>1, <1>2, <1>4, <1>5, <1>6, MadeAgainFine

\* The CDN was given the part: it is asked for again.
LEMMA ReuploadDoneFine ==
  ASSUME Fine(d), NEW t \in Tasks, NEW r \in SentOf(d, t), NEW N \in SUBSET Nat,
         ReuploadDone(r, N)
  PROVE  Fine(d')
<1> DEFINE m == Finish(d, {r})
           a == AddHashes(m, t, N)
<1>1. /\ r.task = t /\ r.offset \in Nat /\ r.session \in Positive
      /\ t \in Files => d.task[t].state = "on"
  BY RequestIs
<1>2. r.kind = "reupload" /\ d' = MakeRequest(a, t, r.offset, r.session)
  BY <1>1 DEF ReuploadDone
<1>3. Good(m, t, {r.offset}, {}) /\ m.task = d.task
  <2>1. /\ Good(m, t, Out({r}), {}) /\ m.task = d.task
        /\ r.kind # "hashes" => Out({r}) = {r.offset}
    BY FinishedIs DEF Finished
  <2> QED
    BY <1>2, <2>1
<1> HIDE DEF m
<1>4. PICK K : K = {}
  OBVIOUS
<1>5. PICK H : H = {r.offset}
  OBVIOUS
<1>6. Good(m, t, H, K)
  BY <1>3, <1>4, <1>5
<1>7. Good(a, t, H, K) /\ a.task[t].state = m.task[t].state
  BY <1>1, <1>3, <1>6, AddHashesGood
<1> HIDE DEF a
<1>8. PICK o : o = r.offset
  OBVIOUS
<1>9. Good(a, t, {o}, K) /\ o \in Nat
  BY <1>1, <1>5, <1>7, <1>8
<1>10. Good(MakeRequest(a, t, o, r.session), t, {}, K)
  BY <1>1, <1>3, <1>7, <1>9, AllMade
<1> QED
  BY <1>2, <1>4, <1>8, <1>10, FineIsGood

\* The CDN refuses the token: the task goes back to the data center.
LEMMA TokenRefusedFine ==
  ASSUME Fine(d), NEW t \in Tasks, NEW r \in SentOf(d, t), TokenRefused(r)
  PROVE  Fine(d')
<1> DEFINE m == Finish(d, {r})
<1>1. /\ r.task = t /\ r \in Requests
      /\ t \in Files => d.task[t].state = "on" /\ r.offset \in Taken(d.task[t])
      /\ t \in Streams => r.offset \in Offsets(t)
      /\ ~d.task[t].astray /\ r.kind = "hashes" => r.offset \in Unchecked(d, t)
  BY RequestIs
<1>2. d' = ChangeCdn(m, r, FALSE)
  BY DEF TokenRefused
<1>3. PICK K : K = {}
  OBVIOUS
<1>4. PICK H : H = Out({r})
  OBVIOUS
<1>5. /\ Good(m, t, H, K) /\ m.task = d.task /\ H \subseteq {r.offset}
      /\ r.kind # "hashes" => r.offset \in H
  <2>1. /\ Good(m, t, Out({r}), {}) /\ m.task = d.task
        /\ r.kind # "hashes" => Out({r}) = {r.offset}
        /\ r.kind = "hashes" => Out({r}) = {}
    BY FinishedIs DEF Finished
  <2> QED
    BY <1>3, <1>4, <2>1
<1>6. Unchecked(m, t) = Unchecked(d, t)
  BY <1>5 DEF Unchecked
<1> HIDE DEF m
<1>7. /\ t \in Files => m.task[t].state = "on" /\ r.offset \in Taken(m.task[t])
      /\ ~m.task[t].astray /\ Unchecked(m, t) = {} => r.offset \in H
  BY <1>1, <1>5, <1>6
<1>8. PICK on \in BOOLEAN : on = FALSE
  OBVIOUS
<1>9. Good(ChangeCdn(m, r, on), t, {}, K)
  BY <1>1, <1>5, <1>7, <1>8, ChangeCdnGood
<1>10. Good(d', t, {}, {})
  BY <1>2, <1>3, <1>8, <1>9
<1> QED
  BY <1>10, FineIsGood

\* A request is marked: refused and kept, or waiting for a new reference.
Marked(m, r, at) == [m EXCEPT !.sent = (@ \ {r}) \cup {[r EXCEPT !.at = at]}]

\* A request is marked as refused, or as waiting for a reference.
LEMMA MarkedFine ==
  ASSUME NEW m, Fine(m), NEW t \in Tasks, NEW r \in SentOf(m, t),
         NEW at \in {"reference", "failed"}, at = "reference" => r.kind = "part"
  PROVE  Good(Marked(m, r, at), t, {}, {})
<1> DEFINE q == [r EXCEPT !.at = at]
           R == (m.sent \ {r}) \cup {q}
           n == Marked(m, r, at)
<1>1. /\ r \in Requests /\ r.task = t /\ Typed(m) /\ r \in m.sent /\ m \in Managers
      /\ m.sent \in SUBSET Requests /\ IsFiniteSet(m.sent)
  <2>1. r \in Requests /\ r.task = t /\ Typed(m)
    BY RequestIs
  <2>2. r \in m.sent
    BY DEF SentOf
  <2>3. m \in Managers /\ m.sent \in SUBSET Requests /\ IsFiniteSet(m.sent)
    BY <2>1 DEF Typed, Managers
  <2> QED
    BY <2>1, <2>2, <2>3
<1>2. /\ q \in Requests /\ q.task = t /\ q.kind = r.kind /\ q.offset = r.offset
  BY <1>1 DEF Requests, AnyRequests
<1> HIDE DEF q
<1>3. R \in SUBSET Requests /\ IsFiniteSet(R)
  <2>1. IsFiniteSet(m.sent \ {r}) /\ IsFiniteSet({q})
    BY <1>1, FS_Subset, FS_Singleton
  <2> QED
    BY <1>1, <1>2, <2>1, FS_Union
<1>4. n = [m EXCEPT !.sent = R]
  BY DEF Marked, q
<1> HIDE DEF R, n
<1>5. /\ Typed(n) /\ n.task = m.task /\ n.queue = m.queue /\ n.sent = R
  BY <1>1, <1>3, <1>4 DEF Typed, Managers
<1>6. ASSUME NEW u \in Tasks
      PROVE  /\ Once(SentOf(m, u)) => Once(SentOf(n, u))
             /\ \A p \in SentOf(m, u) : \E v \in SentOf(n, u) : v.kind = p.kind /\ v.offset = p.offset
             /\ \A v \in SentOf(n, u) : \E p \in SentOf(m, u) : v.kind = p.kind /\ v.offset = p.offset
  <2>1. CASE u # t
    <3>1. SentOf(n, u) = SentOf(m, u)
      BY <1>1, <1>2, <1>5, <2>1 DEF SentOf, R
    <3> QED
      BY <3>1
  <2>2. CASE u = t
    <3>1. /\ r \in SentOf(m, u) /\ q \in SentOf(n, u)
          /\ \A p : p \in SentOf(n, u) <=> (p \in SentOf(m, u) /\ p # r) \/ p = q
      BY <1>1, <1>2, <1>5, <2>2 DEF SentOf, R
    <3>2. Once(SentOf(m, u)) => Once(SentOf(n, u))
      BY <1>2, <3>1 DEF Once
    <3> QED
      BY <1>2, <3>1, <3>2
  <2> QED
    BY <2>1, <2>2
<1>7. PICK K : K = {}
  OBVIOUS
<1>8. Good(m, t, K, K)
  BY <1>7, FineIsGood
<1>9. Good(n, t, K, K)
  BY <1>5, <1>6, <1>8, MarkedGood
<1> QED
  BY <1>7, <1>9 DEF n

\* A refused request is kept, and its task fails.
LEMMA KeptFine ==
  ASSUME Fine(d), NEW t \in Tasks, NEW r \in SentOf(d, t)
  PROVE  Fine(Kept(r))
<1>1. r.task = t
  BY RequestIs
<1>2. Kept(r) = CancelOnFail(Marked(d, r, "failed"), t)
  BY <1>1 DEF Kept, Marked
<1>3. PICK K : K = {}
  OBVIOUS
<1>4. PICK at \in {"reference", "failed"} : at = "failed"
  OBVIOUS
<1>5. Good(Marked(d, r, at), t, {}, {})
  BY <1>4, MarkedFine
<1>6. Good(Marked(d, r, at), t, K, {})
  BY <1>3, <1>5
<1>7. Fine(CancelOnFail(Marked(d, r, at), t))
  BY <1>6, CancelOnFailFine
<1> QED
  BY <1>2, <1>4, <1>7

\* A part is refused.
LEMMA RefusedFine ==
  ASSUME Fine(d), NEW t \in Tasks, NEW r \in SentOf(d, t), Refused(r)
  PROVE  Fine(d')
BY KeptFine DEF Refused

\* The file reference is refused: the request waits for a new one.
LEMMA ReferenceRefusedFine ==
  ASSUME Fine(d), NEW t \in Tasks, NEW r \in SentOf(d, t), ReferenceRefused(r)
  PROVE  Fine(d')
<1>1. PICK at \in {"reference", "failed"} : at = "reference"
  OBVIOUS
<1>2. r.kind = "part" /\ d' = Marked(d, r, at)
  BY <1>1 DEF ReferenceRefused, Marked
<1>3. Good(Marked(d, r, at), t, {}, {})
  BY <1>2, MarkedFine
<1> QED
  BY <1>2, <1>3, FineIsGood

\* The new reference comes, and the part is asked for again, or there is none.
LEMMA ReferenceCameFine ==
  ASSUME Fine(d), NEW t \in Tasks, NEW r \in SentOf(d, t), NEW fresh \in BOOLEAN,
         ReferenceCame(r, fresh)
  PROVE  Fine(d')
<1> DEFINE m == Finish(d, {r})
<1>1. /\ r.task = t /\ r \in Requests /\ r.offset \in Nat /\ r.session \in Positive
      /\ t \in Files => d.task[t].state = "on"
  BY RequestIs
<1>2. CASE ~fresh
  BY <1>2, KeptFine DEF ReferenceCame
<1>3. CASE fresh
  <2>1. r.at = "reference" /\ d' = MakeRequest(m, t, r.offset, r.session)
    BY <1>1, <1>3 DEF ReferenceCame
  <2>2. r.kind = "part"
    BY <1>1, <2>1 DEF Requests
  <2>3. Good(m, t, {r.offset}, {}) /\ m.task = d.task
    <3>1. /\ Good(m, t, Out({r}), {}) /\ m.task = d.task
          /\ r.kind # "hashes" => Out({r}) = {r.offset}
      BY FinishedIs DEF Finished
    <3> QED
      BY <2>2, <3>1
  <2> HIDE DEF m
  <2>4. PICK K : K = {}
    OBVIOUS
  <2>5. PICK o : o = r.offset
    OBVIOUS
  <2>6. Good(m, t, {o}, K) /\ o \in Nat /\ (t \in Files => m.task[t].state = "on")
    BY <1>1, <2>3, <2>4, <2>5
  <2>7. Good(MakeRequest(m, t, o, r.session), t, {}, K)
    BY <1>1, <2>6, AllMade
  <2> QED
    BY <2>1, <2>4, <2>5, <2>7, FineIsGood
<1> QED
  BY <1>2, <1>3

\* Of a task's record, a mark is set that says nothing of its parts.
LEMMA NotedFine ==
  ASSUME NEW m, Fine(m), NEW t \in Tasks, NEW y \in TaskStates,
         y.next = m.task[t].next, y.loaded = m.task[t].loaded, y.wanted = m.task[t].wanted,
         y.waits = m.task[t].waits, y.unchecked = m.task[t].unchecked, y.cdn = m.task[t].cdn,
         y.astray = m.task[t].astray, y.state = m.task[t].state,
         t \in Files => m.task[t].state = "on" \/ ~y.lostRef
  PROVE  Good(Put(m, t, y), t, {}, {})
<1> DEFINE x == m.task[t]
<1>1. PICK K : K = {}
  OBVIOUS
<1>2. Good(m, t, K, K)
  BY <1>1, FineIsGood
<1>3. Typed(m) /\ QueueOK(m) /\ TaskOK(t, x, SentOf(m, t), K, PartsIn(K, t))
  <2>1. PartsIn(K, t) = {}
    BY <1>1 DEF PartsIn
  <2> QED
    BY <1>1, <2>1 DEF Fine
<1>4. x \in TaskStates
  BY <1>3, SentOfIs
<1>5. TaskOK(t, y, SentOf(m, t), K, PartsIn(K, t))
  <2>1. DOMAIN y.unchecked = DOMAIN x.unchecked
    OBVIOUS
  <2>2. /\ y.next = x.next /\ y.loaded = x.loaded /\ y.wanted = x.wanted /\ y.waits = x.waits
        /\ y.cdn = x.cdn /\ y.astray = x.astray /\ y.state = x.state
        /\ t \in Files => x.state = "on" \/ ~y.lostRef
    OBVIOUS
  <2> HIDE DEF x
  <2> QED
    BY <1>3, <1>4, <2>1, <2>2, SameOK
<1>6. t \in Files => y.state = "on" \/ ~InQueue(m, t)
  BY <1>3 DEF QueueOK
<1>7. Good(Put(m, t, y), t, K, K)
  BY <1>2, <1>5, <1>6, PutSame
<1> QED
  BY <1>1, <1>7

\* A reference comes for a request that is gone.
LEMMA LostReferenceCameFine ==
  ASSUME Fine(d), NEW t \in Tasks, NEW fresh \in BOOLEAN, LostReferenceCame(t, fresh)
  PROVE  Fine(d')
<1> DEFINE x == d.task[t]
           y == [x EXCEPT !.lostRef = FALSE]
           m == Put(d, t, y)
<1>1. x \in TaskStates
  BY SentOfIs DEF Fine
<1>2. d' = IF fresh THEN m ELSE CancelOnFail(m, t)
  BY DEF LostReferenceCame, Put
<1>3. /\ y \in TaskStates /\ y.next = x.next /\ y.loaded = x.loaded /\ y.wanted = x.wanted
      /\ y.waits = x.waits /\ y.unchecked = x.unchecked /\ y.cdn = x.cdn
      /\ y.astray = x.astray /\ y.state = x.state /\ ~y.lostRef
  <2> HIDE DEF x
  <2> QED
    BY <1>1 DEF TaskStates
<1> HIDE DEF y
<1>4. Good(m, t, {}, {})
  BY <1>3, NotedFine
<1> HIDE DEF m
<1>5. PICK K : K = {}
  OBVIOUS
<1>6. Good(m, t, K, {})
  BY <1>4, <1>5
<1>7. Fine(CancelOnFail(m, t))
  BY <1>6, CancelOnFailFine
<1> QED
  BY <1>2, <1>4, <1>7, FineIsGood

\* The posted requestMoreCdnFileHashes() asks for hashes.
LEMMA PostedMoreFine ==
  ASSUME Fine(d), NEW t \in Tasks, PostedMore(t)
  PROVE  Fine(d')
<1> DEFINE x == d.task[t]
           y == [x EXCEPT !.more = FALSE]
           m == Put(d, t, y)
<1>1. /\ x \in TaskStates /\ TaskOK(t, x, SentOf(d, t), {}, {})
  BY SentOfIs DEF Fine
<1>2. d' = RequestMore(m, t)
  BY DEF PostedMore, Put
<1>3. /\ y \in TaskStates /\ y.next = x.next /\ y.loaded = x.loaded /\ y.wanted = x.wanted
      /\ y.waits = x.waits /\ y.unchecked = x.unchecked /\ y.cdn = x.cdn
      /\ y.astray = x.astray /\ y.state = x.state /\ y.lostRef = x.lostRef
  <2> HIDE DEF x
  <2> QED
    BY <1>1 DEF TaskStates
<1>4. t \in Files => x.state = "on" \/ ~y.lostRef
  <2> HIDE DEF x, y
  <2> QED
    BY <1>1, <1>3 DEF TaskOK, FileOK
<1> HIDE DEF y
<1>5. Good(m, t, {}, {})
  BY <1>3, <1>4, NotedFine
<1> HIDE DEF m
<1>6. PICK K : K = {}
  OBVIOUS
<1>7. Good(m, t, K, K)
  BY <1>5, <1>6
<1>8. Good(RequestMore(m, t), t, K, K)
  BY <1>7, RequestMoreGood
<1> QED
  BY <1>2, <1>6, <1>8, FineIsGood

\* Hashes come: the parts that they are right for are fed, and hashes of others
\* are asked for; or the task fails.
LEMMA HashesCameFine ==
  ASSUME Fine(d), NEW t \in Tasks, NEW r \in SentOf(d, t), NEW N \in SUBSET Nat, NEW wrong,
         HashesCame(r, N, wrong)
  PROVE  Fine(d')
<1> DEFINE f == Finish(d, {r})
           a == AddHashes(f, t, N)
           m == [a EXCEPT !.idle = TRUE]
           known == Unchecked(m, t) \cap m.task[t].hashes
           good == { o \in known : o < wrong }
           failed == wrong \in known \/ good = {}
           x == m.task[t]
           rest == [o \in DOMAIN x.unchecked \ good |-> x.unchecked[o]]
           y == [x EXCEPT !.unchecked = rest]
           checked == Put(m, t, y)
           fed == FeedParts(checked, t, good)
<1>1. /\ r.task = t /\ r \in Requests
      /\ t \in Files => d.task[t].state = "on"
  BY RequestIs
<1>2. r.kind = "hashes" /\ d' = IF failed THEN CancelOnFail(fed, t) ELSE RequestMore(fed, t)
  BY <1>1 DEF HashesCame, Put
<1>3. PICK K : K = {}
  OBVIOUS
<1>4. /\ Good(f, t, K, K) /\ f.task = d.task /\ SentOf(f, t) = SentOf(d, t) \ {r}
  <2>1. /\ Good(f, t, Out({r}), {}) /\ f.task = d.task /\ SentOf(f, t) = SentOf(d, t) \ {r}
        /\ r.kind = "hashes" => Out({r}) = {}
    BY FinishedIs DEF Finished
  <2> QED
    BY <1>2, <1>3, <2>1
<1> HIDE DEF f
<1>5. /\ Good(a, t, K, K) /\ SentOf(a, t) = SentOf(f, t)
      /\ a.task[t].state = f.task[t].state /\ a.task[t].astray = f.task[t].astray
  BY <1>1, <1>4, AddHashesGood
<1> HIDE DEF a
<1>6. /\ Good(m, t, K, K) /\ m.task = a.task /\ m.sent = a.sent
  <2>1. a \in Managers
    BY <1>5 DEF Good, Typed
  <2> QED
    BY <1>5, <2>1, IdleGood DEF Managers
<1> HIDE DEF m
<1>7. PartsIn(K, t) = {}
  BY <1>3 DEF PartsIn
<1>8. /\ Typed(m) /\ x \in TaskStates /\ TaskOK(t, x, SentOf(m, t), {}, {})
      /\ SentOf(m, t) \in SUBSET Requests
      /\ t \in Files => x.state = "on"
  <2>1. Typed(m) /\ TaskOK(t, x, SentOf(m, t), {}, {})
    BY <1>3, <1>6, <1>7 DEF Good
  <2> QED
    BY <1>1, <1>4, <1>5, <1>6, <2>1, SentOfIs
<1>9. ~x.astray => \A q \in SentOf(m, t) : q.kind # "hashes"
  <2>1. SentOf(m, t) = SentOf(d, t) \ {r} /\ x.astray = d.task[t].astray
    BY <1>4, <1>5, <1>6 DEF SentOf
  <2>2. ~d.task[t].astray => Once(SentOf(d, t))
    BY DEF Fine, TaskOK, NeatOK
  <2>3. ASSUME ~x.astray, NEW q \in SentOf(d, t), q.kind = "hashes"
        PROVE  q = r
    BY <1>2, <2>1, <2>2, <2>3 DEF Once
  <2> QED
    BY <2>1, <2>3
<1>10. good \subseteq DOMAIN x.unchecked
  BY DEF Unchecked
<1> HIDE DEF good, x, failed
<1>11. rest \in UNION { [D -> Positive] : D \in SUBSET Nat } /\ DOMAIN rest = DOMAIN x.unchecked \ good
  <2>1. DOMAIN x.unchecked \in SUBSET Nat /\ x.unchecked \in [DOMAIN x.unchecked -> Positive]
    BY <1>8, UncheckedAre
  <2>2. DOMAIN x.unchecked \ good \in SUBSET Nat
    BY <2>1
  <2>3. rest \in [DOMAIN x.unchecked \ good -> Positive]
    BY <2>1
  <2> HIDE DEF rest
  <2> QED
    BY <2>2, <2>3
<1> HIDE DEF rest
<1>12. /\ y \in TaskStates /\ y.next = x.next /\ y.loaded = x.loaded /\ y.wanted = x.wanted
       /\ y.waits = x.waits /\ y.unchecked = rest /\ y.cdn = x.cdn
       /\ y.astray = x.astray /\ y.state = x.state
  BY <1>8, <1>11 DEF TaskStates
<1> HIDE DEF y
<1>13. TaskOK(t, y, SentOf(m, t), good, {})
  <2>1. Wanted(y) = Wanted(x)
    BY <1>12 DEF Wanted
  <2>2. t \in Files => FileOK(t, y, SentOf(m, t), good)
    BY <1>8, <1>10, <1>11, <1>12 DEF TaskOK, FileOK, Taken
  <2>3. t \in Streams => StreamOK(t, y, SentOf(m, t), good)
    BY <1>8, <1>10, <1>11, <1>12, <2>1 DEF TaskOK, StreamOK
  <2>4. ~x.astray /\ NeatOK(x, SentOf(m, t), {}, {}) => NeatOK(y, SentOf(m, t), good, {})
    BY <1>9, <1>10, <1>11, <1>12, <2>1 DEF NeatOK
  <2> QED
    BY <1>8, <1>12, <2>2, <2>3, <2>4 DEF TaskOK
<1>14. PICK G : G = good
  OBVIOUS
<1>15. Good(checked, t, G, K) /\ checked.task[t] = y
  <2>1. TaskOK(t, y, SentOf(m, t), G, PartsIn(K, t)) /\ (t \in Files => y.state = "on")
    BY <1>7, <1>8, <1>12, <1>13, <1>14
  <2> QED
    BY <1>6, <1>12, <2>1, PutSame
<1> HIDE DEF checked
<1>16. Good(FeedParts(checked, t, G), t, {}, K)
  <2>1. t \in Files => checked.task[t].state = "on"
    BY <1>8, <1>12, <1>15
  <2> QED
    BY <1>15, <2>1, FeedPartsGood
<1>17. Good(fed, t, {}, K)
  BY <1>14, <1>16
<1> HIDE DEF fed
<1>18. Fine(CancelOnFail(fed, t))
  <2>1. Good(fed, t, K, {})
    BY <1>3, <1>17
  <2> QED
    BY <2>1, CancelOnFailFine
<1>19. Fine(RequestMore(fed, t))
  <2>1. Good(fed, t, K, K)
    BY <1>3, <1>17
  <2>2. Good(RequestMore(fed, t), t, K, K)
    BY <2>1, RequestMoreGood
  <2> QED
    BY <1>3, <2>2, FineIsGood
<1> QED
  BY <1>2, <1>18, <1>19

-----------------------------------------------------------------------------
(* Time-outs and timers. *)

\* sessionTimedOut() with nothing in hand.
LEMMA TimedOutFine ==
  ASSUME NEW m, Fine(m), NEW s
  PROVE  Fine(SessionTimedOut(m, s))
<1>1. PICK K : K = {}
  OBVIOUS
<1>2. PICK b : b \notin Tasks
  <2>1. Tasks \notin Tasks \/ \E b : b \notin Tasks
    BY NoSetContainsEverything
  <2> QED
    BY <2>1
<1>3. Good(m, b, {}, K)
  BY <1>1 DEF Fine, Good, PartsIn
<1>4. Good(SessionTimedOut(m, s), b, {}, K)
  BY <1>3, SessionTimedOutGood
<1> QED
  BY <1>1, <1>4 DEF Fine, Good, PartsIn

\* A session was restarted, which counts as a time-out.
LEMMA SessionRestartsFine ==
  ASSUME Fine(d), NEW s, SessionRestarts(s)
  PROVE  Fine(d')
BY TimedOutFine DEF SessionRestarts

\* Nothing changes of tasks, queue and requests.
LEMMA UnchangedFine ==
  ASSUME NEW m, Fine(m), NEW n, Typed(n), n.task = m.task, n.queue = m.queue, n.sent = m.sent
  PROVE  Fine(n)
<1>1. \A t \in Tasks : n.task[t] = m.task[t] /\ SentOf(n, t) = SentOf(m, t)
  BY DEF SentOf
<1>2. QueueOK(n)
  BY DEF Fine, QueueOK, InQueue
<1> QED
  BY <1>1, <1>2 DEF Fine

\* The posted sessionTimedOut() of a slow answer.
LEMMA PostedTimeOutFine ==
  ASSUME Fine(d), PostedTimeOut
  PROVE  Fine(d')
<1> DEFINE q == Tail(d.posted)
           m == [d EXCEPT !.posted = q]
<1>1. Typed(d) /\ d.posted \in Seq(Positive) /\ d.posted # <<>>
  BY DEF Fine, Typed, Managers, PostedTimeOut
<1>2. q \in Seq(Positive)
  BY <1>1
<1>3. d' = SessionTimedOut(m, Head(d.posted))
  BY DEF PostedTimeOut
<1> HIDE DEF q
<1>4. /\ Typed(m) /\ m.task = d.task /\ m.queue = d.queue /\ m.sent = d.sent
  BY <1>1, <1>2, PostedSetIs
<1> HIDE DEF m
<1>5. Fine(m)
  BY <1>4, UnchangedFine
<1> QED
  BY <1>3, <1>5, TimedOutFine

\* killSessions() has sessions only to forget.
LEMMA KillSessionsFine ==
  ASSUME Fine(d), KillSessions
  PROVE  Fine(d')
<1> DEFINE q == [s \in DOMAIN d.sessions |-> NewSession]
           B == d.broken \cup (IF d.total # 0 \/ \E s \in DOMAIN d.sessions :
                                                   d.sessions[s].requested # 0
                               THEN {"killed in use"} ELSE {})
<1>1. /\ Typed(d) /\ d \in Managers /\ DOMAIN d.sessions = 1 .. Len(d.sessions)
      /\ Len(d.sessions) \in Positive /\ d.broken \in SUBSET Failures
  BY SessionsAre DEF Fine, Typed, Managers
<1>2. NewSession \in Sessions
  BY ConstantsAre DEF NewSession, Sessions
<1>3. q \in Seq(Sessions) /\ q # <<>>
  <2>1. q = [s \in 1 .. Len(d.sessions) |-> NewSession]
    BY <1>1
  <2>2. q \in [1 .. Len(d.sessions) -> Sessions]
    BY <1>2, <2>1
  <2>3. DOMAIN q = 1 .. Len(d.sessions)
    BY <2>1
  <2>4. 1 \in DOMAIN q
    BY <1>1, <2>3 DEF Positive
  <2> HIDE DEF q
  <2>5. q \in Seq(Sessions)
    BY <1>1, <2>2 DEF Positive
  <2> QED
    BY <2>4, <2>5
<1>4. B \in SUBSET Failures
  BY <1>1 DEF Failures
<1>5. d' = [d EXCEPT !.broken = B, !.kill = FALSE, !.sessions = q, !.timeouts = 0,
                     !.removes = 0, !.removeIndex = 1, !.removed = FALSE]
  BY DEF KillSessions
<1> HIDE DEF q, B
<1>6. Typed(d') /\ d'.task = d.task /\ d'.queue = d.queue /\ d'.sent = d.sent
  BY <1>1, <1>3, <1>4, <1>5 DEF Typed, Managers
<1> QED
  BY <1>6, UnchangedFine

\* resetGeneration() changes priorities only.
LEMMA ResetGenerationFine ==
  ASSUME Fine(d), ResetGeneration
  PROVE  Fine(d')
<1> DEFINE Places == [task : Tasks, priority : Int]
           zeros == { k \in DOMAIN d.queue : d.queue[k].priority = 0 }
           from == Min(zeros \cup {Len(d.queue) + 1})
           till == Min({ k \in from..Len(d.queue) : k \notin zeros }
                         \cup {Len(d.queue) + 1})
           B == d.broken \cup (IF till \in DOMAIN d.queue /\ d.queue[till].priority # -1
                               THEN {"generation"} ELSE {})
           q == [k \in DOMAIN d.queue |->
                   IF k \in from..(till - 1) THEN [d.queue[k] EXCEPT !.priority = -1] ELSE d.queue[k]]
<1>1. /\ Typed(d) /\ QueueOK(d) /\ d \in Managers /\ d.queue \in Seq(Places)
      /\ d.broken \in SUBSET Failures
  BY DEF Fine, Typed, Managers
<1>2. d' = [d EXCEPT !.broken = B, !.queue = q]
  BY Zenon DEF ResetGeneration
<1>3. B \in SUBSET Failures
  BY <1>1 DEF Failures
<1> HIDE DEF from, till
<1>4. /\ q \in Seq(Places) /\ DOMAIN q = DOMAIN d.queue
      /\ \A k \in DOMAIN q : q[k].task = d.queue[k].task
  <2>1. \A k \in DOMAIN d.queue : d.queue[k] \in Places
    BY <1>1, MembersAre
  <2>2. \A k \in DOMAIN d.queue :
          [d.queue[k] EXCEPT !.priority = -1] \in Places
          /\ [d.queue[k] EXCEPT !.priority = -1].task = d.queue[k].task
    BY <2>1
  <2>3. \A k \in DOMAIN d.queue : q[k] \in Places /\ q[k].task = d.queue[k].task
    BY <2>1, <2>2
  <2>4. DOMAIN q = DOMAIN d.queue /\ DOMAIN d.queue = 1 .. Len(d.queue) /\ Len(d.queue) \in Nat
    BY <1>1
  <2>5. q \in [1 .. Len(d.queue) -> Places]
    BY <2>3, <2>4
  <2>6. PICK N : N = Len(d.queue)
    OBVIOUS
  <2>7. N \in Nat /\ q \in [1 .. N -> Places]
    BY <2>4, <2>5, <2>6
  <2> HIDE DEF q, Places
  <2>8. q \in Seq(Places)
    BY <2>7
  <2> QED
    BY <2>3, <2>4, <2>8
<1> HIDE DEF q, B
<1>5. Typed(d') /\ d'.task = d.task /\ d'.queue = q /\ d'.sent = d.sent
  BY <1>1, <1>2, <1>3, <1>4 DEF Typed, Managers
<1>6. QueueOK(d')
  BY <1>1, <1>4, <1>5 DEF QueueOK, InQueue
<1>7. ASSUME NEW t \in Tasks
      PROVE  TaskOK(t, d'.task[t], SentOf(d', t), {}, {})
  <2>1. d'.task[t] = d.task[t] /\ SentOf(d', t) = SentOf(d, t)
    BY <1>5 DEF SentOf
  <2>2. TaskOK(t, d.task[t], SentOf(d, t), {}, {})
    BY DEF Fine
  <2> QED
    BY <2>1, <2>2
<1> QED
  BY <1>5, <1>6, <1>7 DEF Fine

-----------------------------------------------------------------------------
(* The theorems. *)

\* At the start no task is on and the queue is empty.
LEMMA Started ==
  Init => IInv
<1> SUFFICES ASSUME Init
             PROVE  IInv
  OBVIOUS
<1>1. NewSession \in Sessions
  BY ConstantsAre DEF NewSession, Sessions
<1>2. PICK one : one = <<NewSession>>
  OBVIOUS
<1>3. one \in Seq(Sessions) /\ one # <<>>
  BY <1>1, <1>2
<1>4. NoTask \in TaskStates
  <2>1. <<>> \in UNION { [D -> Positive] : D \in SUBSET Nat }
    <3>1. <<>> \in [{} -> Positive]
      OBVIOUS
    <3> QED
      BY <3>1
  <2> QED
    BY <2>1 DEF NoTask, TaskStates
<1>5. PICK tasks : tasks = [t \in Tasks |-> NoTask]
  OBVIOUS
<1>6. tasks \in [Tasks -> TaskStates]
  BY <1>4, <1>5
<1>7. d = [ sessions |-> one, total |-> 0, timeouts |-> 0,
            removes |-> 0, removeIndex |-> 1, removed |-> FALSE,
            kill |-> FALSE, queue |-> <<>>, sent |-> {}, posted |-> <<>>,
            idle |-> FALSE, broken |-> {}, task |-> tasks ]
  BY <1>2, <1>5 DEF Init
<1>8. /\ d.sessions = one /\ d.sent = {} /\ d.queue = <<>> /\ d.task = tasks
  BY <1>7
<1>9. d \in Managers
  BY <1>3, <1>6, <1>7 DEF Managers
<1>10. Typed(d)
  BY <1>3, <1>8, <1>9, FS_EmptySet DEF Typed
<1>11. QueueOK(d)
  BY <1>8 DEF QueueOK, InQueue
<1>12. ASSUME NEW t \in Tasks
       PROVE  TaskOK(t, d.task[t], SentOf(d, t), {}, {})
  <2>1. d.task[t] = NoTask /\ SentOf(d, t) = {}
    BY <1>5, <1>8 DEF SentOf
  <2>2. Offs({}) = {} /\ Out({}) = {} /\ Wanted(NoTask) = {} /\ DOMAIN NoTask.unchecked = {}
    BY DEF Offs, Out, Wanted, NoTask
  <2>3. FileOK(t, NoTask, {}, {})
    BY <2>2, TasksAre DEF FileOK, NoTask
  <2>4. StreamOK(t, NoTask, {}, {})
    BY <2>2 DEF StreamOK, NoTask
  <2>5. NeatOK(NoTask, {}, {}, {})
    <3>1. NoTask.wanted = {} /\ NoTask.waits = {} /\ NoTask.loaded = {}
      BY DEF NoTask
    <3> QED
      BY <2>2, <3>1 DEF NeatOK, Once
  <2> QED
    BY <2>1, <2>3, <2>4, <2>5 DEF TaskOK
<1>13. Fine(d)
  BY <1>10, <1>11, <1>12 DEF Fine
<1> QED
  BY <1>10, <1>13 DEF IInv, TypeOK, Init

\* Whatever comes back to a request.
LEMMA AnswerFine ==
  ASSUME Fine(d), NEW t \in Tasks, NEW o \in Offsets(t), Answer(t, o)
  PROVE  Fine(d')
<1>1. PICK r \in SentOf(d, t) :
        \/ PartCame(r) \/ CdnPartCame(r) \/ CdnPartWrong(r)
        \/ \E H \in {{}, Offsets(t)} : SwitchToCdn(r, H)
        \/ \E H \in {{}, {o}, Offsets(t)}, wrong \in 0..Parts[t] : HashesCame(r, H, wrong)
        \/ ReuploadDone(r, {o}) \/ ReuploadNeeded(r)
        \/ TokenRefused(r) \/ Refused(r) \/ ReferenceRefused(r)
  BY Zenon DEF Answer
<1>2. o \in Nat /\ {} \in SUBSET Nat /\ {o} \in SUBSET Nat /\ Offsets(t) \in SUBSET Nat
  BY TasksAre
<1>3. CASE PartCame(r)
  BY <1>3, PartCameFine
<1>4. CASE CdnPartCame(r)
  BY <1>4, CdnPartCameFine
<1>5. CASE CdnPartWrong(r)
  BY <1>5, CdnPartWrongFine
<1>6. CASE \E H \in {{}, Offsets(t)} : SwitchToCdn(r, H)
  <2>1. PICK H \in SUBSET Nat : SwitchToCdn(r, H)
    BY <1>2, <1>6
  <2> QED
    BY <2>1, SwitchToCdnFine
<1>7. CASE \E H \in {{}, {o}, Offsets(t)}, wrong \in 0..Parts[t] : HashesCame(r, H, wrong)
  <2>1. PICK H \in SUBSET Nat, wrong \in 0..Parts[t] : HashesCame(r, H, wrong)
    BY <1>2, <1>7
  <2> QED
    BY <2>1, HashesCameFine
<1>8. CASE ReuploadDone(r, {o})
  <2>1. PICK H \in SUBSET Nat : ReuploadDone(r, H)
    BY <1>2, <1>8
  <2> QED
    BY <2>1, ReuploadDoneFine
<1>9. CASE ReuploadNeeded(r)
  BY <1>9, ReuploadNeededFine
<1>10. CASE TokenRefused(r)
  BY <1>10, TokenRefusedFine
<1>11. CASE Refused(r)
  BY <1>11, RefusedFine
<1>12. CASE ReferenceRefused(r)
  BY <1>12, ReferenceRefusedFine
<1> QED
  BY <1>1, <1>3, <1>4, <1>5, <1>6, <1>7, <1>8, <1>9, <1>10, <1>11, <1>12

\* Whatever becomes of a file reference.
LEMMA ReferenceFine ==
  ASSUME Fine(d), NEW t \in Tasks, Reference(t)
  PROVE  Fine(d')
<1>1. PICK fresh \in BOOLEAN :
        (\E r \in SentOf(d, t) : ReferenceCame(r, fresh)) \/ LostReferenceCame(t, fresh)
  BY DEF Reference
<1> QED
  BY <1>1, ReferenceCameFine, LostReferenceCameFine

\* Whatever the player of a stream does.
LEMMA PlayerFine ==
  ASSUME Fine(d), NEW s \in Streams, Player(s)
  PROVE  Fine(d')
<1>1. CASE \E o \in Offsets(s) : CancelLoad(s, o)
  BY <1>1, CancelLoadFine
<1>2. CASE \E o \in Offsets(s), first \in BOOLEAN : Load(s, o, first)
  BY <1>2, LoadFine
<1> QED
  BY <1>1, <1>2, StopStreamingFine, LeaveFine, DestroyFine DEF Player

\* Each action counts at most one trouble and one wish of the user.
Counting ==
  /\ troubles' = troubles \/ troubles' = troubles + 1
  /\ byUser' = byUser \/ byUser' = byUser + 1

\* A step leaves the numbers of troubles and calls natural.
LEMMA Counts ==
  Next => Counting
<1> SUFFICES ASSUME Next
             PROVE  Counting
  OBVIOUS
<1> USE DEF Counting, Trouble, ByUser
<1>1. ASSUME NEW f \in Files, StartAgain(f)
      PROVE  Counting
  BY <1>1 DEF StartAgain
<1>2. ASSUME NEW f \in Files, Cancel(f)
      PROVE  Counting
  BY <1>2 DEF Cancel
<1>3. ASSUME NEW f \in Files, NEW have \in Offsets(f), Start(f, have)
      PROVE  Counting
  BY <1>3 DEF Start
<1>4. ASSUME NEW s \in Streams, Player(s)
      PROVE  Counting
  <2>1. CASE StopStreaming(s)
    BY <2>1 DEF StopStreaming
  <2>2. CASE Leave(s)
    BY <2>2 DEF Leave
  <2>3. CASE Destroy(s)
    BY <2>3 DEF Destroy
  <2>4. ASSUME NEW o \in Offsets(s), CancelLoad(s, o)
        PROVE  Counting
    BY <2>4 DEF CancelLoad
  <2>5. ASSUME NEW o \in Offsets(s), NEW first \in BOOLEAN, Load(s, o, first)
        PROVE  Counting
    BY <2>5 DEF Load
  <2> HIDE DEF Counting
  <2> QED
    BY <1>4, <2>1, <2>2, <2>3, <2>4, <2>5 DEF Player
<1>5. ASSUME NEW t \in Tasks, Reference(t)
      PROVE  Counting
  BY <1>5 DEF Reference, ReferenceCame, LostReferenceCame
<1>6. ASSUME NEW t \in Tasks, PostedMore(t)
      PROVE  Counting
  BY <1>6 DEF PostedMore
<1>7. ASSUME NEW t \in Tasks, NEW o \in Offsets(t), Answer(t, o)
      PROVE  Counting
  <2>1. PICK r \in SentOf(d, t) :
          \/ PartCame(r) \/ CdnPartCame(r) \/ CdnPartWrong(r)
          \/ \E H \in {{}, Offsets(t)} : SwitchToCdn(r, H)
          \/ \E H \in {{}, {o}, Offsets(t)}, wrong \in 0..Parts[t] : HashesCame(r, H, wrong)
          \/ ReuploadDone(r, {o}) \/ ReuploadNeeded(r)
          \/ TokenRefused(r) \/ Refused(r) \/ ReferenceRefused(r)
    BY <1>7, Zenon DEF Answer
  <2>2. CASE PartCame(r)
    BY <2>2 DEF PartCame, Done
  <2>3. CASE CdnPartCame(r)
    BY <2>3 DEF CdnPartCame, Done
  <2>4. ASSUME NEW H, SwitchToCdn(r, H)
        PROVE  Counting
    BY <2>4 DEF SwitchToCdn, Done
  <2>5. ASSUME NEW H, NEW wrong, HashesCame(r, H, wrong)
        PROVE  Counting
    BY <2>5 DEF HashesCame
  <2>6. CASE CdnPartWrong(r)
    BY <2>6 DEF CdnPartWrong
  <2>7. CASE ReuploadDone(r, {o})
    BY <2>7 DEF ReuploadDone
  <2>8. CASE ReuploadNeeded(r)
    BY <2>8 DEF ReuploadNeeded
  <2>9. CASE TokenRefused(r)
    BY <2>9 DEF TokenRefused
  <2>10. CASE Refused(r)
    BY <2>10 DEF Refused
  <2>11. CASE ReferenceRefused(r)
    BY <2>11 DEF ReferenceRefused
  <2> HIDE DEF Counting
  <2> QED
    BY <2>1, <2>2, <2>3, <2>4, <2>5, <2>6, <2>7, <2>8, <2>9, <2>10, <2>11
<1>8. ASSUME NEW s, SessionRestarts(s)
      PROVE  Counting
  BY <1>8 DEF SessionRestarts
<1>9. ASSUME PostedTimeOut \/ KillSessions \/ ResetGeneration
      PROVE  Counting
  BY <1>9 DEF PostedTimeOut, KillSessions, ResetGeneration
<1> HIDE DEF Counting
<1> QED
  BY <1>1, <1>2, <1>3, <1>4, <1>5, <1>6, <1>7, <1>8, <1>9 DEF Next

\* Each step keeps the invariant.
LEMMA NextKeeps ==
  IInv /\ [Next]_vars => IInv'
<1> SUFFICES ASSUME IInv, [Next]_vars
             PROVE  IInv'
  OBVIOUS
<1>1. Fine(d) /\ troubles \in Nat /\ byUser \in Nat
  BY DEF IInv, TypeOK
<1>2. CASE Next
  <2>1. ASSUME NEW f \in Files,
               StartAgain(f) \/ Cancel(f) \/ \E have \in Offsets(f) : Start(f, have)
        PROVE  Fine(d')
    BY <1>1, <2>1, StartAgainFine, CancelFine, StartFine
  <2>2. ASSUME NEW s \in Streams, Player(s)
        PROVE  Fine(d')
    BY <1>1, <2>2, PlayerFine
  <2>3. ASSUME NEW t \in Tasks, Reference(t) \/ PostedMore(t)
        PROVE  Fine(d')
    BY <1>1, <2>3, ReferenceFine, PostedMoreFine
  <2>4. ASSUME NEW t \in Tasks, NEW o \in Offsets(t), Answer(t, o)
        PROVE  Fine(d')
    BY <1>1, <2>4, AnswerFine
  <2>5. ASSUME NEW s, SessionRestarts(s)
        PROVE  Fine(d')
    BY <1>1, <2>5, SessionRestartsFine
  <2>6. ASSUME PostedTimeOut \/ KillSessions \/ ResetGeneration
        PROVE  Fine(d')
    BY <1>1, <2>6, PostedTimeOutFine, KillSessionsFine, ResetGenerationFine
  <2>7. Fine(d')
    BY <1>2, <2>1, <2>2, <2>3, <2>4, <2>5, <2>6 DEF Next
  <2>8. troubles' \in Nat /\ byUser' \in Nat
    BY <1>1, <1>2, Counts DEF Counting
  <2> QED
    BY <2>7, <2>8 DEF IInv, TypeOK, Fine
<1>3. CASE UNCHANGED vars
  <2>1. d' = d /\ troubles' = troubles /\ byUser' = byUser
    BY <1>3 DEF vars
  <2>2. Fine(d')
    BY <1>1, <2>1
  <2> QED
    BY <1>1, <2>1, <2>2 DEF IInv, TypeOK, Fine
<1> QED
  BY <1>2, <1>3

\* The invariant says what PartsKept says.
LEMMA KeepsParts ==
  IInv => PartsKept
<1> SUFFICES ASSUME IInv, NEW t \in Tasks, ~d.task[t].astray
             PROVE  LET x == d.task[t]
                        out == Asked(d, t)
                        kept == Unchecked(d, t)
                        parts == { r.offset : r \in { q \in SentOf(d, t) : q.kind # "hashes" } }
                        wanted == { w[2] : w \in x.wanted }
                    IN /\ parts \cap kept = {} /\ wanted \cap (parts \cup kept) = {}
                       /\ x.state = "on" =>
                            /\ x.loaded \cup parts \cup kept = 0..(x.next - 1)
                            /\ x.loaded \cap (parts \cup kept) = {}
                       /\ x.waits \subseteq wanted \cup out \cup kept
                       /\ x.state = "done" => x.loaded = Offsets(t)
  BY DEF PartsKept
<1> DEFINE x == d.task[t]
           S == SentOf(d, t)
<1>1. TaskOK(t, x, S, {}, {}) /\ ~x.astray
  BY DEF IInv, Fine
<1>2. /\ Asked(d, t) = Offs(S) /\ Unchecked(d, t) = DOMAIN x.unchecked
      /\ { r.offset : r \in { q \in SentOf(d, t) : q.kind # "hashes" } } = Out(S)
      /\ { w[2] : w \in x.wanted } = Wanted(x)
  BY DEF Asked, Offs, Out, Unchecked, Wanted
<1>3. Out(S) \subseteq Offs(S)
  BY DEF Out, Offs
<1> HIDE DEF x, S
<1>4. NeatOK(x, S, {}, {})
  BY <1>1 DEF TaskOK
<1>5. /\ Out(S) \cap DOMAIN x.unchecked = {}
      /\ Wanted(x) \cap (Out(S) \cup DOMAIN x.unchecked) = {}
      /\ x.loaded \cap (Out(S) \cup DOMAIN x.unchecked) = {}
      /\ x.waits \subseteq Wanted(x) \cup Offs(S) \cup DOMAIN x.unchecked
  BY <1>3, <1>4 DEF NeatOK
<1>6. t \in Files \/ t \in Streams
  BY TasksAre
<1>7. x.state = "on" => x.loaded \cup Out(S) \cup DOMAIN x.unchecked = 0 .. (x.next - 1)
  BY <1>1, <1>3, <1>6 DEF TaskOK, FileOK, StreamOK, Taken
<1>8. x.state = "done" => x.loaded = Offsets(t)
  BY <1>1, <1>6 DEF TaskOK, FileOK, StreamOK
<1> QED
  BY <1>2, <1>5, <1>7, <1>8 DEF x

\* Types: what the manager, its tasks and their requests are made of.
THEOREM TypeCorrect == Spec => []TypeOK
<1>1. IInv => TypeOK
  BY DEF IInv
<1> QED
  BY <1>1, Started, NextKeeps, PTL DEF Spec

\* The invariant that the next theorem rests on holds for all constants.
THEOREM InvariantHolds == Spec => []IInv
BY Started, NextKeeps, PTL DEF Spec

\* Each part of a file that was taken from the front is loaded, asked for or
\* waits for its hash, and one of these only, and no part that a player waits for
\* is forgotten, whatever is refused, cancelled, redirected or made again.
THEOREM PartsKeptHold == Spec => []PartsKept
BY InvariantHolds, KeepsParts, PTL

-----------------------------------------------------------------------------
(* Amounts. *)

\* What the amounts do not depend on is changed.
LEMMA SoundAs ==
  ASSUME NEW m, NEW b, Sound(m, b), NEW n, Typed(n), n.sent = m.sent, n.total = m.total,
         n.kill = m.kill, m.broken \subseteq n.broken, DOMAIN n.sessions = DOMAIN m.sessions,
         \A s \in DOMAIN m.sessions : n.sessions[s].requested = m.sessions[s].requested
  PROVE  Sound(n, b)
BY DEF Sound, Tally, Sums

\* The record of a task is changed.
LEMMA PutSound ==
  ASSUME NEW m, NEW b, Sound(m, b), NEW t \in Tasks, NEW y \in TaskStates
  PROVE  /\ Sound(Put(m, t, y), b) /\ Put(m, t, y).task[t] = y
         /\ Put(m, t, y).sent = m.sent /\ Framed(m, Put(m, t, y))
<1> DEFINE n == Put(m, t, y)
           f == [m.task EXCEPT ![t] = y]
<1>1. Typed(m) /\ m \in Managers /\ m.task \in [Tasks -> TaskStates]
  BY DEF Sound, Typed, Managers
<1>2. f \in [Tasks -> TaskStates] /\ f[t] = y
  BY <1>1
<1>3. n = [m EXCEPT !.task = f]
  BY DEF Put
<1> HIDE DEF f, n
<1>4. /\ n \in Managers /\ n.task = f /\ n.sent = m.sent /\ n.queue = m.queue
      /\ n.sessions = m.sessions /\ n.total = m.total /\ n.kill = m.kill
      /\ n.broken = m.broken
  BY <1>1, <1>2, <1>3 DEF Managers
<1>5. Typed(n)
  BY <1>1, <1>4 DEF Typed
<1>6. Sound(n, b)
  BY <1>4, <1>5, SoundAs
<1> QED
  BY <1>2, <1>4, <1>6 DEF Framed, n

\* One more request is counted by its session.
LEMMA CountMore ==
  ASSUME NEW S, IsFiniteSet(S), NEW q, q \notin S
  PROVE  /\ Cardinality(S \cup {q}) = Cardinality(S) + 1
         /\ \A s : Cardinality(CountedBy(S \cup {q}, s)) =
                     Cardinality(CountedBy(S, s)) + (IF q.session = s THEN 1 ELSE 0)
<1>1. Cardinality(S \cup {q}) = Cardinality(S) + 1
  BY FS_AddElement
<1>2. ASSUME NEW s
      PROVE  Cardinality(CountedBy(S \cup {q}, s)) =
               Cardinality(CountedBy(S, s)) + (IF q.session = s THEN 1 ELSE 0)
  <2> DEFINE T == CountedBy(S, s)
  <2>1. IsFiniteSet(T) /\ q \notin T /\ Cardinality(T) \in Nat
    BY CountOfRequests DEF CountedBy
  <2>2. CASE q.session = s
    <3>1. CountedBy(S \cup {q}, s) = T \cup {q}
      BY <2>2 DEF CountedBy
    <3> HIDE DEF T
    <3> QED
      BY <2>1, <2>2, <3>1, FS_AddElement DEF T
  <2>3. CASE q.session # s
    <3>1. CountedBy(S \cup {q}, s) = T
      BY <2>3 DEF CountedBy
    <3> HIDE DEF T
    <3> QED
      BY <2>1, <2>3, <3>1 DEF T
  <2> QED
    BY <2>2, <2>3
<1> QED
  BY <1>1, <1>2

\* Requests that are over are not counted any more.
LEMMA CountLess ==
  ASSUME NEW S, IsFiniteSet(S), NEW R \in SUBSET S
  PROVE  /\ IsFiniteSet(R) /\ Cardinality(S \ R) = Cardinality(S) - Cardinality(R)
         /\ \A s : Cardinality(CountedBy(S \ R, s)) =
                     Cardinality(CountedBy(S, s)) - Cardinality(CountedBy(R, s))
<1>0. \A T, Q : IsFiniteSet(T) /\ Q \subseteq T =>
        Cardinality(T \ Q) = Cardinality(T) - Cardinality(Q)
  <2> SUFFICES ASSUME NEW T, NEW Q, IsFiniteSet(T), Q \subseteq T
               PROVE  Cardinality(T \ Q) = Cardinality(T) - Cardinality(Q)
    OBVIOUS
  <2>1. T \cap Q = Q
    OBVIOUS
  <2> QED
    BY <2>1, FS_Difference
<1>1. IsFiniteSet(R)
  BY FS_Subset
<1>2. ASSUME NEW s
      PROVE  Cardinality(CountedBy(S \ R, s)) =
               Cardinality(CountedBy(S, s)) - Cardinality(CountedBy(R, s))
  <2>1. /\ CountedBy(S \ R, s) = CountedBy(S, s) \ CountedBy(R, s)
        /\ CountedBy(R, s) \subseteq CountedBy(S, s) /\ CountedBy(S, s) \subseteq S
    BY DEF CountedBy
  <2>2. IsFiniteSet(CountedBy(S, s))
    BY <2>1, FS_Subset
  <2> QED
    BY <1>0, <2>1, <2>2
<1> QED
  BY <1>0, <1>1, <1>2

\* What placeSentRequest() does unless one of its assertions fails.
LEMMA PlaceFields ==
  ASSUME NEW m, Typed(m), NEW r \in Requests, Place(m, r).broken = {}
  PROVE  /\ m.broken = {} /\ r.session \in DOMAIN m.sessions
         /\ r.offset \notin Asked(m, r.task)
         /\ DOMAIN Place(m, r).sessions = DOMAIN m.sessions
         /\ \A s \in DOMAIN m.sessions : Place(m, r).sessions[s].requested =
              m.sessions[s].requested + (IF r.session = s THEN 1 ELSE 0)
         /\ Place(m, r).total = m.total + 1 /\ Place(m, r).kill = FALSE
<1> DEFINE s == r.session
           v == AddRequested(m, s)
           c == IF r.offset \in Asked(m, r.task) THEN {"asked twice"} ELSE {}
           all == [m.sessions EXCEPT ![s].requested = @ + 1]
           n == Place(m, r)
           a == IF s \in DOMAIN m.sessions /\ r.kind \in {"part", "cdn"}
                THEN m.sessions[s].requested + 1 ELSE 0
           q == [r EXCEPT !.amount = a]
<1>1. m \in Managers /\ \A k \in DOMAIN m.sessions : m.sessions[k] \in Sessions
  BY SessionsAre DEF Typed
<1>2. n = [v EXCEPT !.broken = @ \cup c, !.sent = @ \cup {q}]
  BY DEF Place
<1>3. DOMAIN v = DOMAIN m
  BY DEF AddRequested
<1> HIDE DEF n, q, a
<1>4. /\ n.broken = v.broken \cup c /\ n.sessions = v.sessions /\ n.total = v.total
      /\ n.kill = v.kill
  <2>1. DOMAIN m = {"sessions", "total", "timeouts", "removes", "removeIndex", "removed",
                    "kill", "queue", "sent", "posted", "idle", "broken", "task"}
    BY <1>1 DEF Managers
  <2> HIDE DEF v, c
  <2> QED
    BY <1>2, <1>3, <2>1
<1>5. s \in DOMAIN m.sessions
  <2> SUFFICES ASSUME s \notin DOMAIN m.sessions
               PROVE  FALSE
    OBVIOUS
  <2>1. v.broken = m.broken \cup {"no such session"}
    BY <1>1 DEF AddRequested, Managers
  <2> QED
    BY <1>4, <2>1 DEF n
<1>6. v = [m EXCEPT !.sessions = all, !.total = @ + 1, !.kill = FALSE]
  BY <1>1, <1>5 DEF AddRequested, Managers
<1>7. /\ v.broken = m.broken /\ v.sessions = all /\ v.total = m.total + 1 /\ v.kill = FALSE
  <2> HIDE DEF all, v
  <2> QED
    BY <1>1, <1>6 DEF Managers
<1> HIDE DEF v
<1>8. /\ DOMAIN all = DOMAIN m.sessions
      /\ \A k \in DOMAIN m.sessions : all[k].requested =
           m.sessions[k].requested + (IF s = k THEN 1 ELSE 0)
  BY <1>1, <1>5 DEF Sessions
<1> HIDE DEF all
<1>9. m.broken = {} /\ c = {}
  BY <1>4, <1>7 DEF n
<1>10. r.offset \notin Asked(m, r.task)
  BY <1>9
<1> QED
  BY <1>4, <1>5, <1>7, <1>8, <1>9, <1>10 DEF n

\* T counts one request more than S, for the session of q.
CountsMore(S, q, T) ==
  /\ Cardinality(T) = Cardinality(S) + 1
  /\ \A s : Cardinality(CountedBy(T, s)) =
              Cardinality(CountedBy(S, s)) + (IF q.session = s THEN 1 ELSE 0)

\* A set with one request more counts it for its session.
LEMMA CountAdded ==
  ASSUME NEW S, IsFiniteSet(S), NEW q, q \notin S, NEW T, T = S \cup {q}
  PROVE  CountsMore(S, q, T)
<1>1. CountsMore(S, q, S \cup {q})
  BY CountMore DEF CountsMore
<1> QED
  BY <1>1

\* A request is placed.
LEMMA PlaceSound ==
  ASSUME NEW m, NEW b, Sound(m, b), NEW r \in Requests
  PROVE  Sound(Place(m, r), b)
<1> DEFINE n == Place(m, r)
<1>1. Typed(m) /\ Typed(n)
  BY PlaceIs DEF Sound
<1>2. PICK a \in Int : n.sent = m.sent \cup {[r EXCEPT !.amount = a]}
  BY <1>1, PlaceIs
<1> DEFINE q == [r EXCEPT !.amount = a]
<1>3. q.session = r.session /\ q.offset = r.offset /\ q.task = r.task
  BY DEF Requests, AnyRequests
<1> HIDE DEF q
<1>4. ASSUME n.broken = {}
      PROVE  Sums(n, b)
  <2>1. /\ m.broken = {} /\ r.session \in DOMAIN m.sessions
        /\ r.offset \notin Asked(m, r.task)
        /\ DOMAIN n.sessions = DOMAIN m.sessions
        /\ \A s \in DOMAIN m.sessions : n.sessions[s].requested =
             m.sessions[s].requested + (IF r.session = s THEN 1 ELSE 0)
        /\ n.total = m.total + 1 /\ n.kill = FALSE
    BY <1>1, <1>4, PlaceFields
  <2>2. Sums(m, b)
    BY <2>1 DEF Sound, Tally
  <2>3. \A p \in m.sent : ~(p.task = q.task /\ p.offset = q.offset)
    BY <1>3, <2>1 DEF Asked, SentOf
  <2>4. q \notin m.sent
    BY <2>3
  <2>5. IsFiniteSet(m.sent) /\ Cardinality(m.sent) \in Nat
    BY <1>1, FS_CardinalityType DEF Typed
  <2>6. /\ Cardinality(n.sent) = Cardinality(m.sent) + 1
        /\ \A s : Cardinality(CountedBy(n.sent, s)) =
                    Cardinality(CountedBy(m.sent, s)) + (IF q.session = s THEN 1 ELSE 0)
    <3>1. n.sent = m.sent \cup {q}
      BY <1>2 DEF q
    <3>2. CountsMore(m.sent, q, n.sent)
      <4> HIDE DEF n
      <4> QED
        BY <2>4, <2>5, <3>1, CountAdded
    <3> QED
      BY <3>2 DEF CountsMore
  <2>7. \A s : Cardinality(CountedBy(m.sent, s)) \in Nat
    BY <2>5, CountOfRequests DEF CountedBy
  <2>8. \A s \in DOMAIN n.sessions : n.sessions[s].requested =
          Cardinality(CountedBy(n.sent, s)) + (IF s = b THEN Much ELSE 0)
    <3> SUFFICES ASSUME NEW s \in DOMAIN m.sessions
                 PROVE  n.sessions[s].requested =
                          Cardinality(CountedBy(n.sent, s)) + (IF s = b THEN Much ELSE 0)
      BY <2>1
    <3>1. m.sessions[s].requested =
            Cardinality(CountedBy(m.sent, s)) + (IF s = b THEN Much ELSE 0)
      BY <2>2 DEF Sums
    <3>2. PICK i, j, k, e \in Int :
            /\ i = Cardinality(CountedBy(m.sent, s)) /\ j = Cardinality(CountedBy(n.sent, s))
            /\ k = (IF r.session = s THEN 1 ELSE 0) /\ e = (IF s = b THEN Much ELSE 0)
      BY <2>6, <2>7, ConstantsAre
    <3>3. j = i + k /\ m.sessions[s].requested = i + e
          /\ n.sessions[s].requested = m.sessions[s].requested + k
      BY <1>3, <2>1, <2>6, <3>1, <3>2
    <3> QED
      BY <3>2, <3>3
  <2>9. \A p \in n.sent : p.session \in DOMAIN n.sessions
    BY <1>2, <1>3, <2>1, <2>2 DEF Sums, q
  <2>10. \A p, o \in n.sent : p.task = o.task /\ p.offset = o.offset => p = o
    <3>1. n.sent = m.sent \cup {q}
      BY <1>2 DEF q
    <3> QED
      BY <2>2, <2>3, <3>1 DEF Sums
  <2> QED
    BY <2>1, <2>2, <2>6, <2>8, <2>9, <2>10 DEF Sums
<1> QED
  BY <1>1, <1>4 DEF Sound, Tally

\* What finishSentRequest() does unless its assertion fails.
LEMMA FinishFields ==
  ASSUME NEW m, Typed(m), NEW R \in SUBSET m.sent,
         \A r \in m.sent : r.session \in DOMAIN m.sessions
  PROVE  /\ Finish(m, R).broken = m.broken
         /\ DOMAIN Finish(m, R).sessions = DOMAIN m.sessions
         /\ \A s \in DOMAIN m.sessions : Finish(m, R).sessions[s].requested =
              m.sessions[s].requested - Cardinality(CountedBy(R, s))
         /\ Finish(m, R).total = m.total - Cardinality(R)
         /\ Finish(m, R).kill =>
              m.kill \/ \A s \in DOMAIN m.sessions : Finish(m, R).sessions[s].requested <= 0
<1> DEFINE c(s) == Cardinality({ r \in R : r.session = s })
           known == { r \in R : r.session \in DOMAIN m.sessions }
           left == [s \in DOMAIN m.sessions |-> [m.sessions[s] EXCEPT !.requested = @ - c(s)]]
           kill == m.kill \/ (known # {} /\ \A s \in DOMAIN left : left[s].requested <= 0)
           more == IF known = R THEN {} ELSE {"no such session"}
           n == Finish(m, R)
<1>1. m \in Managers /\ \A k \in DOMAIN m.sessions : m.sessions[k] \in Sessions
  BY SessionsAre DEF Typed
<1>2. known = R /\ more = {}
  OBVIOUS
<1>3. n = [[m EXCEPT !.sent = @ \ R] EXCEPT
             !.sessions = left, !.total = @ - Cardinality(known), !.kill = kill,
             !.broken = @ \cup more]
  BY <1>1 DEF Finish, RemoveRequested, Managers
<1>4. /\ DOMAIN left = DOMAIN m.sessions
      /\ \A s \in DOMAIN m.sessions : left[s].requested =
           m.sessions[s].requested - Cardinality(CountedBy(R, s))
  <2>1. \A s : c(s) = Cardinality(CountedBy(R, s))
    BY DEF CountedBy
  <2> HIDE DEF c
  <2> QED
    BY <1>1, <2>1 DEF Sessions
<1>5. kill => m.kill \/ \A s \in DOMAIN m.sessions : left[s].requested <= 0
  OBVIOUS
<1> HIDE DEF left, known, kill, more, n
<1>6. /\ n.sessions = left /\ n.total = m.total - Cardinality(R) /\ n.kill = kill
      /\ n.broken = m.broken
  BY <1>1, <1>2, <1>3 DEF Managers
<1> QED
  BY <1>4, <1>5, <1>6 DEF n

\* Requests end; the sessions are to be killed with the last of them.
LEMMA FinishSound ==
  ASSUME NEW m, NEW b, Sound(m, b), NEW R \in SUBSET m.sent
  PROVE  /\ Sound(Finish(m, R), b) /\ Finish(m, R).task = m.task
         /\ Framed(m, Finish(m, R)) /\ Finish(m, R).sent = m.sent \ R
<1> DEFINE n == Finish(m, R)
<1>1. Typed(m) /\ IsFiniteSet(m.sent) /\ m.sent \in SUBSET Requests
  BY DEF Sound, Typed, Managers
<1>2. R \in SUBSET Requests /\ IsFiniteSet(R)
  BY <1>1, FS_Subset
<1>3. Typed(n) /\ n.task = m.task /\ Framed(m, n) /\ n.sent = m.sent \ R
  BY <1>1, <1>2, FinishIs
<1>4. ASSUME m.broken = {}
      PROVE  Tally(n, b)
  <2>1. Sums(m, b)
    BY <1>4 DEF Sound, Tally
  <2>2. \A r \in m.sent : r.session \in DOMAIN m.sessions
    BY <2>1 DEF Sums
  <2>3. /\ DOMAIN n.sessions = DOMAIN m.sessions
        /\ \A s \in DOMAIN m.sessions : n.sessions[s].requested =
             m.sessions[s].requested - Cardinality(CountedBy(R, s))
        /\ n.total = m.total - Cardinality(R)
        /\ n.kill => m.kill \/ \A s \in DOMAIN m.sessions : n.sessions[s].requested <= 0
    BY <1>1, <2>2, FinishFields
  <2> HIDE DEF n
  <2>4. /\ Cardinality(n.sent) = Cardinality(m.sent) - Cardinality(R)
        /\ \A s : Cardinality(CountedBy(n.sent, s)) =
                    Cardinality(CountedBy(m.sent, s)) - Cardinality(CountedBy(R, s))
    BY <1>1, <1>3, CountLess
  <2>5. /\ \A s : Cardinality(CountedBy(m.sent, s)) \in Nat
        /\ \A s : Cardinality(CountedBy(R, s)) \in Nat
        /\ \A s : Cardinality(CountedBy(n.sent, s)) \in Nat
        /\ \A s : IsFiniteSet(CountedBy(n.sent, s))
    <3>1. /\ \A s : CountedBy(m.sent, s) \subseteq m.sent
          /\ \A s : CountedBy(R, s) \subseteq m.sent
          /\ \A s : CountedBy(n.sent, s) \subseteq m.sent
      BY <1>3 DEF CountedBy
    <3> QED
      BY <1>1, <3>1, CountOfRequests
  <2>6. \A s \in DOMAIN n.sessions : n.sessions[s].requested =
          Cardinality(CountedBy(n.sent, s)) + (IF s = b THEN Much ELSE 0)
    <3> SUFFICES ASSUME NEW s \in DOMAIN m.sessions
                 PROVE  n.sessions[s].requested =
                          Cardinality(CountedBy(n.sent, s)) + (IF s = b THEN Much ELSE 0)
      BY <2>3
    <3>1. PICK i, j, k, e \in Int :
            /\ i = Cardinality(CountedBy(m.sent, s)) /\ j = Cardinality(CountedBy(n.sent, s))
            /\ k = Cardinality(CountedBy(R, s)) /\ e = (IF s = b THEN Much ELSE 0)
      BY <2>5, ConstantsAre
    <3>2. j = i - k /\ m.sessions[s].requested = i + e
          /\ n.sessions[s].requested = m.sessions[s].requested - k
      BY <2>1, <2>3, <2>4, <3>1 DEF Sums
    <3> QED
      BY <3>1, <3>2
  <2>7. ASSUME n.kill
        PROVE  n.sent = {}
    <3>1. CASE m.kill
      BY <1>3, <2>1, <3>1 DEF Sums
    <3>2. CASE \A s \in DOMAIN m.sessions : n.sessions[s].requested <= 0
      <4> SUFFICES ASSUME NEW r \in n.sent
                   PROVE  FALSE
        OBVIOUS
      <4> DEFINE s == r.session
      <4>1. s \in DOMAIN m.sessions
        BY <1>3, <2>2
      <4>2. PICK j, e \in Nat : /\ j = Cardinality(CountedBy(n.sent, s))
                                /\ e = (IF s = b THEN Much ELSE 0)
        BY <2>5, ConstantsAre
      <4>3. n.sessions[s].requested = j + e /\ n.sessions[s].requested <= 0
        BY <2>3, <2>6, <3>2, <4>1, <4>2
      <4>4. Cardinality(CountedBy(n.sent, s)) = 0
        BY <4>2, <4>3
      <4>5. CountedBy(n.sent, s) = {}
        BY <2>5, <4>4, FS_EmptySet
      <4> QED
        BY <4>5 DEF CountedBy
    <3> QED
      BY <2>3, <2>7, <3>1, <3>2
  <2>8. /\ \A r \in n.sent : r.session \in DOMAIN n.sessions
        /\ \A q, r \in n.sent : q.task = r.task /\ q.offset = r.offset => q = r
    BY <1>3, <2>1, <2>3 DEF Sums
  <2>9. n.total = Cardinality(n.sent)
    BY <2>1, <2>3, <2>4 DEF Sums
  <2>10. Sums(n, b)
    BY <2>6, <2>7, <2>8, <2>9 DEF Sums
  <2> QED
    BY <2>10 DEF Tally
<1>5. m.broken # {} => n.broken # {}
  <2>1. DOMAIN m = {"sessions", "total", "timeouts", "removes", "removeIndex", "removed",
                    "kill", "queue", "sent", "posted", "idle", "broken", "task"}
    BY <1>1 DEF Typed, Managers
  <2>2. m.broken \subseteq n.broken
    BY <2>1 DEF Finish, RemoveRequested
  <2> QED
    BY <2>2
<1>6. Tally(n, b)
  BY <1>4, <1>5 DEF Tally
<1> HIDE DEF n
<1> QED
  BY <1>3, <1>6 DEF Sound, n

\* A part is asked for.
LEMMA MakeRequestSound ==
  ASSUME NEW m, NEW b, Sound(m, b), NEW t \in Tasks, NEW o \in Nat, NEW s \in Positive
  PROVE  /\ Sound(MakeRequest(m, t, o, s), b) /\ Framed(m, MakeRequest(m, t, o, s))
         /\ m.sent \subseteq MakeRequest(m, t, o, s).sent
         /\ MakeRequest(m, t, o, s).task = m.task
<1> DEFINE r == Request(t, o, IF m.task[t].cdn THEN "cdn" ELSE "part", s)
<1>1. r \in Requests
  BY DEF Request, Requests, AnyRequests
<1>2. MakeRequest(m, t, o, s) = Place(m, r)
  BY DEF MakeRequest
<1> HIDE DEF r
<1>3. Typed(m)
  BY DEF Sound
<1>4. /\ Framed(m, Place(m, r)) /\ Place(m, r).task = m.task
      /\ m.sent \subseteq Place(m, r).sent
  BY <1>1, <1>3, PlaceIs
<1> QED
  BY <1>1, <1>2, <1>4, PlaceSound

\* The next part of a task is asked for.
LEMMA LoadPartSound ==
  ASSUME NEW m, NEW b, Sound(m, b), NEW t \in Tasks, ReadyToRequest(m, t), NEW s \in Positive
  PROVE  Sound(LoadPart(m, t, s), b)
<1> DEFINE x == m.task[t]
<1>1. Typed(m) /\ x \in TaskStates
  <2>1. Typed(m)
    BY DEF Sound
  <2> QED
    BY <2>1, SentOfIs
<1>2. CASE t \in Files
  <2> DEFINE y == [x EXCEPT !.next = @ + 1]
             n == [m EXCEPT !.task[t] = y]
  <2>1. x.next \in Nat /\ y \in TaskStates
    BY <1>1 DEF TaskStates
  <2>2. LoadPart(m, t, s) = MakeRequest(n, t, x.next, s)
    BY <1>2 DEF LoadPart
  <2>3. n = Put(m, t, y)
    BY DEF Put
  <2> HIDE DEF x, y, n
  <2>4. Sound(n, b)
    BY <2>1, <2>3, PutSound
  <2> QED
    BY <2>1, <2>2, <2>4, MakeRequestSound
<1>3. CASE t \notin Files
  <2> DEFINE w == NextWanted(m, t)
             y == [x EXCEPT !.wanted = @ \ {w}]
             n == [m EXCEPT !.task[t] = y]
  <2>1. x.wanted \in SUBSET ({ l \in Int : l <= 0 } \X Nat) /\ x.wanted # {}
    BY <1>1, <1>3 DEF ReadyToRequest, TaskStates
  <2>2. w \in x.wanted
    <3> HIDE DEF x
    <3>1. w = CHOOSE v \in x.wanted : \A u \in x.wanted : v[1] > u[1] \/ (v[1] = u[1] /\ v[2] <= u[2])
      BY DEF NextWanted, x
    <3> HIDE DEF w
    <3> QED
      BY <2>1, <3>1, NextWantedIs
  <2>3. w[2] \in Nat
    BY <2>1, <2>2
  <2>4. LoadPart(m, t, s) = MakeRequest(n, t, w[2], s)
    BY <1>3 DEF LoadPart
  <2> HIDE DEF w
  <2>5. y \in TaskStates
    BY <1>1 DEF TaskStates
  <2>6. n = Put(m, t, y)
    BY DEF Put
  <2> HIDE DEF y, x, n
  <2>7. Sound(n, b)
    BY <2>5, <2>6, PutSound
  <2> QED
    BY <2>3, <2>4, <2>7, MakeRequestSound
<1> QED
  BY <1>2, <1>3

\* A round of the loop.
LEMMA SendNextSound ==
  ASSUME NEW m, NEW b, Sound(m, b)
  PROVE  Sound(SendNext(m), b)
<1>1. CASE m.queue # <<>> /\ CanSend(m)
  <2> DEFINE k == Min(NextPlaces(m))
             t == m.queue[k].task
  <2>1. Typed(m)
    BY DEF Sound
  <2>2. m.queue \in Seq([task : Tasks, priority : Int])
    BY <2>1 DEF Typed, Managers
  <2>3. NextPlaces(m) \subseteq DOMAIN m.queue /\ NextPlaces(m) # {}
    BY <1>1 DEF NextPlaces, CanSend
  <2>4. NextPlaces(m) \in SUBSET Nat
    BY <2>2, <2>3
  <2>5. k \in NextPlaces(m)
    BY <2>3, <2>4, MinIs
  <2> HIDE DEF k
  <2>6. k \in DOMAIN m.queue /\ ReadyToRequest(m, t)
    BY <2>3, <2>5 DEF NextPlaces
  <2>7. t \in Tasks
    <3>1. m.queue[k] \in [task : Tasks, priority : Int]
      BY <2>2, <2>6, MembersAre
    <3> QED
      BY <3>1
  <2>8. BestSession(m) \in Positive
    BY <1>1, <2>1, BestSessionIs DEF CanSend
  <2>9. SendNext(m) = LoadPart(m, t, BestSession(m))
    BY <1>1 DEF SendNext, k
  <2> HIDE DEF t
  <2> QED
    BY <2>6, <2>7, <2>8, <2>9, LoadPartSound
<1>2. CASE ~(m.queue # <<>> /\ CanSend(m))
  BY <1>2 DEF SendNext
<1> QED
  BY <1>1, <1>2

\* The mark of the loop is set or cleared.
LEMMA IdleSound ==
  ASSUME NEW m, NEW b, Sound(m, b), NEW i \in BOOLEAN
  PROVE  /\ Sound([m EXCEPT !.idle = i], b) /\ [m EXCEPT !.idle = i].sent = m.sent
         /\ [m EXCEPT !.idle = i].task = m.task /\ Framed(m, [m EXCEPT !.idle = i])
<1> DEFINE n == [m EXCEPT !.idle = i]
<1>1. m \in Managers /\ m.sessions # <<>> /\ IsFiniteSet(m.sent)
  BY DEF Sound, Typed
<1>2. /\ n \in Managers /\ n.sent = m.sent /\ n.queue = m.queue
      /\ n.sessions = m.sessions /\ n.total = m.total /\ n.kill = m.kill
      /\ n.broken = m.broken /\ n.task = m.task
  BY <1>1 DEF Managers
<1> HIDE DEF n
<1>3. Typed(n)
  BY <1>1, <1>2 DEF Typed
<1>4. Sound(n, b)
  BY <1>2, <1>3, SoundAs
<1> QED
  BY <1>2, <1>4 DEF n, Framed

\* checkSendNext().
LEMMA CheckSendNextSound ==
  ASSUME NEW m, NEW b, Sound(m, b)
  PROVE  Sound(CheckSendNext(m), b)
<1> DEFINE P == { v \in Managers : Sound(v, b) }
<1>1. m \in P
  BY DEF Sound, Typed
<1>2. \A v \in P : SendNext(v) \in P
  BY SendNextSound DEF Sound, Typed
<1>3. P \in SUBSET Managers
  OBVIOUS
<1>4. \A v \in P : Sound(v, b)
  OBVIOUS
<1> HIDE DEF P
<1>5. PICK v \in P : CheckSendNext(m) = [v EXCEPT !.idle = FALSE]
  BY <1>1, <1>2, <1>3, CheckSendNextLoop
<1> QED
  BY <1>4, <1>5, IdleSound

\* The queue is another one.
LEMMA QueueSound ==
  ASSUME NEW m, NEW b, Sound(m, b), NEW q \in Seq([task : Tasks, priority : Int])
  PROVE  /\ Sound([m EXCEPT !.queue = q], b) /\ [m EXCEPT !.queue = q].queue = q
         /\ [m EXCEPT !.queue = q].task = m.task /\ [m EXCEPT !.queue = q].sent = m.sent
<1> DEFINE n == [m EXCEPT !.queue = q]
<1>1. Typed(m) /\ m \in Managers
  BY DEF Sound, Typed
<1>2. Typed(n) /\ n.queue = q /\ n.task = m.task /\ n.sent = m.sent
  BY <1>1, QueueSetIs
<1>3. /\ n.sessions = m.sessions /\ n.total = m.total /\ n.kill = m.kill
      /\ n.broken = m.broken
  BY <1>1 DEF Managers
<1> HIDE DEF n
<1>4. Sound(n, b)
  BY <1>2, <1>3, SoundAs
<1> QED
  BY <1>2, <1>4 DEF n

\* Some number of a bounded set is the greatest.
LEMMA GreatestIs ==
  ASSUME NEW N \in Nat, NEW S \in SUBSET (0 .. N), S # {}
  PROVE  Max(S) \in S
<1> DEFINE U == { n \in Nat : \A k \in S : k <= n }
<1>1. N \in U /\ U \in SUBSET Nat
  OBVIOUS
<1>2. PICK u \in U : \A n \in U : u <= n
  <2> HIDE DEF U
  <2> QED
    BY <1>1, LeastExists
<1>3. u \in S
  <2> SUFFICES ASSUME u \notin S
               PROVE  FALSE
    OBVIOUS
  <2>1. PICK k \in S : TRUE
    OBVIOUS
  <2>2. k \in Nat /\ u \in Nat /\ k <= u /\ k # u
    BY <2>1
  <2>3. u - 1 \in Nat
    BY <2>2
  <2>4. \A j \in S : j <= u - 1
    <3> SUFFICES ASSUME NEW j \in S
                 PROVE  j <= u - 1
      OBVIOUS
    <3>1. j \in Nat /\ j <= u /\ j # u
      OBVIOUS
    <3> QED
      BY <2>2, <3>1
  <2>5. u - 1 \in U
    BY <2>3, <2>4
  <2>6. u <= u - 1
    BY <1>2, <2>5
  <2> QED
    BY <2>2, <2>6
<1>4. \E x \in S : \A y \in S : x >= y
  BY <1>3
<1>5. Max(S) = CHOOSE x \in S : \A y \in S : x >= y
  BY DEF Max
<1> QED
  BY <1>4, <1>5

\* A task has a place in the queue, or none.
LEMMA SomePlace ==
  ASSUME NEW m, Typed(m), NEW t
  PROVE  PlaceInQueue(m, t) \in {0} \cup DOMAIN m.queue
<1> DEFINE S == {0} \cup { k \in DOMAIN m.queue : m.queue[k].task = t }
<1>1. m.queue \in Seq([task : Tasks, priority : Int])
  BY DEF Typed, Managers
<1>2. DOMAIN m.queue = 1 .. Len(m.queue) /\ Len(m.queue) \in Nat
  BY <1>1
<1>3. S \in SUBSET (0 .. Len(m.queue)) /\ S # {} /\ S \subseteq {0} \cup DOMAIN m.queue
  BY <1>2
<1>4. PlaceInQueue(m, t) = Max(S)
  BY DEF PlaceInQueue
<1> HIDE DEF S
<1> QED
  BY <1>2, <1>3, <1>4, GreatestIs

\* Queue::remove().
LEMMA UnqueueSound ==
  ASSUME NEW m, NEW b, Sound(m, b), NEW t
  PROVE  /\ Sound(Unqueue(m, t), b)
         /\ Unqueue(m, t).task = m.task /\ Unqueue(m, t).sent = m.sent
         /\ Len(Unqueue(m, t).queue) =
              IF PlaceInQueue(m, t) = 0 THEN Len(m.queue) ELSE Len(m.queue) - 1
<1> DEFINE k == PlaceInQueue(m, t)
<1>1. Typed(m) /\ m.queue \in Seq([task : Tasks, priority : Int])
  BY DEF Sound, Typed, Managers
<1>2. k \in {0} \cup DOMAIN m.queue
  BY <1>1, SomePlace
<1>3. Unqueue(m, t) = IF k = 0 THEN m ELSE [m EXCEPT !.queue = RemoveAt(m.queue, k)]
  BY <1>1 DEF Unqueue
<1> HIDE DEF k
<1>4. CASE k = 0
  BY <1>3, <1>4 DEF k
<1>5. CASE k # 0
  <2> DEFINE q == RemoveAt(m.queue, k)
  <2>1. PICK T : T = [task : Tasks, priority : Int]
    OBVIOUS
  <2>2. m.queue \in Seq(T) /\ k \in DOMAIN m.queue
    BY <1>1, <1>2, <1>5, <2>1
  <2>3. q \in Seq(T) /\ Len(q) = Len(m.queue) - 1
    BY <2>2, RemoveAtIs
  <2>4. q \in Seq([task : Tasks, priority : Int])
    BY <2>1, <2>3
  <2> HIDE DEF q
  <2>5. /\ Sound([m EXCEPT !.queue = q], b) /\ [m EXCEPT !.queue = q].queue = q
        /\ [m EXCEPT !.queue = q].task = m.task /\ [m EXCEPT !.queue = q].sent = m.sent
    BY <2>4, QueueSound
  <2> QED
    BY <1>3, <1>5, <2>3, <2>5 DEF k, q
<1> QED
  BY <1>4, <1>5

\* remove().
LEMMA DequeueSound ==
  ASSUME NEW m, NEW b, Sound(m, b), NEW t
  PROVE  Sound(Dequeue(m, t), b)
BY UnqueueSound, CheckSendNextSound DEF Dequeue

\* A task comes into the queue.
LEMMA EnqueueSound ==
  ASSUME NEW m, NEW b, Sound(m, b), NEW t \in Tasks, NEW p \in Int
  PROVE  Sound(Enqueue(m, t, p), b)
<1> DEFINE from == PlaceInQueue(m, t)
           to == Min({ k \in DOMAIN m.queue : m.queue[k].priority <= p } \cup {Len(m.queue) + 1})
           at == IF from # 0 /\ to > from THEN to - 1 ELSE to
           u == Unqueue(m, t)
           e == [task |-> t, priority |-> p]
           q == InsertAt(u.queue, at, e)
           n == [u EXCEPT !.queue = q]
<1>1. Typed(m) /\ m.queue \in Seq([task : Tasks, priority : Int])
  BY DEF Sound, Typed, Managers
<1>2. DOMAIN m.queue = 1 .. Len(m.queue) /\ Len(m.queue) \in Nat
  BY <1>1
<1>3. to \in 1 .. Len(m.queue) + 1
  <2> DEFINE S == { k \in DOMAIN m.queue : m.queue[k].priority <= p } \cup {Len(m.queue) + 1}
  <2>1. S \in SUBSET Nat /\ S # {} /\ S \subseteq 1 .. Len(m.queue) + 1
    BY <1>2
  <2>2. to = Min(S)
    OBVIOUS
  <2> HIDE DEF S, to
  <2> QED
    BY <2>1, <2>2, MinIs
<1>4. /\ Sound(u, b)
      /\ Len(u.queue) = IF from = 0 THEN Len(m.queue) ELSE Len(m.queue) - 1
  BY UnqueueSound
<1>5. u.queue \in Seq([task : Tasks, priority : Int])
  <2> HIDE DEF u
  <2> QED
    BY <1>4 DEF Sound, Typed, Managers
<1>6. at \in 1 .. Len(u.queue) + 1
  <2>1. from \in {0} \cup 1 .. Len(m.queue)
    BY <1>1, <1>2, SomePlace
  <2> HIDE DEF from, to, u
  <2> QED
    BY <1>2, <1>3, <1>4, <2>1
<1>7. Enqueue(m, t, p) = CheckSendNext(n)
  BY DEF Enqueue
<1> HIDE DEF at, u
<1>8. e \in [task : Tasks, priority : Int]
  OBVIOUS
<1> HIDE DEF e
<1>9. q \in Seq([task : Tasks, priority : Int])
  <2>1. PICK T : T = [task : Tasks, priority : Int]
    OBVIOUS
  <2>2. u.queue \in Seq(T) /\ e \in T
    BY <1>5, <1>8, <2>1
  <2>3. q \in Seq(T)
    BY <1>6, <2>2, InsertAtIs
  <2> QED
    BY <2>1, <2>3
<1> HIDE DEF q
<1>10. Sound(n, b)
  BY <1>4, <1>9, QueueSound
<1> HIDE DEF n
<1> QED
  BY <1>7, <1>10, CheckSendNextSound

\* requestMoreCdnFileHashes().
LEMMA RequestMoreSound ==
  ASSUME NEW m, NEW b, Sound(m, b), NEW t \in Tasks
  PROVE  Sound(RequestMore(m, t), b)
<1>1. CASE Unchecked(m, t) = {} \/ \E r \in SentOf(m, t) : r.kind = "hashes"
  BY <1>1 DEF RequestMore
<1>2. CASE ~(Unchecked(m, t) = {} \/ \E r \in SentOf(m, t) : r.kind = "hashes")
  <2> DEFINE o == Min(Unchecked(m, t))
             s == m.task[t].unchecked[o]
             r == Request(t, o, "hashes", s)
  <2>1. m.task[t] \in TaskStates
    BY SentOfIs DEF Sound
  <2>2. Unchecked(m, t) \in SUBSET Nat
    BY <2>1, UncheckedAre DEF Unchecked
  <2>3. o \in Unchecked(m, t)
    BY <1>2, <2>2, MinIs
  <2> HIDE DEF o
  <2>4. s \in Positive
    BY <2>1, <2>3, UncheckedAre DEF Unchecked
  <2> HIDE DEF s
  <2>5. r \in Requests
    BY <2>2, <2>3, <2>4 DEF Requests, AnyRequests, Request
  <2>6. RequestMore(m, t) = Place(m, r)
    BY <1>2 DEF RequestMore, o, s
  <2> HIDE DEF r
  <2> QED
    BY <2>5, <2>6, PlaceSound
<1> QED
  BY <1>1, <1>2

\* cancelRequest().
LEMMA CancelRequestsSound ==
  ASSUME NEW m, NEW b, Sound(m, b), NEW t \in Tasks, NEW R \in SUBSET m.sent
  PROVE  /\ Sound(CancelRequests(m, t, R), b) /\ Framed(m, CancelRequests(m, t, R))
         /\ CancelRequests(m, t, R).sent = m.sent \ R
<1> DEFINE F == Finish(m, R)
           x == m.task[t]
           more == x.more \/ (Unchecked(m, t) # {} /\ \E r \in R : r.kind = "hashes")
           lost == x.lostRef \/ \E r \in R : r.at = "reference"
           y == [x EXCEPT !.more = more, !.lostRef = lost]
           n == CancelRequests(m, t, R)
<1>1. Sound(F, b) /\ F.task = m.task /\ Framed(m, F) /\ F.sent = m.sent \ R
  BY FinishSound
<1>2. x \in TaskStates /\ F \in Managers /\ F.task[t] = x
  <2>1. F.task[t] = x /\ F \in Managers
    BY <1>1 DEF Sound, Typed
  <2> QED
    BY <2>1, SentOfIs DEF Sound
<1>3. more \in BOOLEAN /\ lost \in BOOLEAN
  OBVIOUS
<1>4. n = [F EXCEPT !.task[t].more = more, !.task[t].lostRef = lost]
  BY <1>2 DEF CancelRequests
<1> HIDE DEF F, more, lost, n
<1>5. y \in TaskStates
  BY <1>2, <1>3 DEF TaskStates
<1>6. n = Put(F, t, y)
  <2>1. F.task \in [Tasks -> TaskStates]
    BY <1>2 DEF Managers
  <2> HIDE DEF x
  <2>2. [[F EXCEPT !.task[t].more = more] EXCEPT !.task[t].lostRef = lost] = [F EXCEPT !.task[t] = y]
    BY <1>2, <2>1 DEF Managers, TaskStates
  <2> QED
    BY <1>4, <2>2 DEF Put
<1> HIDE DEF y
<1>7. Sound(n, b) /\ n.sent = F.sent /\ Framed(F, n)
  BY <1>1, <1>5, <1>6, PutSound
<1> QED
  BY <1>1, <1>7 DEF Framed, n

\* One request is cancelled.
LEMMA OneCancelledSound ==
  ASSUME NEW m, NEW b, Sound(m, b), NEW t \in Tasks, NEW r \in m.sent
  PROVE  /\ Sound(CancelRequests(m, t, {r}), b) /\ Framed(m, CancelRequests(m, t, {r}))
         /\ CancelRequests(m, t, {r}).sent = m.sent \ {r}
<1>1. PICK R \in SUBSET m.sent : R = {r}
  OBVIOUS
<1>2. /\ Sound(CancelRequests(m, t, R), b) /\ Framed(m, CancelRequests(m, t, R))
      /\ CancelRequests(m, t, R).sent = m.sent \ R
  BY CancelRequestsSound
<1> QED
  BY <1>1, <1>2

\* A request is made again through another session.
LEMMA MoveRequestSound ==
  ASSUME NEW m, NEW b, Sound(m, b), NEW r \in m.sent
  PROVE  /\ Sound(MoveRequest(m, r), b) /\ Framed(m, MoveRequest(m, r))
         /\ m.sent \ {r} \subseteq MoveRequest(m, r).sent
<1> DEFINE t == r.task
           n == CancelRequests(m, t, {r})
<1>1. r \in Requests
  BY DEF Sound, Typed, Managers
<1>2. t \in Tasks /\ r.offset \in Nat
  BY <1>1 DEF Requests, AnyRequests
<1>3. Sound(n, b) /\ Framed(m, n) /\ n.sent = m.sent \ {r}
  BY <1>2, OneCancelledSound
<1> HIDE DEF n
<1>4. CASE r.kind = "hashes"
  <2> DEFINE v == [n EXCEPT !.idle = TRUE]
  <2>1. MoveRequest(m, r) = v
    BY <1>4 DEF MoveRequest, n
  <2>2. Sound(v, b) /\ v.sent = n.sent /\ Framed(n, v)
    BY <1>3, IdleSound
  <2> QED
    BY <1>3, <2>1, <2>2 DEF Framed
<1>5. CASE r.kind # "hashes"
  <2> DEFINE o == r.offset
             s == ChooseSession(n)
             v == MakeRequest(n, t, o, s)
  <2>1. s \in Positive
    BY <1>3, ChooseSessionIs DEF Sound
  <2>2. MoveRequest(m, r) = v
    BY <1>5 DEF MoveRequest, n
  <2> HIDE DEF s
  <2>3. Sound(v, b) /\ Framed(n, v) /\ n.sent \subseteq v.sent
    BY <1>2, <1>3, <2>1, MakeRequestSound
  <2> QED
    BY <1>3, <2>2, <2>3 DEF Framed
<1> QED
  BY <1>4, <1>5

\* All requests of a task through a session are made again.
LEMMA MoveRequestsSound ==
  ASSUME NEW m, NEW b, Sound(m, b), NEW t \in Tasks, NEW s
  PROVE  Sound(MoveRequests(m, t, s), b) /\ Framed(m, MoveRequests(m, t, s))
<1> DEFINE of == Through(m, t, s)
           V == [m : Managers, left : SUBSET of]
           OK(v) == v \in V /\ Sound(v.m, b) /\ Framed(m, v.m) /\ v.left \subseteq v.m.sent
           P == { v \in V : OK(v) }
           start == [m |-> m, left |-> of]
           move(v, r) == [m |-> MoveRequest(v.m, r), left |-> v.left \ {r}]
<1>1. IsFiniteSet(of) /\ of \subseteq m.sent
  <2>1. IsFiniteSet(SentOf(m, t)) /\ of \subseteq SentOf(m, t) /\ SentOf(m, t) \subseteq m.sent
    BY SentOfIs DEF Sound, Through
  <2> QED
    BY <2>1, FS_Subset
<1>2. OK(start)
  <2>1. m \in Managers
    BY DEF Sound, Typed
  <2> QED
    BY <1>1, <2>1 DEF Framed
<1>3. ASSUME NEW v, OK(v), NEW r \in v.left
      PROVE  OK(move(v, r))
  <2> DEFINE w == MoveRequest(v.m, r)
  <2>1. r \in v.m.sent
    BY <1>3
  <2>2. Sound(w, b) /\ Framed(v.m, w) /\ v.m.sent \ {r} \subseteq w.sent
    BY <1>3, <2>1, MoveRequestSound
  <2>3. w \in Managers
    BY <2>2 DEF Sound, Typed
  <2>4. move(v, r).m = w /\ move(v, r).left = v.left \ {r}
    OBVIOUS
  <2>5. move(v, r) \in V
    BY <1>3, <2>3
  <2>6. v.left \ {r} \subseteq w.sent /\ Framed(m, w)
    BY <1>3, <2>2 DEF Framed
  <2> HIDE DEF move, w
  <2> QED
    BY <2>2, <2>4, <2>5, <2>6
<1>4. \A v : v \in P <=> OK(v)
  OBVIOUS
<1>5. P \in SUBSET V
  OBVIOUS
<1> HIDE DEF OK, P
<1>6. \E v \in P : v.left = {} /\ MoveRequests(m, t, s) = v.m
  BY <1>1, <1>2, <1>3, <1>4, <1>5, MoveRequestsLoop
<1> QED
  BY <1>4, <1>6 DEF OK

\* DownloadMtprotoTask::removeSession().
LEMMA RedirectSound ==
  ASSUME NEW m, NEW b, Sound(m, b), NEW t \in Tasks, NEW s
  PROVE  Sound(Redirect(m, t, s), b) /\ Framed(m, Redirect(m, t, s))
<1> DEFINE x == m.task[t]
           f == [o \in DOMAIN x.unchecked |->
                   IF x.unchecked[o] = s THEN ChooseSession(m) ELSE x.unchecked[o]]
           y == [x EXCEPT !.unchecked = f]
           n == Put(m, t, y)
<1>1. Typed(m) /\ x \in TaskStates /\ m \in Managers
  <2>1. Typed(m)
    BY DEF Sound
  <2> QED
    BY <2>1, SentOfIs DEF Typed
<1>2. /\ DOMAIN x.unchecked \in SUBSET Nat
      /\ \A o \in DOMAIN x.unchecked : x.unchecked[o] \in Positive
  <2> HIDE DEF x
  <2> QED
    BY <1>1, UncheckedAre
<1>3. f \in [DOMAIN x.unchecked -> Positive]
  BY <1>1, <1>2, ChooseSessionIs
<1>4. Redirect(m, t, s) = MoveRequests(n, t, s)
  <2>1. m.task \in [Tasks -> TaskStates]
    BY <1>1 DEF Managers
  <2>2. [m EXCEPT !.task[t].unchecked = f] = [m EXCEPT !.task[t] = y]
    BY <1>1, <2>1 DEF Managers
  <2> QED
    BY <2>2 DEF Redirect, Put
<1> HIDE DEF f, x
<1>5. y \in TaskStates
  <2>1. f \in UNION { [K -> Positive] : K \in SUBSET Nat }
    BY <1>2, <1>3
  <2> QED
    BY <1>1, <2>1 DEF TaskStates
<1> HIDE DEF y
<1>6. Sound(n, b) /\ Framed(m, n)
  BY <1>5, PutSound
<1> HIDE DEF n
<1>7. Sound(MoveRequests(n, t, s), b) /\ Framed(n, MoveRequests(n, t, s))
  BY <1>6, MoveRequestsSound
<1> QED
  BY <1>4, <1>6, <1>7 DEF Framed

\* All tasks of the queue move their requests.
LEMMA RedirectAllSound ==
  ASSUME NEW m, NEW b, Sound(m, b), NEW s
  PROVE  Sound(RedirectAll(m, s), b) /\ Framed(m, RedirectAll(m, s))
<1> DEFINE OK(v) == Sound(v, b) /\ Framed(m, v)
           P == { v \in Managers : OK(v) }
<1>1. m \in Managers /\ \A n \in DOMAIN m.queue : m.queue[n].task \in Tasks
  <2>1. m \in Managers
    BY DEF Sound, Typed
  <2>2. m.queue \in Seq([task : Tasks, priority : Int])
    BY <2>1 DEF Managers
  <2>3. \A n \in DOMAIN m.queue : m.queue[n] \in [task : Tasks, priority : Int]
    BY <2>2, MembersAre
  <2> QED
    BY <2>1, <2>3
<1>2. ASSUME NEW v, OK(v), NEW n \in DOMAIN m.queue
      PROVE  OK(Redirect(v, m.queue[n].task, s))
  <2>1. PICK t \in Tasks : t = m.queue[n].task
    BY <1>1
  <2>2. Sound(Redirect(v, t, s), b) /\ Framed(v, Redirect(v, t, s))
    BY <1>2, RedirectSound
  <2> QED
    BY <1>2, <2>1, <2>2 DEF Framed
<1>3. \A v : v \in P <=> OK(v)
  BY DEF Sound, Typed
<1>4. P \in SUBSET Managers
  OBVIOUS
<1>5. OK(m)
  BY DEF Framed
<1> HIDE DEF OK, P
<1>6. m \in P /\ \A v \in P : \A n \in DOMAIN m.queue : Redirect(v, m.queue[n].task, s) \in P
  BY <1>2, <1>3, <1>5
<1>7. RedirectAll(m, s) \in P
  BY <1>4, <1>6, RedirectAllLoop
<1> QED
  BY <1>3, <1>7 DEF OK

\* Requests that get other marks are counted as before.
LEMMA SameCount ==
  ASSUME NEW S, IsFiniteSet(S), NEW T, NEW f \in [S -> T],
         \A q, r \in S : f[q] = f[r] => q = r, \A w \in T : \E r \in S : w = f[r]
  PROVE  IsFiniteSet(T) /\ Cardinality(T) = Cardinality(S)
<1>1. f \in Surjection(S, T) /\ f \in Injection(S, T)
  BY DEF Surjection, Injection, IsInjective
<1> QED
  BY <1>1, FS_Surjection

\* Session s is given Much more to do, so that nothing is asked for through it.
Raised(old, new, s) ==
  /\ DOMAIN new = DOMAIN old
  /\ \A k \in DOMAIN old :
       new[k].requested = old[k].requested + (IF k = s THEN Much ELSE 0)

\* n is m with other sessions.
Reseated(m, n, all) ==
  /\ n \in Managers /\ n.sessions = all /\ n.sent = m.sent /\ n.total = m.total
  /\ n.kill = m.kill /\ n.broken = m.broken

\* More is requested through a session.
LEMMA MoreRequested ==
  ASSUME NEW c \in Sessions, NEW p \in Nat, NEW e, e = [c EXCEPT !.requested = @ + p]
  PROVE  e \in Sessions /\ e.requested = c.requested + p
BY DEF Sessions

\* One session of a sequence is raised.
LEMMA RaisedIs ==
  ASSUME NEW old \in Seq(Sessions), NEW s \in DOMAIN old
  PROVE  /\ [old EXCEPT ![s].requested = @ + Much] \in Seq(Sessions)
         /\ Raised(old, [old EXCEPT ![s].requested = @ + Much], s)
<1> DEFINE x == [old[s] EXCEPT !.requested = @ + Much]
           new == [old EXCEPT ![s] = x]
<1>1. Much \in Nat /\ \A k \in DOMAIN old : old[k] \in Sessions
  BY ConstantsAre
<1>2. x \in Sessions /\ x.requested = old[s].requested + Much
  <2>1. PICK c \in Sessions : c = old[s]
    BY <1>1
  <2>2. x = [c EXCEPT !.requested = @ + Much]
    BY <2>1
  <2> HIDE DEF x
  <2>3. x \in Sessions /\ x.requested = c.requested + Much
    BY <1>1, <2>2, MoreRequested
  <2> QED
    BY <2>1, <2>3
<1>3. \A k \in DOMAIN old : old[k].requested \in Int
  <2> SUFFICES ASSUME NEW k \in DOMAIN old
               PROVE  old[k].requested \in Int
    OBVIOUS
  <2>1. PICK c \in Sessions : c = old[k]
    BY <1>1
  <2>2. c.requested \in Int
    BY DEF Sessions
  <2> QED
    BY <2>1, <2>2
<1>4. new = [old EXCEPT ![s].requested = @ + Much]
  OBVIOUS
<1> HIDE DEF x
<1>5. new \in Seq(Sessions) /\ DOMAIN new = DOMAIN old
      /\ \A k \in DOMAIN old : new[k] = (IF k = s THEN x ELSE old[k])
  BY <1>2
<1> HIDE DEF new
<1>6. ASSUME NEW k \in DOMAIN old
      PROVE  new[k].requested = old[k].requested + (IF k = s THEN Much ELSE 0)
  <2>1. CASE k = s
    BY <1>2, <1>5, <2>1
  <2>2. CASE k # s
    BY <1>3, <1>5, <2>2
  <2> QED
    BY <2>1, <2>2
<1>7. Raised(old, new, s)
  BY <1>5, <1>6 DEF Raised
<1> QED
  BY <1>4, <1>5, <1>7

\* The last session is to be removed: nothing will be asked for through it.
LEMMA ShutSound ==
  ASSUME NEW m, Sound(m, 0), NEW s \in Positive, NEW n, NEW all, Reseated(m, n, all),
         Raised(m.sessions, all, s), all \in Seq(Sessions), s \in DOMAIN m.sessions
  PROVE  Sound(n, s) /\ DOMAIN n.sessions = DOMAIN m.sessions
<1>1. m \in Managers /\ IsFiniteSet(m.sent) /\ \A k \in DOMAIN m.sessions : m.sessions[k] \in Sessions
  BY SessionsAre DEF Sound, Typed
<1>2. s \in Nat /\ s # 0
  BY DEF Positive
<1>3. /\ n \in Managers /\ n.sessions = all /\ n.sent = m.sent /\ n.total = m.total
      /\ n.kill = m.kill /\ n.broken = m.broken
  BY DEF Reseated
<1>4. /\ DOMAIN all = DOMAIN m.sessions
      /\ \A k \in DOMAIN m.sessions : all[k].requested =
           m.sessions[k].requested + (IF k = s THEN Much ELSE 0)
  BY DEF Raised
<1>5. Typed(n)
  BY <1>1, <1>3, <1>4 DEF Typed
<1>6. ASSUME n.broken = {}
      PROVE  Sums(n, s)
  <2>1. Sums(m, 0)
    BY <1>3, <1>6 DEF Sound, Tally
  <2>2. \A k \in DOMAIN n.sessions : n.sessions[k].requested =
          Cardinality(CountedBy(n.sent, k)) + (IF k = s THEN Much ELSE 0)
    <3> SUFFICES ASSUME NEW k \in DOMAIN m.sessions
                 PROVE  n.sessions[k].requested =
                          Cardinality(CountedBy(n.sent, k)) + (IF k = s THEN Much ELSE 0)
      BY <1>3, <1>4
    <3>1. k # 0
      <4>1. m.sessions \in Seq(Sessions)
        BY <1>1 DEF Managers
      <4> QED
        BY <4>1
    <3>2. Cardinality(CountedBy(m.sent, k)) \in Nat
      BY <1>1, CountOfRequests DEF CountedBy
    <3>3. m.sessions[k].requested = Cardinality(CountedBy(m.sent, k)) + 0
      BY <2>1, <3>1 DEF Sums
    <3>4. PICK i \in Int : i = Cardinality(CountedBy(m.sent, k))
      BY <3>2
    <3>5. m.sessions[k].requested = i
      BY <3>3, <3>4
    <3>6. n.sessions[k].requested = m.sessions[k].requested + (IF k = s THEN Much ELSE 0)
      BY <1>3, <1>4
    <3> QED
      BY <1>3, <3>4, <3>5, <3>6
  <2> QED
    BY <1>3, <1>4, <2>1, <2>2 DEF Sums
<1> QED
  BY <1>3, <1>4, <1>5, <1>6 DEF Sound, Tally

\* Requests that keep their tasks, parts and sessions.
Renames(f, S, T) ==
  /\ f \in [S -> T] /\ \A w \in T : \E r \in S : w = f[r]
  /\ \A r \in S : f[r].task = r.task /\ f[r].offset = r.offset /\ f[r].session = r.session

\* No part of a task is asked for twice.
Single(S) == \A q, r \in S : q.task = r.task /\ q.offset = r.offset => q = r

\* Requests that get other marks are counted as before, by each session.
LEMMA RenamedCounts ==
  ASSUME NEW S, IsFiniteSet(S), Single(S), NEW T, NEW f, Renames(f, S, T)
  PROVE  /\ Single(T) /\ IsFiniteSet(T) /\ Cardinality(T) = Cardinality(S)
         /\ \A k : Cardinality(CountedBy(T, k)) = Cardinality(CountedBy(S, k))
<1>1. \A q, r \in S : f[q] = f[r] => q = r
  BY DEF Renames, Single
<1>2. Cardinality(T) = Cardinality(S) /\ IsFiniteSet(T)
  <2>1. f \in [S -> T] /\ \A w \in T : \E r \in S : w = f[r]
    BY DEF Renames
  <2> QED
    BY <1>1, <2>1, SameCount
<1>3. ASSUME NEW k
      PROVE  Cardinality(CountedBy(T, k)) = Cardinality(CountedBy(S, k))
  <2> DEFINE C == CountedBy(S, k)
             D == CountedBy(T, k)
             g == [r \in C |-> f[r]]
  <2>1. C \subseteq S /\ \A r \in C : f[r] \in D
    BY DEF CountedBy, Renames
  <2>2. \A w \in D : \E r \in C : w = f[r]
    BY DEF CountedBy, Renames
  <2>3. IsFiniteSet(C)
    BY <2>1, FS_Subset
  <2> HIDE DEF C, D
  <2>4. g \in [C -> D] /\ \A r \in C : g[r] = f[r]
    BY <2>1
  <2> HIDE DEF g
  <2>5. \A q, r \in C : g[q] = g[r] => q = r
    BY <1>1, <2>1, <2>4
  <2>6. \A w \in D : \E r \in C : w = g[r]
    BY <2>2, <2>4
  <2>7. Cardinality(D) = Cardinality(C)
    BY <2>3, <2>4, <2>5, <2>6, SameCount
  <2> QED
    BY <2>7 DEF C, D
<1>4. Single(T)
  BY DEF Single, Renames
<1> QED
  BY <1>2, <1>3, <1>4

\* A session without requests is gone; the amounts of the others are kept.
LEMMA GoneSound ==
  ASSUME NEW n, NEW s \in Positive, s > 1, Sound(n, s), DOMAIN n.sessions = 1 .. s,
         NEW v, Typed(v), v.broken = {} => n.broken = {} /\ n.sessions[s].requested = Much,
         DOMAIN v.sessions = 1 .. s - 1, \A k \in 1 .. s - 1 : v.sessions[k] = n.sessions[k],
         v.total = n.total, v.kill = n.kill, NEW f, Renames(f, n.sent, v.sent)
  PROVE  Sound(v, 0)
<1>1. SUFFICES ASSUME v.broken = {}
               PROVE  Sums(v, 0)
  BY DEF Sound, Tally
<1>2. Sums(n, s) /\ n.sessions[s].requested = Much
  BY <1>1 DEF Sound, Tally
<1>3. IsFiniteSet(n.sent) /\ s \in Nat
  BY DEF Sound, Typed, Positive
<1>4. /\ \A k : IsFiniteSet(CountedBy(n.sent, k))
      /\ \A k : Cardinality(CountedBy(n.sent, k)) \in Nat
  <2>1. \A k : CountedBy(n.sent, k) \subseteq n.sent
    BY DEF CountedBy
  <2> QED
    BY <1>3, <2>1, CountOfRequests
<1>5. CountedBy(n.sent, s) = {}
  <2>1. PICK i \in Nat : i = Cardinality(CountedBy(n.sent, s))
    BY <1>4
  <2>2. n.sessions[s].requested = i + Much
    BY <1>2, <1>3, <2>1 DEF Sums
  <2>3. i = 0
    BY <1>2, <2>2, ConstantsAre
  <2> QED
    BY <1>4, <2>1, <2>3, FS_EmptySet
<1>6. /\ Single(v.sent) /\ Cardinality(v.sent) = Cardinality(n.sent)
      /\ \A k : Cardinality(CountedBy(v.sent, k)) = Cardinality(CountedBy(n.sent, k))
  <2>1. Single(n.sent)
    BY <1>2 DEF Sums, Single
  <2> QED
    BY <1>3, <2>1, RenamedCounts
<1>7. \A w \in v.sent : w.session \in DOMAIN v.sessions
  <2> SUFFICES ASSUME NEW r \in n.sent
               PROVE  r.session \in 1 .. s - 1
    BY DEF Renames
  <2>1. r.session \in 1 .. s
    BY <1>2 DEF Sums
  <2>2. r.session # s
    BY <1>5 DEF CountedBy
  <2> QED
    BY <1>3, <2>1, <2>2
<1>8. \A k \in DOMAIN v.sessions : v.sessions[k].requested =
         Cardinality(CountedBy(v.sent, k)) + (IF k = 0 THEN Much ELSE 0)
  <2> SUFFICES ASSUME NEW k \in 1 .. s - 1
               PROVE  v.sessions[k].requested =
                        Cardinality(CountedBy(v.sent, k)) + (IF k = 0 THEN Much ELSE 0)
    OBVIOUS
  <2>1. k \in 1 .. s /\ k # s /\ k # 0
    BY <1>3
  <2>2. n.sessions[k].requested = Cardinality(CountedBy(n.sent, k)) + 0
    BY <1>2, <2>1 DEF Sums
  <2>3. v.sessions[k] = n.sessions[k]
    OBVIOUS
  <2> QED
    BY <1>6, <2>1, <2>2, <2>3
<1>9. v.total = Cardinality(v.sent)
  BY <1>2, <1>6 DEF Sums
<1>10. v.kill => v.sent = {}
  BY <1>2 DEF Sums, Renames
<1> QED
  BY <1>6, <1>7, <1>8, <1>9, <1>10 DEF Sums, Single

\* The last session is removed.
LEMMA RemoveSessionSound ==
  ASSUME NEW m, Sound(m, 0), Len(m.sessions) > 1
  PROVE  Sound(RemoveSession(m), 0)
<1> DEFINE s == Len(m.sessions)
           all == [m.sessions EXCEPT ![s].requested = @ + Much]
           times == IF m.removeIndex = s THEN Min({m.removes + 1, MaxRemoves}) ELSE 1
           shut == [m EXCEPT !.sessions = all, !.removes = times, !.removeIndex = s]
           n == RedirectAll(shut, s)
           more == IF n.sessions[s].requested # Much THEN {"left in a removed session"} ELSE {}
           left == [k \in 1 .. s - 1 |-> n.sessions[k]]
           Old(r) == [r EXCEPT !.old = TRUE, !.amount = 0]
           sent == { Old(r) : r \in n.sent }
           v == [n EXCEPT !.broken = @ \cup more, !.sessions = left, !.removed = TRUE, !.sent = sent]
<1>1. Typed(m) /\ m \in Managers /\ m.sessions \in Seq(Sessions)
  BY DEF Sound, Typed, Managers
<1>2. /\ DOMAIN m.sessions = 1 .. s /\ s \in Nat /\ s > 1
      /\ \A k \in DOMAIN m.sessions : m.sessions[k] \in Sessions
  BY <1>1, SessionsAre
<1>3. all \in Seq(Sessions) /\ DOMAIN all = 1 .. s /\ Raised(m.sessions, all, s)
  <2>1. s \in DOMAIN m.sessions
    BY <1>2
  <2>2. all \in Seq(Sessions) /\ Raised(m.sessions, all, s)
    BY <1>1, <2>1, RaisedIs
  <2> HIDE DEF all, s
  <2> QED
    BY <1>2, <2>2 DEF Raised
<1>4. times \in Nat
  <2>1. m.removes \in Nat /\ MaxRemoves \in Nat
    BY <1>1, ConstantsAre DEF Managers
  <2>2. m.removes + 1 \in Nat
    BY <2>1
  <2> QED
    BY <2>1, <2>2, MinOfTwo
<1>5. RemoveSession(m) = v
  <2>1. [m EXCEPT !.sessions[s].requested = @ + Much,
                  !.removes = IF m.removeIndex = s THEN Min({@ + 1, MaxRemoves}) ELSE 1,
                  !.removeIndex = s] = shut
    BY <1>1 DEF Managers
  <2> DEFINE gone(u) == [u EXCEPT
        !.broken = @ \cup (IF u.sessions[s].requested # Much
                           THEN {"left in a removed session"} ELSE {}),
        !.sessions = [k \in 1 .. s - 1 |-> @[k]], !.removed = TRUE,
        !.sent = { [r EXCEPT !.old = TRUE, !.amount = 0] : r \in @ }]
  <2>2. RemoveSession(m) = The({ gone(u) : u \in {n} })
    BY <2>1 DEF RemoveSession
  <2>3. gone(n) = v
    OBVIOUS
  <2> HIDE DEF gone, v, n
  <2>4. { gone(u) : u \in {n} } = { v }
    BY <2>3
  <2> QED
    BY <2>2, <2>4, TheIs
<1>6. s \in Positive /\ s \in DOMAIN m.sessions
  BY <1>2 DEF Positive
<1>7. Sound(shut, s) /\ DOMAIN shut.sessions = DOMAIN m.sessions
  <2> HIDE DEF all, times, s
  <2>1. Reseated(m, shut, all)
    BY <1>1, <1>3, <1>4, <1>6 DEF Reseated, Managers, Positive
  <2> HIDE DEF shut
  <2> QED
    BY <1>3, <1>6, <2>1, ShutSound
<1>8. Sound(n, s) /\ DOMAIN n.sessions = 1 .. s
  <2> HIDE DEF shut, all
  <2> QED
    BY <1>2, <1>7, RedirectAllSound DEF Framed
<1> HIDE DEF shut, all, times, n, s
<1>9. /\ Typed(n) /\ n \in Managers /\ n.sent \in SUBSET Requests /\ IsFiniteSet(n.sent)
      /\ \A k \in 1 .. s : n.sessions[k] \in Sessions
  BY <1>8, SessionsAre DEF Sound, Typed, Managers
<1>10. left \in Seq(Sessions) /\ left # <<>>
  <2>1. left \in [1 .. s - 1 -> Sessions] /\ s - 1 \in Nat
    BY <1>2, <1>9
  <2>2. 1 \in DOMAIN left
    BY <1>2, <2>1
  <2> HIDE DEF left
  <2> QED
    BY <2>1, <2>2
<1>11. more \in SUBSET Failures
  BY DEF Failures
<1>12. \A r \in Requests : /\ Old(r) \in Requests /\ Old(r).task = r.task
                           /\ Old(r).session = r.session /\ Old(r).offset = r.offset
  <2> SUFFICES ASSUME NEW r \in Requests
               PROVE  /\ Old(r) \in Requests /\ Old(r).task = r.task
                      /\ Old(r).session = r.session /\ Old(r).offset = r.offset
    OBVIOUS
  <2>1. TRUE \in BOOLEAN /\ 0 \in Int
    OBVIOUS
  <2> QED
    BY <2>1 DEF Requests, AnyRequests
<1> HIDE DEF Old
<1> DEFINE f == [r \in n.sent |-> Old(r)]
<1>13. sent \in SUBSET Requests /\ IsFiniteSet(sent)
  <2>1. f \in Surjection(n.sent, sent)
    BY DEF Surjection
  <2>2. IsFiniteSet(sent)
    <3> HIDE DEF f, sent
    <3> QED
      BY <1>9, <2>1, FS_Surjection
  <2> QED
    BY <1>9, <1>12, <2>2
<1>14. /\ v \in Managers /\ v.sent = sent /\ v.sessions = left /\ v.total = n.total
       /\ v.kill = n.kill /\ v.broken = n.broken \cup more
  <2> HIDE DEF sent, left, more
  <2> QED
    BY <1>9, <1>10, <1>11, <1>13 DEF Managers
<1>15. /\ DOMAIN left = 1 .. s - 1 /\ \A k \in 1 .. s - 1 : left[k] = n.sessions[k]
  OBVIOUS
<1>16. v.broken = {} => n.broken = {} /\ n.sessions[s].requested = Much
  BY <1>14
<1>17. Renames(f, n.sent, sent)
  BY <1>9, <1>12 DEF Renames
<1> HIDE DEF v, left, f, sent, more
<1>18. Typed(v)
  BY <1>10, <1>13, <1>14 DEF Typed
<1>19. Sound(v, 0)
  BY <1>2, <1>6, <1>8, <1>14, <1>15, <1>16, <1>17, <1>18, GoneSound
<1> QED
  BY <1>5, <1>19

\* The successes of all sessions are forgotten.
LEMMA NoSuccessesSound ==
  ASSUME NEW m, NEW b, Sound(m, b)
  PROVE  /\ Sound(NoSuccesses(m), b) /\ DOMAIN NoSuccesses(m).sessions = DOMAIN m.sessions
         /\ NoSuccesses(m).timeouts = m.timeouts
<1> DEFINE n == NoSuccesses(m)
           all == [s \in DOMAIN m.sessions |-> [m.sessions[s] EXCEPT !.successes = 0]]
<1>1. m \in Managers /\ \A s \in DOMAIN m.sessions : m.sessions[s] \in Sessions
  BY SessionsAre DEF Sound, Typed
<1>2. Typed(n) /\ DOMAIN n.sessions = DOMAIN m.sessions /\ n.sent = m.sent
  BY NoSuccessesIs DEF Sound
<1>3. \A s \in DOMAIN m.sessions : all[s].requested = m.sessions[s].requested
  BY <1>1 DEF Sessions
<1>4. n = [m EXCEPT !.sessions = all]
  BY DEF NoSuccesses
<1> HIDE DEF all, n
<1>5. /\ n.sessions = all /\ n.total = m.total /\ n.kill = m.kill /\ n.broken = m.broken
      /\ n.timeouts = m.timeouts
  BY <1>1, <1>4 DEF Managers
<1>6. Sound(n, b)
  BY <1>2, <1>3, <1>5, SoundAs
<1> QED
  BY <1>2, <1>5, <1>6 DEF n

\* The time-outs are counted.
LEMMA TimeoutsSound ==
  ASSUME NEW m, NEW b, Sound(m, b), NEW k \in Nat
  PROVE  Sound([m EXCEPT !.timeouts = k], b) /\ [m EXCEPT !.timeouts = k].sessions = m.sessions
<1> DEFINE n == [m EXCEPT !.timeouts = k]
<1>1. m \in Managers
  BY DEF Sound, Typed
<1>2. Typed(n) /\ n.sent = m.sent
  BY TimeoutsSetIs DEF Sound
<1>3. n.sessions = m.sessions /\ n.total = m.total /\ n.kill = m.kill /\ n.broken = m.broken
  BY <1>1 DEF Managers
<1> HIDE DEF n
<1>4. Sound(n, b)
  BY <1>2, <1>3, SoundAs
<1> QED
  BY <1>3, <1>4 DEF n

\* sessionTimedOut() is posted, or is no more.
LEMMA PostedSound ==
  ASSUME NEW m, NEW b, Sound(m, b), NEW q \in Seq(Positive)
  PROVE  Sound([m EXCEPT !.posted = q], b)
<1> DEFINE n == [m EXCEPT !.posted = q]
<1>1. m \in Managers
  BY DEF Sound, Typed
<1>2. Typed(n) /\ n.sent = m.sent
  BY PostedSetIs DEF Sound
<1>3. n.sessions = m.sessions /\ n.total = m.total /\ n.kill = m.kill /\ n.broken = m.broken
  BY <1>1 DEF Managers
<1> HIDE DEF n
<1>4. Sound(n, b)
  BY <1>2, <1>3, SoundAs
<1> QED
  BY <1>4 DEF n

\* sessionTimedOut(), with or without the removal of a session.
LEMMA SessionTimedOutSound ==
  ASSUME NEW m, Sound(m, 0), NEW s
  PROVE  Sound(SessionTimedOut(m, s), 0)
<1> DEFINE n == NoSuccesses(m)
<1>1. Typed(m) /\ m.timeouts \in Nat
  BY DEF Sound, Typed, Managers
<1>2. Sound(n, 0) /\ DOMAIN n.sessions = DOMAIN m.sessions /\ n.timeouts = m.timeouts
  BY NoSuccessesSound
<1>3. CASE s \notin DOMAIN m.sessions
  BY <1>3 DEF SessionTimedOut
<1>4. CASE s \in DOMAIN m.sessions /\ Len(m.sessions) = 1
  BY <1>2, <1>4 DEF SessionTimedOut
<1>5. CASE s \in DOMAIN m.sessions /\ Len(m.sessions) > 1 /\ m.timeouts + 1 < RemoveAfter
  <2>1. SessionTimedOut(m, s) = [n EXCEPT !.timeouts = @ + 1]
    BY <1>5 DEF SessionTimedOut
  <2> HIDE DEF n
  <2>2. n.timeouts + 1 \in Nat
    BY <1>1, <1>2
  <2>3. [n EXCEPT !.timeouts = @ + 1] = [n EXCEPT !.timeouts = n.timeouts + 1]
    OBVIOUS
  <2> QED
    BY <1>2, <2>1, <2>2, <2>3, TimeoutsSound
<1>6. CASE s \in DOMAIN m.sessions /\ Len(m.sessions) # 1
             /\ ~(Len(m.sessions) > 1 /\ m.timeouts + 1 < RemoveAfter)
  <2> DEFINE v == [n EXCEPT !.timeouts = 0]
  <2>1. SessionTimedOut(m, s) = RemoveSession(v)
    BY <1>6 DEF SessionTimedOut
  <2> HIDE DEF n
  <2>2. Sound(v, 0) /\ v.sessions = n.sessions
    BY <1>2, TimeoutsSound
  <2> HIDE DEF v
  <2>3. Len(v.sessions) > 1
    <3>1. /\ DOMAIN m.sessions = 1 .. Len(m.sessions) /\ Len(m.sessions) \in Nat
          /\ Len(m.sessions) > 0
      BY <1>1, SessionsAre DEF Positive
    <3>2. DOMAIN v.sessions = 1 .. Len(v.sessions) /\ Len(v.sessions) \in Nat
      BY <2>2, SessionsAre DEF Sound, Positive
    <3>3. 1 .. Len(v.sessions) = 1 .. Len(m.sessions)
      BY <1>2, <2>2, <3>1, <3>2
    <3>4. PICK N \in Nat : N = Len(m.sessions)
      BY <3>1
    <3>b. \A k \in Nat : k # 1 /\ k > 0 => k \in 1 .. k /\ k > 1
      <4> HIDE <1>6
      <4> QED
        OBVIOUS
    <3>a. N # 1 /\ N > 0
      BY <1>6, <3>1, <3>4
    <3>5. N \in 1 .. N /\ N > 1
      BY <3>a, <3>b
    <3>6. N \in 1 .. Len(v.sessions)
      BY <3>3, <3>4, <3>5
    <3> QED
      BY <3>2, <3>5, <3>6
  <2> QED
    BY <2>1, <2>2, <2>3, RemoveSessionSound
<1>7. Len(m.sessions) \in Nat
  BY <1>1, SessionsAre DEF Positive
<1> QED
  BY <1>3, <1>4, <1>5, <1>6, <1>7

\* A session more: nothing is asked for through it yet.
LEMMA MoreSound ==
  ASSUME NEW m, Sound(m, 0)
  PROVE  Sound([m EXCEPT !.sessions = Append(@, NewSession)], 0)
<1> DEFINE N == Len(m.sessions)
           q == Append(m.sessions, NewSession)
           n == [m EXCEPT !.sessions = q]
<1>1. Typed(m) /\ m \in Managers /\ m.sessions \in Seq(Sessions) /\ IsFiniteSet(m.sent)
  BY DEF Sound, Typed, Managers
<1>2. NewSession \in Sessions /\ NewSession.requested = 0
  BY ConstantsAre DEF NewSession, Sessions
<1>3. /\ DOMAIN m.sessions = 1 .. N /\ N \in Nat
      /\ \A k \in DOMAIN m.sessions : m.sessions[k] \in Sessions
  BY <1>1, SessionsAre DEF Positive
<1>4. /\ q \in Seq(Sessions) /\ q # <<>> /\ DOMAIN q = 1 .. N + 1 /\ q[N + 1] = NewSession
      /\ \A k \in 1 .. N : q[k] = m.sessions[k]
  <2> HIDE DEF NewSession
  <2> QED
    BY <1>1, <1>2, <1>3
<1> HIDE DEF q, N
<1>5. Typed(n) /\ n.sent = m.sent /\ n.sessions = q
  BY <1>1, <1>4, SessionsSetIs
<1>6. n.total = m.total /\ n.kill = m.kill /\ n.broken = m.broken
  BY <1>1 DEF Managers
<1> HIDE DEF n
<1>7. ASSUME n.broken = {}
      PROVE  Sums(n, 0)
  <2>1. Sums(m, 0)
    BY <1>6, <1>7 DEF Sound, Tally
  <2>2. \A r \in n.sent : r.session \in 1 .. N
    BY <1>3, <1>5, <2>1 DEF Sums
  <2>3. \A r \in n.sent : r.session \in DOMAIN n.sessions /\ r.session # N + 1
    BY <1>3, <1>4, <1>5, <2>2
  <2>4. CountedBy(n.sent, N + 1) = {}
    BY <2>3 DEF CountedBy
  <2>5. ASSUME NEW s \in 1 .. N + 1
        PROVE  n.sessions[s].requested =
                 Cardinality(CountedBy(n.sent, s)) + (IF s = 0 THEN Much ELSE 0)
    <3>0. s # 0
      BY <1>3
    <3>1. CASE s = N + 1
      <4>1. Cardinality(CountedBy(n.sent, s)) = 0
        BY <2>4, <3>1, FS_EmptySet
      <4>2. n.sessions[s].requested = 0
        BY <1>2, <1>4, <1>5, <3>1
      <4> QED
        BY <3>0, <4>1, <4>2
    <3>2. CASE s # N + 1
      <4>1. s \in 1 .. N
        BY <1>3, <3>2
      <4>2. m.sessions[s].requested = Cardinality(CountedBy(m.sent, s)) + 0
        BY <1>3, <2>1, <3>0, <4>1 DEF Sums
      <4>3. n.sessions[s] = m.sessions[s]
        BY <1>4, <1>5, <4>1
      <4> QED
        BY <1>5, <3>0, <4>2, <4>3
    <3> QED
      BY <3>1, <3>2
  <2> QED
    BY <1>4, <1>5, <1>6, <2>1, <2>3, <2>5 DEF Sums
<1>8. Sound(n, 0)
  BY <1>5, <1>7 DEF Sound, Tally
<1> QED
  BY <1>8 DEF n, q

\* requestSucceeded().
LEMMA RequestSucceededSound ==
  ASSUME NEW m, Sound(m, 0), NEW r \in Requests, NEW slow \in BOOLEAN, NEW waited \in BOOLEAN
  PROVE  Sound(RequestSucceeded(m, r, slow, waited), 0)
<1> DEFINE s == r.session
           mine == m.sessions[s]
           grown == Grown(m, r)
           enough == \A k \in DOMAIN grown.sessions :
                       grown.sessions[k].successes >= (m.removes + 1) * RetrySuccesses
           start == NoSuccesses(grown)
           new == [start EXCEPT !.sessions = Append(@, NewSession)]
           n == RequestSucceeded(m, r, slow, waited)
<1>0. Typed(m) /\ Typed(n)
  BY RequestSucceededIs DEF Sound
<1>1. /\ m \in Managers /\ m.sessions \in Seq(Sessions) /\ m.sessions # <<>>
      /\ m.posted \in Seq(Positive) /\ s \in Positive /\ m.timeouts \in Nat
  BY <1>0 DEF Typed, Managers, Requests, AnyRequests
<1>2. \A k \in DOMAIN m.sessions : m.sessions[k] \in Sessions
  BY <1>0, SessionsAre
<1>3. CASE s \notin DOMAIN m.sessions
  <2>1. n = [m EXCEPT !.broken = @ \cup {"no such session"}]
    BY <1>3 DEF RequestSucceeded
  <2> HIDE DEF n
  <2>2. n.broken # {}
    BY <1>1, <2>1 DEF Managers
  <2> QED
    BY <1>0, <2>2 DEF Sound, Tally, n
<1>4. CASE s \in DOMAIN m.sessions /\ (r.old \/ r.amount > mine.max)
  BY <1>4 DEF RequestSucceeded
<1>5. CASE s \in DOMAIN m.sessions /\ ~(r.old \/ r.amount > mine.max)
  <2> DEFINE next == [mine EXCEPT
                        !.max = IF r.amount = @ THEN Min({@ + 1, MaxWaited}) ELSE @,
                        !.successes = Min({@ + 1, RetrySuccesses * MaxRemoves})]
             all == [m.sessions EXCEPT ![s] = next]
  <2>1. next \in Sessions /\ next.requested = mine.requested
    <3>1. mine \in Sessions
      BY <1>2, <1>5
    <3>2. mine.max \in Nat /\ mine.successes \in Nat
      BY <3>1 DEF Sessions
    <3>3. Min({mine.max + 1, MaxWaited}) \in Nat
      BY <3>2, ConstantsAre, MinOfTwo
    <3>4. Min({mine.successes + 1, RetrySuccesses * MaxRemoves}) \in Nat
      <4>1. mine.successes + 1 \in Nat
        BY <3>2
      <4>2. RetrySuccesses * MaxRemoves \in Nat
        BY ConstantsAre
      <4> QED
        BY <4>1, <4>2, MinOfTwo
    <3> HIDE DEF mine
    <3> QED
      BY <3>1, <3>2, <3>3, <3>4 DEF Sessions
  <2>2. grown = [m EXCEPT !.sessions = all]
    BY Zenon, <1>1, <1>2, <1>5, GrownIs DEF GrownSession
  <2>3. /\ slow => n = [m EXCEPT !.posted = Append(@, s)]
        /\ ~slow /\ ~enough => n = grown
        /\ ~slow /\ enough /\ m.timeouts > 0 => n = [start EXCEPT !.timeouts = @ - 1]
        /\ ~slow /\ enough /\ m.timeouts = 0 => n = new \/ n = start
    <3>1. n = CASE slow -> [m EXCEPT !.posted = Append(@, s)]
               [] ~slow /\ ~enough -> grown
               [] ~slow /\ enough /\ m.timeouts > 0 -> [start EXCEPT !.timeouts = @ - 1]
               [] ~slow /\ enough /\ m.timeouts = 0 ->
                    IF Len(m.sessions) < MaxSessions /\ (m.removed => waited) THEN new ELSE start
      <4> HIDE DEF grown
      <4> QED
        BY <1>5 DEF RequestSucceeded, grown
    <3> HIDE DEF n, start, new, enough, grown
    <3> QED
      BY <3>1
  <2>4. /\ all \in Seq(Sessions) /\ all # <<>> /\ DOMAIN all = DOMAIN m.sessions
        /\ \A k \in DOMAIN m.sessions : all[k].requested = m.sessions[k].requested
    <3> HIDE DEF next, s
    <3> QED
      BY <1>1, <1>5, <2>1
  <2> HIDE DEF next, all
  <2>5. Typed([m EXCEPT !.sessions = all])
    BY <1>0, <2>4, SessionsSetIs
  <2> HIDE DEF grown
  <2>6. /\ grown.sent = m.sent /\ grown.sessions = all /\ grown.timeouts = m.timeouts
        /\ grown.total = m.total /\ grown.kill = m.kill /\ grown.broken = m.broken
    BY <1>1, <2>2 DEF Managers
  <2>a. Typed(grown)
    BY <2>2, <2>5
  <2>7. Sound(grown, 0)
    BY <2>4, <2>6, <2>a, SoundAs
  <2>8. Sound(start, 0) /\ start.timeouts = m.timeouts
    BY <2>6, <2>7, NoSuccessesSound
  <2> HIDE DEF start, enough
  <2>9. Sound(new, 0)
    BY <2>8, MoreSound
  <2>10. Sound([m EXCEPT !.posted = Append(@, s)], 0)
    <3>1. Append(m.posted, s) \in Seq(Positive)
      BY <1>1
    <3> QED
      BY <3>1, PostedSound
  <2>11. ASSUME m.timeouts > 0
         PROVE  Sound([start EXCEPT !.timeouts = @ - 1], 0)
    <3>1. start.timeouts - 1 \in Nat
      BY <1>1, <2>8, <2>11
    <3>2. [start EXCEPT !.timeouts = @ - 1] = [start EXCEPT !.timeouts = start.timeouts - 1]
      OBVIOUS
    <3> QED
      BY <2>8, <3>1, <3>2, TimeoutsSound
  <2>12. m.timeouts > 0 \/ m.timeouts = 0
    BY <1>1
  <2> HIDE DEF n, new
  <2>13. CASE slow
    BY <2>3, <2>10, <2>13 DEF n
  <2>14. CASE ~slow /\ ~enough
    BY <2>3, <2>7, <2>14 DEF n
  <2>15. CASE ~slow /\ enough /\ m.timeouts > 0
    BY <2>3, <2>11, <2>15 DEF n
  <2>16. CASE ~slow /\ enough /\ m.timeouts = 0
    BY <2>3, <2>8, <2>9, <2>16 DEF n
  <2> QED
    BY <2>12, <2>13, <2>14, <2>15, <2>16
<1> QED
  BY <1>3, <1>4, <1>5

\* A request of a task ends.
LEMMA OneFinishedSound ==
  ASSUME NEW m, Sound(m, 0), NEW r \in m.sent
  PROVE  Sound(Finish(m, {r}), 0) /\ Finish(m, {r}).task = m.task
<1>1. PICK R \in SUBSET m.sent : R = {r}
  OBVIOUS
<1>2. Sound(Finish(m, R), 0) /\ Finish(m, R).task = m.task
  BY FinishSound
<1> QED
  BY <1>1, <1>2

\* A request is done.
LEMMA SucceedSound ==
  ASSUME NEW m, Sound(m, 0), NEW r \in m.sent, NEW slow \in BOOLEAN, NEW waited \in BOOLEAN
  PROVE  Sound(Succeed(m, r, slow, waited), 0)
<1>1. r \in Requests
  BY DEF Sound, Typed, Managers
<1> QED
  BY <1>1, OneFinishedSound, RequestSucceededSound DEF Succeed

\* The record of a task is one of the records.
LEMMA TaskIs ==
  ASSUME NEW m, NEW b, Sound(m, b), NEW t \in Tasks
  PROVE  m \in Managers /\ m.task \in [Tasks -> TaskStates] /\ m.task[t] \in TaskStates
BY DEF Sound, Typed, Managers

\* The loader is destroyed.
LEMMA EndSound ==
  ASSUME NEW m, Sound(m, 0), NEW t \in Tasks,
         NEW how \in {"done", "failed", "cancelled", "gone"}
  PROVE  Sound(End(m, t, how), 0)
<1> DEFINE C == CancelRequests(m, t, SentOf(m, t))
           y == [NoTask EXCEPT !.state = how, !.loaded = m.task[t].loaded]
<1>1. SentOf(m, t) \in SUBSET m.sent
  BY DEF SentOf
<1>2. Sound(C, 0)
  BY <1>1, CancelRequestsSound
<1>3. y \in TaskStates
  <2>1. m.task[t].loaded \in SUBSET Nat
    BY TaskIs DEF TaskStates
  <2> QED
    BY <2>1, NoTaskIs
<1>4. End(m, t, how) = Dequeue(Put(C, t, y), t)
  BY DEF End, Put
<1> HIDE DEF C, y
<1>5. Sound(Put(C, t, y), 0)
  BY <1>2, <1>3, PutSound
<1> QED
  BY <1>4, <1>5, DequeueSound

\* A part has failed.
LEMMA CancelOnFailSound ==
  ASSUME NEW m, Sound(m, 0), NEW t \in Tasks
  PROVE  Sound(CancelOnFail(m, t), 0)
<1>1. CASE t \in Files
  <2>1. CancelOnFail(m, t) = End(m, t, "failed")
    BY <1>1 DEF CancelOnFail
  <2> QED
    BY <2>1, EndSound
<1>2. CASE t \notin Files
  <2> DEFINE x == m.task[t]
             y == [x EXCEPT !.state = "failed", !.waits = {}]
  <2>1. x \in TaskStates /\ m \in Managers /\ m.task \in [Tasks -> TaskStates]
    BY TaskIs
  <2>2. CancelOnFail(m, t) = Put(m, t, y)
    <3>1. [[m EXCEPT !.task[t].state = "failed"] EXCEPT !.task[t].waits = {}]
            = [m EXCEPT !.task[t] = y]
      BY <2>1 DEF Managers, TaskStates
    <3> QED
      BY <1>2, <3>1 DEF CancelOnFail, Put
  <2> HIDE DEF x
  <2>3. y \in TaskStates
    BY <2>1 DEF TaskStates
  <2> QED
    BY <2>2, <2>3, PutSound
<1> QED
  BY <1>1, <1>2

\* Parts are fed.
LEMMA FeedPartsSound ==
  ASSUME NEW m, Sound(m, 0), NEW t \in Tasks, NEW F \in SUBSET Nat
  PROVE  Sound(FeedParts(m, t, F), 0)
<1> DEFINE x == m.task[t]
           y == IF t \in Files THEN [x EXCEPT !.loaded = @ \cup F] ELSE [x EXCEPT !.waits = @ \ F]
           n == Put(m, t, y)
<1>1. x \in TaskStates /\ m \in Managers /\ m.task \in [Tasks -> TaskStates]
  BY TaskIs
<1>2. /\ [m EXCEPT !.task[t].loaded = @ \cup F] = Put(m, t, [x EXCEPT !.loaded = @ \cup F])
      /\ [m EXCEPT !.task[t].waits = @ \ F] = Put(m, t, [x EXCEPT !.waits = @ \ F])
  BY <1>1 DEF Put, Managers
<1>3. FeedParts(m, t, F) \in {n, End(n, t, "done")}
  BY <1>2 DEF FeedParts
<1> HIDE DEF x
<1>4. y \in TaskStates
  <2>1. [x EXCEPT !.loaded = @ \cup F] \in TaskStates
    BY <1>1 DEF TaskStates
  <2>2. [x EXCEPT !.waits = @ \ F] \in TaskStates
    BY <1>1 DEF TaskStates
  <2> QED
    BY <2>1, <2>2
<1> HIDE DEF y
<1>5. Sound(n, 0)
  BY <1>4, PutSound
<1> HIDE DEF n
<1>6. Sound(End(n, t, "done"), 0)
  BY <1>5, EndSound
<1> QED
  BY <1>3, <1>5, <1>6

\* The requests of a task are made again.
LEMMA MakeRequestsSound ==
  ASSUME NEW m, Sound(m, 0), NEW t \in Tasks, NEW R \in SUBSET Requests, IsFiniteSet(R)
  PROVE  Sound(MakeRequests(m, t, R), 0)
<1> DEFINE V == [m : Managers, left : SUBSET R]
           OK(v) == v \in V /\ Sound(v.m, 0)
           P == { v \in V : OK(v) }
           make(v, r) == [m |-> MakeRequest(v.m, t, r.offset, r.session), left |-> v.left \ {r}]
<1>1. OK([m |-> m, left |-> R])
  BY DEF Sound, Typed
<1>2. ASSUME NEW v, OK(v), NEW r \in v.left
      PROVE  OK(make(v, r))
  <2> DEFINE w == MakeRequest(v.m, t, r.offset, r.session)
  <2>1. r \in Requests
    BY <1>2
  <2>2. r.offset \in Nat /\ r.session \in Positive
    BY <2>1 DEF Requests, AnyRequests
  <2>3. Sound(w, 0)
    BY <1>2, <2>2, MakeRequestSound
  <2>4. w \in Managers
    BY <2>3 DEF Sound, Typed
  <2>5. make(v, r).m = w /\ make(v, r) \in V
    BY <1>2, <2>4
  <2> HIDE DEF make, w
  <2> QED
    BY <2>3, <2>5
<1>3. \A v : v \in P <=> OK(v)
  OBVIOUS
<1>4. P \in SUBSET V
  OBVIOUS
<1>s. MakesIn(P, m, t, R)
  <2> HIDE DEF OK, P
  <2> QED
    BY <1>1, <1>2, <1>3, <1>4 DEF MakesIn
<1> HIDE DEF OK, P
<1>m. MadeIn(P, MakeRequests(m, t, R))
  BY <1>s, MakeRequestsLoop
<1>5. \E v \in P : v.left = {} /\ MakeRequests(m, t, R) = v.m
  BY <1>m DEF MadeIn
<1> QED
  BY <1>3, <1>5 DEF OK

\* A task moves to a CDN, or back.
LEMMA ChangeCdnSound ==
  ASSUME NEW m, Sound(m, 0), NEW r \in Requests, NEW on \in BOOLEAN
  PROVE  Sound(ChangeCdn(m, r, on), 0)
<1> DEFINE t == r.task
           o == r.offset
           mine == SentOf(m, t)
           F == Finish(m, mine)
           x == m.task[t]
           c == x.lostRef \/ LostAny(m, t)
           e == x.astray \/ Strays(m, t, on)
           y == [x EXCEPT !.cdn = on, !.lostRef = c, !.astray = e]
           away == Put(F, t, y)
<1>1. t \in Tasks /\ o \in Nat /\ r.session \in Positive
  BY DEF Requests, AnyRequests
<1>2. /\ x \in TaskStates /\ mine \in SUBSET Requests /\ IsFiniteSet(mine)
      /\ mine \in SUBSET m.sent
  BY <1>1, SentOfIs DEF Sound
<1>3. Sound(F, 0) /\ F.task = m.task
  BY <1>2, FinishSound
<1>4. F \in Managers /\ F.task[t] = x /\ F.task \in [Tasks -> TaskStates]
  <2> HIDE DEF F
  <2> QED
    BY <1>1, <1>3, TaskIs
<1>5. ChangeCdn(m, r, on) = MakeRequest(MakeRequests(away, t, mine), t, o, r.session)
  <2>1. LostAny(m, t) \in BOOLEAN /\ Strays(m, t, on) \in BOOLEAN
    BY Zenon DEF LostAny, Strays
  <2>2. ChangeCdn(m, r, on) = MakeRequest(MakeRequests(
          Moved(F, t, on, LostAny(m, t), Strays(m, t, on)), t, mine), t, o, r.session)
    BY Zenon DEF ChangeCdn, Moved, LostAny, Strays
  <2> HIDE DEF F, x, mine
  <2>3. F.task[t] = x
    BY <1>4
  <2>4. y = MovedState(x, on, LostAny(m, t), Strays(m, t, on))
    BY Zenon DEF MovedState
  <2> HIDE DEF y
  <2>5. Moved(F, t, on, LostAny(m, t), Strays(m, t, on)) = away
    BY <1>1, <1>4, <2>1, <2>3, <2>4, MovedIs
  <2> HIDE DEF away
  <2> QED
    BY <2>2, <2>5
<1>6. c \in BOOLEAN /\ e \in BOOLEAN
  OBVIOUS
<1> HIDE DEF F, c, e, x, t, o
<1>7. y \in TaskStates
  BY <1>2, <1>6 DEF TaskStates
<1> HIDE DEF y
<1>8. Sound(away, 0)
  BY <1>1, <1>3, <1>7, PutSound
<1> HIDE DEF away, mine
<1>9. Sound(MakeRequests(away, t, mine), 0)
  BY <1>1, <1>2, <1>8, MakeRequestsSound
<1> QED
  BY <1>1, <1>5, <1>9, MakeRequestSound

\* setPriority().
LEMMA SetPrioritySound ==
  ASSUME NEW m, Sound(m, 0), NEW s \in Tasks, NEW p \in {0, 1}
  PROVE  Sound(SetPriority(m, s, p), 0)
<1> DEFINE x == m.task[s]
           y == [x EXCEPT !.priority = p]
           n == Put(m, s, y)
<1>1. x \in TaskStates
  BY TaskIs
<1>2. SetPriority(m, s, p) \in {n, Enqueue(n, s, p)}
  BY DEF SetPriority, Put
<1> HIDE DEF x
<1>3. y \in TaskStates
  BY <1>1 DEF TaskStates
<1> HIDE DEF y
<1>4. Sound(n, 0)
  BY <1>3, PutSound
<1> HIDE DEF n
<1>5. Sound(Enqueue(n, s, p), 0)
  BY <1>4, EnqueueSound
<1> QED
  BY <1>2, <1>4, <1>5

\* Hashes come to a task.
LEMMA AddHashesSound ==
  ASSUME NEW m, Sound(m, 0), NEW t \in Tasks, NEW N \in SUBSET Nat
  PROVE  Sound(AddHashes(m, t, N), 0)
<1> DEFINE x == m.task[t]
           L == x.hashes \cup N
           y == [x EXCEPT !.hashes = L]
<1>1. x \in TaskStates
  BY TaskIs
<1>2. AddHashes(m, t, N) = Put(m, t, y)
  BY DEF AddHashes, Put
<1> HIDE DEF x
<1>3. y \in TaskStates
  BY <1>1 DEF TaskStates
<1> HIDE DEF y
<1> QED
  BY <1>2, <1>3, PutSound

\* A part waits for its hash.
LEMMA KeptUncheckedSound ==
  ASSUME NEW m, Sound(m, 0), NEW t \in Tasks, NEW o \in Nat, NEW s \in Positive
  PROVE  Sound(WithUnchecked(m, t, o, s), 0)
<1> DEFINE x == m.task[t]
           more == [p \in DOMAIN x.unchecked \cup {o} |->
                      IF p \in DOMAIN x.unchecked THEN x.unchecked[p] ELSE s]
           y == [x EXCEPT !.unchecked = more]
<1>1. x \in TaskStates
  BY TaskIs
<1>2. WithUnchecked(m, t, o, s) = Put(m, t, y)
  BY DEF Put, WithUnchecked
<1> HIDE DEF x
<1>3. more \in UNION { [D -> Positive] : D \in SUBSET Nat }
  <2>1. DOMAIN x.unchecked \in SUBSET Nat /\ x.unchecked \in [DOMAIN x.unchecked -> Positive]
    BY <1>1, UncheckedAre
  <2>2. more \in [DOMAIN x.unchecked \cup {o} -> Positive]
    BY <2>1
  <2> QED
    BY <2>1, <2>2
<1> HIDE DEF more
<1>4. y \in TaskStates
  BY <1>1, <1>3 DEF TaskStates
<1> HIDE DEF y
<1> QED
  BY <1>2, <1>4, PutSound

\* A request is marked: it is counted as before.
LEMMA MarkedSound ==
  ASSUME NEW m, Sound(m, 0), NEW r \in m.sent,
         NEW at \in {"reference", "failed"}, at = "reference" => r.kind = "part"
  PROVE  Sound(Marked(m, r, at), 0)
<1> DEFINE q == [r EXCEPT !.at = at]
           R == (m.sent \ {r}) \cup {q}
           n == Marked(m, r, at)
           f == [p \in m.sent |-> IF p = r THEN q ELSE p]
<1>1. m \in Managers /\ m.sent \in SUBSET Requests /\ IsFiniteSet(m.sent) /\ m.sessions # <<>>
  BY DEF Sound, Typed, Managers
<1>2. q \in Requests /\ q.task = r.task /\ q.session = r.session /\ q.offset = r.offset
  BY <1>1 DEF Requests, AnyRequests
<1> HIDE DEF q
<1>3. R \in SUBSET Requests /\ IsFiniteSet(R)
  <2>1. IsFiniteSet(m.sent \ {r}) /\ IsFiniteSet({q})
    BY <1>1, FS_Subset, FS_Singleton
  <2> QED
    BY <1>1, <1>2, <2>1, FS_Union
<1>4. n = [m EXCEPT !.sent = R]
  BY DEF Marked, q
<1>5. Renames(f, m.sent, R)
  BY <1>2 DEF Renames
<1> HIDE DEF R, n, f
<1>6. /\ Typed(n) /\ n.sent = R /\ n.sessions = m.sessions /\ n.total = m.total
      /\ n.kill = m.kill /\ n.broken = m.broken
  BY <1>1, <1>3, <1>4 DEF Typed, Managers
<1>7. ASSUME n.broken = {}
      PROVE  Sums(n, 0)
  <2>1. Sums(m, 0)
    BY <1>6, <1>7 DEF Sound, Tally
  <2>2. Single(m.sent)
    BY <2>1 DEF Sums, Single
  <2>3. /\ Single(R) /\ Cardinality(R) = Cardinality(m.sent)
        /\ \A k : Cardinality(CountedBy(R, k)) = Cardinality(CountedBy(m.sent, k))
    BY <1>1, <1>5, <2>2, RenamedCounts
  <2>4. \A w \in R : w.session \in DOMAIN m.sessions
    BY <1>5, <2>1 DEF Sums, Renames
  <2>5. m.kill => R = {}
    BY <1>5, <2>1 DEF Sums, Renames
  <2>6. \A p, w \in R : p.task = w.task /\ p.offset = w.offset => p = w
    BY <2>3 DEF Single
  <2>7. \A k \in DOMAIN m.sessions : m.sessions[k].requested =
          Cardinality(CountedBy(R, k)) + (IF k = 0 THEN Much ELSE 0)
    BY <2>1, <2>3 DEF Sums
  <2> QED
    BY <1>6, <2>1, <2>3, <2>4, <2>5, <2>6, <2>7 DEF Sums
<1> QED
  BY <1>6, <1>7 DEF Sound, Tally, n

\* What a request of a task is.
LEMMA RequestOf ==
  ASSUME NEW m, NEW b, Sound(m, b), NEW t \in Tasks, NEW r \in SentOf(m, t)
  PROVE  /\ r \in m.sent /\ r.task = t /\ r \in Requests
         /\ r.offset \in Nat /\ r.session \in Positive
<1>1. r \in m.sent /\ r.task = t /\ r \in Requests
  BY DEF SentOf, Sound, Typed, Managers
<1> QED
  BY <1>1 DEF Requests, AnyRequests

\* A file is started.
LEMMA StartSound ==
  ASSUME Sound(d, 0), NEW f \in Files, NEW have \in Offsets(f), Start(f, have)
  PROVE  Sound(d', 0)
<1> DEFINE x == d.task[f]
           L == 0 .. (have - 1)
           y == [x EXCEPT !.state = "on", !.next = have, !.loaded = L]
<1>1. f \in Tasks /\ have \in Nat /\ L \in SUBSET Nat
  BY TasksAre
<1>2. x \in TaskStates
  BY <1>1, TaskIs
<1>3. d' = Enqueue(Put(d, f, y), f, 0)
  BY DEF Start, Put
<1> HIDE DEF x, L
<1>4. y \in TaskStates
  BY <1>1, <1>2 DEF TaskStates
<1> HIDE DEF y
<1>5. Sound(Put(d, f, y), 0)
  BY <1>1, <1>4, PutSound
<1> QED
  BY <1>1, <1>3, <1>5, EnqueueSound

\* A file is asked for again, cancelled; a stream is destroyed or leaves the queue.
LEMMA TaskMovesSound ==
  ASSUME Sound(d, 0)
  PROVE  /\ \A f \in Files : StartAgain(f) \/ Cancel(f) => Sound(d', 0)
         /\ \A s \in Streams : Leave(s) \/ Destroy(s) => Sound(d', 0)
<1>1. \A f \in Files : f \in Tasks
  BY TasksAre
<1>2. \A s \in Streams : s \in Tasks
  BY TasksAre
<1>3. ASSUME NEW f \in Files, StartAgain(f)
      PROVE  Sound(d', 0)
  BY <1>1, <1>3, EnqueueSound DEF StartAgain
<1>4. ASSUME NEW f \in Files, Cancel(f)
      PROVE  Sound(d', 0)
  BY <1>1, <1>4, EndSound DEF Cancel
<1>5. ASSUME NEW s \in Streams, Leave(s)
      PROVE  Sound(d', 0)
  BY <1>5, DequeueSound DEF Leave
<1>6. ASSUME NEW s \in Streams, Destroy(s)
      PROVE  Sound(d', 0)
  BY <1>2, <1>6, EndSound DEF Destroy
<1> QED
  BY <1>3, <1>4, <1>5, <1>6

\* The player of a stream stops.
LEMMA StopStreamingSound ==
  ASSUME Sound(d, 0), NEW s \in Streams, StopStreaming(s)
  PROVE  Sound(d', 0)
<1> DEFINE x == d.task[s]
           y == [x EXCEPT !.waits = {}]
           n == Put(d, s, y)
<1>1. s \in Tasks
  BY TasksAre
<1>2. x \in TaskStates
  BY <1>1, TaskIs
<1>3. d' = SetPriority(n, s, 0)
  BY DEF StopStreaming, Put
<1> HIDE DEF x
<1>4. y \in TaskStates
  BY <1>2 DEF TaskStates
<1> HIDE DEF y
<1>5. Sound(n, 0)
  BY <1>1, <1>4, PutSound
<1> HIDE DEF n
<1> QED
  BY <1>1, <1>3, <1>5, SetPrioritySound

\* The player asks for a part.
LEMMA LoadSound ==
  ASSUME Sound(d, 0), NEW s \in Streams, NEW o \in Offsets(s), NEW first \in BOOLEAN,
         Load(s, o, first)
  PROVE  Sound(d', 0)
<1> DEFINE x == d.task[s]
           lower == IF first THEN { <<w[1] - 1, w[2]>> : w \in x.wanted } ELSE x.wanted
           W == x.waits \cup {o}
           y == [x EXCEPT !.waits = W, !.wanted = lower]
           n == Put(d, s, y)
           m == SetPriority(n, s, 1)
           z == m.task[s]
           more == { w \in z.wanted : w[2] # o } \cup {<<0, o>>}
           v == [z EXCEPT !.wanted = more]
           added == Put(m, s, v)
<1>1. s \in Tasks /\ o \in Nat
  BY TasksAre
<1>2. x \in TaskStates /\ d.task \in [Tasks -> TaskStates] /\ d \in Managers
  BY <1>1, TaskIs
<1>3. d' = IF HaveSentFor(m, s, o) \/ <<0, o>> \in z.wanted THEN m ELSE Enqueue(added, s, 1)
  <2> DEFINE n0 == [d EXCEPT !.task[s].waits = @ \cup {o}, !.task[s].wanted = lower]
  <2>1. n0 = n
    <3> HIDE DEF lower
    <3>1. n0 = [[d EXCEPT !.task[s].waits = x.waits \cup {o}] EXCEPT !.task[s].wanted = lower]
      OBVIOUS
    <3> HIDE DEF W, n0
    <3>2. [[d EXCEPT !.task[s].waits = W] EXCEPT !.task[s].wanted = lower] = n
      BY <1>1, <1>2 DEF Managers, TaskStates, Put
    <3> QED
      BY <3>1, <3>2 DEF W
  <2>2. d' = IF HaveSentFor(SetPriority(n0, s, 1), s, o) \/ <<0, o>> \in SetPriority(n0, s, 1).task[s].wanted
             THEN SetPriority(n0, s, 1)
             ELSE Enqueue([SetPriority(n0, s, 1) EXCEPT !.task[s].wanted = { w \in @ : w[2] # o } \cup {<<0, o>>}], s, 1)
    BY Zenon DEF Load
  <2> HIDE DEF n, n0
  <2> QED
    BY <2>1, <2>2 DEF Put
<1>4. x.wanted \in SUBSET ({ l \in Int : l <= 0 } \X Nat) /\ W \in SUBSET Nat
  <2> HIDE DEF x
  <2>1. x.wanted \in SUBSET ({ l \in Int : l <= 0 } \X Nat) /\ x.waits \in SUBSET Nat
    BY <1>2 DEF TaskStates
  <2> QED
    BY <1>1, <2>1
<1>5. lower \in SUBSET ({ l \in Int : l <= 0 } \X Nat)
  <2>1. PICK L : L = Lower(x.wanted)
    OBVIOUS
  <2>2. L \in SUBSET ({ l \in Int : l <= 0 } \X Nat)
    BY <1>4, <2>1, LowerIs DEF Lowered
  <2>3. lower = L \/ lower = x.wanted
    BY <2>1 DEF Lower
  <2> HIDE DEF lower
  <2> QED
    BY <1>4, <2>2, <2>3
<1> HIDE DEF lower, x, W
<1>6. y \in TaskStates
  BY <1>2, <1>4, <1>5 DEF TaskStates
<1> HIDE DEF y
<1>7. Sound(n, 0)
  BY <1>1, <1>6, PutSound
<1> HIDE DEF n
<1>8. Sound(m, 0)
  BY <1>1, <1>7, SetPrioritySound
<1> HIDE DEF m
<1>9. z \in TaskStates
  BY <1>1, <1>8, TaskIs
<1> HIDE DEF z
<1>10. more \in SUBSET ({ l \in Int : l <= 0 } \X Nat)
  <2>1. <<0, o>> \in { l \in Int : l <= 0 } \X Nat
    BY <1>1
  <2>2. z.wanted \in SUBSET ({ l \in Int : l <= 0 } \X Nat)
    BY <1>9 DEF TaskStates
  <2> QED
    BY <2>1, <2>2
<1> HIDE DEF more
<1>11. v \in TaskStates
  BY <1>9, <1>10 DEF TaskStates
<1> HIDE DEF v
<1>12. Sound(added, 0)
  BY <1>1, <1>8, <1>11, PutSound
<1> HIDE DEF added
<1>13. Sound(Enqueue(added, s, 1), 0)
  BY <1>1, <1>12, EnqueueSound
<1> QED
  BY <1>3, <1>8, <1>13

\* The player does not wait for a part any more.
LEMMA CancelLoadSound ==
  ASSUME Sound(d, 0), NEW s \in Streams, NEW o \in Offsets(s), CancelLoad(s, o)
  PROVE  Sound(d', 0)
<1> DEFINE x == d.task[s]
           W == x.waits \ {o}
           y == [x EXCEPT !.waits = W]
           m == Put(d, s, y)
           less == { w \in m.task[s].wanted : w[2] # o }
           v == [m.task[s] EXCEPT !.wanted = less]
           R == { r \in SentOf(m, s) : r.offset = o }
           n == CancelRequests(m, s, R)
           z == n.task[s]
           rest == [p \in DOMAIN z.unchecked \ {o} |-> z.unchecked[p]]
           u == [z EXCEPT !.unchecked = rest]
           cut == Put(n, s, u)
<1>1. s \in Tasks
  BY TasksAre
<1>2. x \in TaskStates
  BY <1>1, TaskIs
<1>3. d' = Put(m, s, v) \/ d' = Enqueue(cut, s, 1) \/ d' = [cut EXCEPT !.idle = TRUE]
  <2> DEFINE n0 == [d EXCEPT !.task[s].waits = @ \ {o}]
             none == [n0 EXCEPT !.task[s].wanted = { w \in @ : w[2] # o }]
             over == [CancelRequests(n0, s, { r \in SentOf(n0, s) : r.offset = o })
                        EXCEPT !.task[s].unchecked = [p \in DOMAIN @ \ {o} |-> @[p]]]
  <2>1. n0 = m
    BY DEF Put
  <2>2. \/ d' = none \/ d' = Enqueue(over, s, 1) \/ d' = [over EXCEPT !.idle = TRUE]
    BY Zenon DEF CancelLoad
  <2> HIDE DEF m, n0
  <2>3. none = Put(m, s, v)
    BY <2>1 DEF Put
  <2>4. over = cut
    BY <2>1 DEF Put
  <2> HIDE DEF none, over, cut, v
  <2> QED
    BY <2>2, <2>3, <2>4
<1> HIDE DEF x
<1>4. W \in SUBSET Nat
  BY <1>2 DEF TaskStates
<1> HIDE DEF W
<1>5. y \in TaskStates
  BY <1>2, <1>4 DEF TaskStates
<1> HIDE DEF y
<1>6. Sound(m, 0) /\ m.task[s] \in TaskStates
  BY <1>1, <1>5, PutSound
<1> HIDE DEF m
<1>7. Sound(Put(m, s, v), 0)
  <2>1. PICK c : c = m.task[s]
    OBVIOUS
  <2>2. less \in SUBSET ({ l \in Int : l <= 0 } \X Nat)
    BY <1>6 DEF TaskStates
  <2> HIDE DEF less
  <2>3. v \in TaskStates
    BY <1>6, <2>1, <2>2 DEF TaskStates
  <2> HIDE DEF v
  <2> QED
    BY <1>1, <1>6, <2>3, PutSound
<1>8. R \in SUBSET m.sent
  BY DEF SentOf
<1> HIDE DEF R
<1>9. Sound(n, 0)
  BY <1>1, <1>6, <1>8, CancelRequestsSound
<1> HIDE DEF n
<1>10. z \in TaskStates
  BY <1>1, <1>9, TaskIs
<1> HIDE DEF z
<1>11. rest \in UNION { [D -> Positive] : D \in SUBSET Nat }
  <2>1. DOMAIN z.unchecked \in SUBSET Nat /\ z.unchecked \in [DOMAIN z.unchecked -> Positive]
    BY <1>10, UncheckedAre
  <2>2. DOMAIN z.unchecked \ {o} \in SUBSET Nat
    BY <2>1
  <2>3. rest \in [DOMAIN z.unchecked \ {o} -> Positive]
    BY <2>1
  <2> HIDE DEF rest
  <2> QED
    BY <2>2, <2>3
<1> HIDE DEF rest
<1>12. u \in TaskStates
  BY <1>10, <1>11 DEF TaskStates
<1> HIDE DEF u
<1>13. Sound(cut, 0)
  BY <1>1, <1>9, <1>12, PutSound
<1> HIDE DEF cut
<1>14. Sound(Enqueue(cut, s, 1), 0) /\ Sound([cut EXCEPT !.idle = TRUE], 0)
  <2>1. 1 \in Int /\ TRUE \in BOOLEAN
    OBVIOUS
  <2>2. Sound(Enqueue(cut, s, 1), 0)
    BY <1>1, <1>13, <2>1, EnqueueSound
  <2>3. Sound([cut EXCEPT !.idle = TRUE], 0)
    BY <1>13, <2>1, IdleSound
  <2> QED
    BY <2>2, <2>3
<1> HIDE DEF v
<1> QED
  BY <1>3, <1>7, <1>14

\* A part of the data center comes.
LEMMA PartCameSound ==
  ASSUME Sound(d, 0), NEW t \in Tasks, NEW r \in SentOf(d, t), PartCame(r)
  PROVE  Sound(d', 0)
<1>1. PICK slow \in BOOLEAN, waited \in BOOLEAN :
        d' = The({ CheckSendNext(FeedParts(m, r.task, {r.offset})) :
                        m \in {Succeed(d, r, slow, waited)} })
  BY DEF PartCame, Done
<1> DEFINE m == Succeed(d, r, slow, waited)
           n == FeedParts(m, t, {r.offset})
<1>2. r.task = t /\ r \in d.sent /\ r.offset \in Nat
  BY RequestOf
<1>3. d' = CheckSendNext(n)
  <2>1. { CheckSendNext(FeedParts(v, r.task, {r.offset})) : v \in {m} } = {CheckSendNext(n)}
    BY <1>2
  <2> HIDE DEF n, m
  <2> QED
    BY <1>1, <2>1, TheIs DEF m
<1>4. Sound(m, 0)
  BY <1>2, SucceedSound
<1> HIDE DEF m
<1>5. PICK F \in SUBSET Nat : F = {r.offset}
  BY <1>2
<1>6. Sound(FeedParts(m, t, F), 0)
  BY <1>4, FeedPartsSound
<1>7. Sound(n, 0)
  BY <1>5, <1>6
<1> HIDE DEF n
<1> QED
  BY <1>3, <1>7, CheckSendNextSound

\* The data center sends the task to a CDN.
LEMMA SwitchToCdnSound ==
  ASSUME Sound(d, 0), NEW t \in Tasks, NEW r \in SentOf(d, t), NEW N \in SUBSET Nat,
         SwitchToCdn(r, N)
  PROVE  Sound(d', 0)
<1>1. PICK slow \in BOOLEAN, waited \in BOOLEAN :
        d' = The({ CheckSendNext(ChangeCdn(AddHashes(m, r.task, N), r, TRUE)) :
                        m \in {Succeed(d, r, slow, waited)} })
  BY DEF SwitchToCdn, Done
<1> DEFINE m == Succeed(d, r, slow, waited)
           a == AddHashes(m, t, N)
           n == ChangeCdn(a, r, TRUE)
<1>2. r.task = t /\ r \in d.sent /\ r \in Requests
  BY RequestOf
<1>3. d' = CheckSendNext(n)
  <2>1. { CheckSendNext(ChangeCdn(AddHashes(v, r.task, N), r, TRUE)) : v \in {m} }
        = {CheckSendNext(n)}
    BY <1>2
  <2> HIDE DEF n, m
  <2> QED
    BY <1>1, <2>1, TheIs DEF m
<1>4. Sound(m, 0)
  BY <1>2, SucceedSound
<1> HIDE DEF m
<1>5. Sound(a, 0)
  BY <1>4, AddHashesSound
<1> HIDE DEF a
<1>6. Sound(n, 0)
  BY <1>2, <1>5, ChangeCdnSound
<1> HIDE DEF n
<1> QED
  BY <1>3, <1>6, CheckSendNextSound

\* A part of the CDN comes: it is fed, or kept until its hash is there.
LEMMA CdnPartCameSound ==
  ASSUME Sound(d, 0), NEW t \in Tasks, NEW r \in SentOf(d, t), CdnPartCame(r)
  PROVE  Sound(d', 0)
<1> DEFINE kept(v) == WithUnchecked(v, t, r.offset, r.session)
           next(v) == IF r.offset \in v.task[t].hashes THEN FeedParts(v, t, {r.offset})
                      ELSE RequestMore(kept(v), t)
<1>1. /\ r.task = t /\ r \in d.sent /\ r.offset \in Nat /\ r.session \in Positive
  BY RequestOf
<1>2. PICK slow \in BOOLEAN, waited \in BOOLEAN :
        d' = The({ CheckSendNext(
             IF r.offset \in m.task[r.task].hashes THEN FeedParts(m, r.task, {r.offset})
             ELSE RequestMore(WithUnchecked(m, r.task, r.offset, r.session), r.task)) :
             m \in {Succeed(d, r, slow, waited)} })
  BY DEF CdnPartCame, Done
<1> DEFINE m == Succeed(d, r, slow, waited)
<1>3. d' = CheckSendNext(next(m))
  <2> HIDE DEF m
  <2>1. { CheckSendNext(
             IF r.offset \in v.task[r.task].hashes THEN FeedParts(v, r.task, {r.offset})
             ELSE RequestMore(WithUnchecked(v, r.task, r.offset, r.session), r.task)) :
             v \in {m} } = {CheckSendNext(next(m))}
    BY <1>1
  <2> HIDE DEF next
  <2> QED
    BY <1>2, <2>1, TheIs DEF m
<1>4. Sound(m, 0)
  BY <1>1, SucceedSound
<1> HIDE DEF m
<1>5. PICK F \in SUBSET Nat : F = {r.offset}
  BY <1>1
<1>6. Sound(FeedParts(m, t, F), 0)
  BY <1>4, FeedPartsSound
<1>7. Sound(kept(m), 0)
  BY <1>1, <1>4, KeptUncheckedSound
<1> HIDE DEF kept
<1>8. Sound(RequestMore(kept(m), t), 0)
  BY <1>7, RequestMoreSound
<1>9. Sound(next(m), 0)
  BY <1>5, <1>6, <1>8
<1> HIDE DEF next
<1> QED
  BY <1>3, <1>9, CheckSendNextSound

\* A part of the CDN that is not what its hash says ends the task.
LEMMA CdnPartWrongSound ==
  ASSUME Sound(d, 0), NEW t \in Tasks, NEW r \in SentOf(d, t), CdnPartWrong(r)
  PROVE  Sound(d', 0)
<1> DEFINE m == Succeed(d, r, FALSE, FALSE)
<1>1. r.task = t /\ r \in d.sent
  BY RequestOf
<1>2. d' = CheckSendNext(CancelOnFail(m, t))
  BY <1>1 DEF CdnPartWrong
<1>3. Sound(m, 0)
  BY <1>1, SucceedSound
<1> HIDE DEF m
<1>4. Sound(CancelOnFail(m, t), 0)
  BY <1>3, CancelOnFailSound
<1> QED
  BY <1>2, <1>4, CheckSendNextSound

\* The data center is asked to give a part to the CDN.
LEMMA ReuploadNeededSound ==
  ASSUME Sound(d, 0), NEW t \in Tasks, NEW r \in SentOf(d, t), ReuploadNeeded(r)
  PROVE  Sound(d', 0)
<1> DEFINE q == Request(t, r.offset, "reupload", r.session)
           m == Finish(d, {r})
<1>1. /\ r.task = t /\ r \in d.sent /\ r.offset \in Nat /\ r.session \in Positive
  BY RequestOf
<1>2. d' = Place(m, q)
  BY <1>1 DEF ReuploadNeeded
<1>3. q \in Requests
  BY <1>1 DEF Request, Requests, AnyRequests
<1>4. Sound(m, 0)
  BY <1>1, OneFinishedSound
<1> HIDE DEF q, m
<1> QED
  BY <1>2, <1>3, <1>4, PlaceSound

\* The CDN was given the part: it is asked for again.
LEMMA ReuploadDoneSound ==
  ASSUME Sound(d, 0), NEW t \in Tasks, NEW r \in SentOf(d, t), NEW N \in SUBSET Nat,
         ReuploadDone(r, N)
  PROVE  Sound(d', 0)
<1> DEFINE m == Finish(d, {r})
           a == AddHashes(m, t, N)
<1>1. /\ r.task = t /\ r \in d.sent /\ r.offset \in Nat /\ r.session \in Positive
  BY RequestOf
<1>2. d' = MakeRequest(a, t, r.offset, r.session)
  BY <1>1 DEF ReuploadDone
<1>3. Sound(m, 0)
  BY <1>1, OneFinishedSound
<1> HIDE DEF m
<1>4. Sound(a, 0)
  BY <1>3, AddHashesSound
<1> HIDE DEF a
<1> QED
  BY <1>1, <1>2, <1>4, MakeRequestSound

\* The CDN refuses the token.
LEMMA TokenRefusedSound ==
  ASSUME Sound(d, 0), NEW t \in Tasks, NEW r \in SentOf(d, t), TokenRefused(r)
  PROVE  Sound(d', 0)
<1>1. r \in d.sent /\ r \in Requests
  BY RequestOf
<1>2. Sound(Finish(d, {r}), 0)
  BY <1>1, OneFinishedSound
<1>3. d' = ChangeCdn(Finish(d, {r}), r, FALSE)
  BY DEF TokenRefused
<1> QED
  BY <1>1, <1>2, <1>3, ChangeCdnSound

\* A refused request is kept, and its task fails.
LEMMA KeptSound ==
  ASSUME Sound(d, 0), NEW t \in Tasks, NEW r \in SentOf(d, t)
  PROVE  Sound(Kept(r), 0)
<1>1. r.task = t /\ r \in d.sent
  BY RequestOf
<1>2. Kept(r) = CancelOnFail(Marked(d, r, "failed"), t)
  BY <1>1 DEF Kept, Marked
<1>3. Sound(Marked(d, r, "failed"), 0)
  BY <1>1, MarkedSound
<1> QED
  BY <1>2, <1>3, CancelOnFailSound

\* A part, or its reference, is refused.
LEMMA RefusedSound ==
  ASSUME Sound(d, 0), NEW t \in Tasks, NEW r \in SentOf(d, t), Refused(r) \/ ReferenceRefused(r)
  PROVE  Sound(d', 0)
<1>1. CASE Refused(r)
  BY <1>1, KeptSound DEF Refused
<1>2. CASE ReferenceRefused(r)
  <2>1. r \in d.sent
    BY RequestOf
  <2>2. r.kind = "part" /\ d' = Marked(d, r, "reference")
    BY <1>2 DEF ReferenceRefused, Marked
  <2>3. Sound(Marked(d, r, "reference"), 0)
    BY <2>1, <2>2, MarkedSound
  <2> QED
    BY <2>2, <2>3
<1> QED
  BY <1>1, <1>2

\* The new reference comes, and the part is asked for again, or there is none.
LEMMA ReferenceCameSound ==
  ASSUME Sound(d, 0), NEW t \in Tasks, NEW r \in SentOf(d, t), NEW fresh \in BOOLEAN,
         ReferenceCame(r, fresh)
  PROVE  Sound(d', 0)
<1> DEFINE m == Finish(d, {r})
<1>1. /\ r.task = t /\ r \in d.sent /\ r.offset \in Nat /\ r.session \in Positive
  BY RequestOf
<1>2. d' = MakeRequest(m, t, r.offset, r.session) \/ d' = Kept(r)
  BY <1>1 DEF ReferenceCame
<1>3. Sound(m, 0)
  BY <1>1, OneFinishedSound
<1> HIDE DEF m
<1>4. Sound(MakeRequest(m, t, r.offset, r.session), 0)
  BY <1>1, <1>3, MakeRequestSound
<1> QED
  BY <1>2, <1>4, KeptSound

\* A reference comes for a request that is gone.
LEMMA LostReferenceCameSound ==
  ASSUME Sound(d, 0), NEW t \in Tasks, NEW fresh \in BOOLEAN, LostReferenceCame(t, fresh)
  PROVE  Sound(d', 0)
<1> DEFINE x == d.task[t]
           y == [x EXCEPT !.lostRef = FALSE]
           m == Put(d, t, y)
<1>1. x \in TaskStates
  BY TaskIs
<1>2. d' = m \/ d' = CancelOnFail(m, t)
  BY DEF LostReferenceCame, Put
<1> HIDE DEF x
<1>3. y \in TaskStates
  BY <1>1 DEF TaskStates
<1> HIDE DEF y
<1>4. Sound(m, 0)
  BY <1>3, PutSound
<1> HIDE DEF m
<1> QED
  BY <1>2, <1>4, CancelOnFailSound

\* The posted requestMoreCdnFileHashes() asks for hashes.
LEMMA PostedMoreSound ==
  ASSUME Sound(d, 0), NEW t \in Tasks, PostedMore(t)
  PROVE  Sound(d', 0)
<1> DEFINE x == d.task[t]
           y == [x EXCEPT !.more = FALSE]
           m == Put(d, t, y)
<1>1. x \in TaskStates
  BY TaskIs
<1>2. d' = RequestMore(m, t)
  BY DEF PostedMore, Put
<1> HIDE DEF x
<1>3. y \in TaskStates
  BY <1>1 DEF TaskStates
<1> HIDE DEF y
<1>4. Sound(m, 0)
  BY <1>3, PutSound
<1> HIDE DEF m
<1> QED
  BY <1>2, <1>4, RequestMoreSound

\* Hashes come.
LEMMA HashesCameSound ==
  ASSUME Sound(d, 0), NEW t \in Tasks, NEW r \in SentOf(d, t), NEW N \in SUBSET Nat, NEW wrong,
         HashesCame(r, N, wrong)
  PROVE  Sound(d', 0)
<1> DEFINE f == Finish(d, {r})
           a == AddHashes(f, t, N)
           m == [a EXCEPT !.idle = TRUE]
           known == Unchecked(m, t) \cap m.task[t].hashes
           good == { o \in known : o < wrong }
           failed == wrong \in known \/ good = {}
           x == m.task[t]
           rest == [o \in DOMAIN x.unchecked \ good |-> x.unchecked[o]]
           y == [x EXCEPT !.unchecked = rest]
           checked == Put(m, t, y)
           fed == FeedParts(checked, t, good)
<1>1. r.task = t /\ r \in d.sent
  BY RequestOf
<1>2. d' = CancelOnFail(fed, t) \/ d' = RequestMore(fed, t)
  <2>1. d' = IF failed THEN CancelOnFail(fed, t) ELSE RequestMore(fed, t)
    BY <1>1 DEF HashesCame, Put
  <2> HIDE DEF failed, fed
  <2> QED
    BY <2>1
<1>3. Sound(f, 0)
  BY <1>1, OneFinishedSound
<1> HIDE DEF f
<1>4. Sound(a, 0)
  BY <1>3, AddHashesSound
<1> HIDE DEF a
<1>5. Sound(m, 0)
  BY <1>4, IdleSound
<1> HIDE DEF m
<1>6. x \in TaskStates
  BY <1>5, TaskIs
<1>7. good \subseteq DOMAIN x.unchecked
  BY DEF Unchecked
<1> HIDE DEF good, x
<1>8. DOMAIN x.unchecked \in SUBSET Nat /\ x.unchecked \in [DOMAIN x.unchecked -> Positive]
  BY <1>6, UncheckedAre
<1>9. rest \in UNION { [D -> Positive] : D \in SUBSET Nat }
  <2>1. DOMAIN x.unchecked \ good \in SUBSET Nat
    BY <1>8
  <2>2. rest \in [DOMAIN x.unchecked \ good -> Positive]
    BY <1>8
  <2> HIDE DEF rest
  <2> QED
    BY <2>1, <2>2
<1> HIDE DEF rest
<1>10. y \in TaskStates
  BY <1>6, <1>9 DEF TaskStates
<1> HIDE DEF y
<1>11. Sound(checked, 0)
  BY <1>5, <1>10, PutSound
<1> HIDE DEF checked
<1>12. Sound(fed, 0)
  <2>1. good \in SUBSET Nat
    BY <1>7, <1>8
  <2> QED
    BY <1>11, <2>1, FeedPartsSound
<1> HIDE DEF fed
<1> QED
  BY <1>2, <1>12, CancelOnFailSound, RequestMoreSound

\* A session is restarted, or a slow answer counts as a time-out.
LEMMA TimeOutSound ==
  ASSUME Sound(d, 0), NEW s, SessionRestarts(s) \/ PostedTimeOut
  PROVE  Sound(d', 0)
<1>1. CASE SessionRestarts(s)
  BY <1>1, SessionTimedOutSound DEF SessionRestarts
<1>2. CASE PostedTimeOut
  <2> DEFINE q == Tail(d.posted)
             m == [d EXCEPT !.posted = q]
  <2>1. d.posted \in Seq(Positive) /\ d.posted # <<>>
    BY <1>2 DEF Sound, Typed, Managers, PostedTimeOut
  <2>2. q \in Seq(Positive)
    BY <2>1
  <2>3. d' = SessionTimedOut(m, Head(d.posted))
    BY <1>2 DEF PostedTimeOut
  <2> HIDE DEF q
  <2>4. Sound(m, 0)
    BY <2>2, PostedSound
  <2> HIDE DEF m
  <2> QED
    BY <2>3, <2>4, SessionTimedOutSound
<1> QED
  BY <1>1, <1>2

\* The sessions are killed: nothing is asked for through any.
LEMMA KillSessionsSound ==
  ASSUME Sound(d, 0), KillSessions
  PROVE  Sound(d', 0)
<1> DEFINE q == [s \in DOMAIN d.sessions |-> NewSession]
           B == d.broken \cup (IF d.total # 0 \/ \E s \in DOMAIN d.sessions :
                                                   d.sessions[s].requested # 0
                               THEN {"killed in use"} ELSE {})
<1>1. /\ Typed(d) /\ d \in Managers /\ DOMAIN d.sessions = 1 .. Len(d.sessions)
      /\ Len(d.sessions) \in Positive /\ d.broken \in SUBSET Failures
  BY SessionsAre DEF Sound, Typed, Managers
<1>2. NewSession \in Sessions /\ NewSession.requested = 0
  BY ConstantsAre DEF NewSession, Sessions
<1>3. /\ q \in Seq(Sessions) /\ q # <<>> /\ DOMAIN q = DOMAIN d.sessions
      /\ \A s \in DOMAIN q : q[s].requested = 0
  <2>1. q = [s \in 1 .. Len(d.sessions) |-> NewSession]
    BY <1>1
  <2>2. q \in [1 .. Len(d.sessions) -> Sessions]
    BY <1>2, <2>1
  <2>3. DOMAIN q = 1 .. Len(d.sessions)
    BY <2>1
  <2>4. 1 \in DOMAIN q
    BY <1>1, <2>3 DEF Positive
  <2>5. \A s \in DOMAIN q : q[s].requested = 0
    BY <1>2
  <2> HIDE DEF q
  <2>6. q \in Seq(Sessions)
    BY <1>1, <2>2 DEF Positive
  <2> QED
    BY <1>1, <2>3, <2>4, <2>5, <2>6
<1>4. B \in SUBSET Failures
  BY <1>1 DEF Failures
<1>5. B = {} => d.broken = {} /\ d.total = 0
  OBVIOUS
<1>6. d.kill /\ d' = [d EXCEPT !.broken = B, !.kill = FALSE, !.sessions = q, !.timeouts = 0,
                               !.removes = 0, !.removeIndex = 1, !.removed = FALSE]
  BY DEF KillSessions
<1> HIDE DEF q, B
<1>7. /\ Typed(d') /\ d'.sent = d.sent /\ d'.broken = B /\ d'.sessions = q
      /\ d'.total = d.total /\ d'.kill = FALSE
  BY <1>1, <1>3, <1>4, <1>6 DEF Typed, Managers
<1>8. ASSUME B = {}
      PROVE  Sums(d', 0)
  <2>1. Sums(d, 0) /\ d.total = 0
    BY <1>5, <1>8 DEF Sound, Tally
  <2>2. d.sent = {}
    BY <1>6, <2>1 DEF Sums
  <2>3. ASSUME NEW s
        PROVE  Cardinality(CountedBy(d'.sent, s)) = 0
    <3>1. CountedBy(d'.sent, s) = {}
      BY <1>7, <2>2 DEF CountedBy
    <3> QED
      BY <3>1, FS_EmptySet
  <2>4. \A s \in DOMAIN d'.sessions : d'.sessions[s].requested = 0 /\ s # 0
    BY <1>1, <1>3, <1>7
  <2>5. \A s \in DOMAIN d'.sessions : d'.sessions[s].requested =
          Cardinality(CountedBy(d'.sent, s)) + (IF s = 0 THEN Much ELSE 0)
    BY <2>3, <2>4
  <2>6. d'.total = Cardinality(d'.sent)
    BY <1>7, <2>1, <2>2, FS_EmptySet
  <2> QED
    BY <1>7, <2>2, <2>5, <2>6 DEF Sums
<1> QED
  BY <1>7, <1>8 DEF Sound, Tally

\* resetGeneration() changes priorities only.
LEMMA ResetGenerationSound ==
  ASSUME Sound(d, 0), Fine(d), ResetGeneration
  PROVE  Sound(d', 0)
<1>1. Typed(d')
  BY ResetGenerationFine DEF Fine
<1>2. \E B, q : d' = [d EXCEPT !.broken = d.broken \cup B, !.queue = q]
  BY Zenon DEF ResetGeneration
<1>3. PICK B, q : d' = [d EXCEPT !.broken = d.broken \cup B, !.queue = q]
  BY <1>2
<1>4. /\ d'.sent = d.sent /\ d'.total = d.total /\ d'.kill = d.kill
      /\ d.broken \subseteq d'.broken /\ d'.sessions = d.sessions
  <2>1. d \in Managers
    BY DEF Sound, Typed
  <2> QED
    BY <1>3, <2>1 DEF Managers
<1> QED
  BY <1>1, <1>4, SoundAs

\* Whatever comes back to a request.
LEMMA AnswerSound ==
  ASSUME Sound(d, 0), NEW t \in Tasks, NEW o \in Offsets(t), Answer(t, o)
  PROVE  Sound(d', 0)
<1>1. PICK r \in SentOf(d, t) :
        \/ PartCame(r) \/ CdnPartCame(r) \/ CdnPartWrong(r)
        \/ \E H \in {{}, Offsets(t)} : SwitchToCdn(r, H)
        \/ \E H \in {{}, {o}, Offsets(t)}, wrong \in 0..Parts[t] : HashesCame(r, H, wrong)
        \/ ReuploadDone(r, {o}) \/ ReuploadNeeded(r)
        \/ TokenRefused(r) \/ Refused(r) \/ ReferenceRefused(r)
  BY Zenon DEF Answer
<1>2. {} \in SUBSET Nat /\ {o} \in SUBSET Nat /\ Offsets(t) \in SUBSET Nat
  BY TasksAre
<1>3. CASE PartCame(r)
  BY <1>3, PartCameSound
<1>4. CASE CdnPartCame(r)
  BY <1>4, CdnPartCameSound
<1>5. CASE CdnPartWrong(r)
  BY <1>5, CdnPartWrongSound
<1>6. CASE \E H \in {{}, Offsets(t)} : SwitchToCdn(r, H)
  <2>1. PICK H \in SUBSET Nat : SwitchToCdn(r, H)
    BY <1>2, <1>6
  <2> QED
    BY <2>1, SwitchToCdnSound
<1>7. CASE \E H \in {{}, {o}, Offsets(t)}, wrong \in 0..Parts[t] : HashesCame(r, H, wrong)
  <2>1. PICK H \in SUBSET Nat, wrong \in 0..Parts[t] : HashesCame(r, H, wrong)
    BY <1>2, <1>7
  <2> QED
    BY <2>1, HashesCameSound
<1>8. CASE ReuploadDone(r, {o})
  <2>1. PICK H \in SUBSET Nat : ReuploadDone(r, H)
    BY <1>2, <1>8
  <2> QED
    BY <2>1, ReuploadDoneSound
<1>9. CASE ReuploadNeeded(r)
  BY <1>9, ReuploadNeededSound
<1>10. CASE TokenRefused(r)
  BY <1>10, TokenRefusedSound
<1>11. CASE Refused(r) \/ ReferenceRefused(r)
  BY <1>11, RefusedSound
<1> QED
  BY <1>1, <1>3, <1>4, <1>5, <1>6, <1>7, <1>8, <1>9, <1>10, <1>11

\* Each step keeps the amounts those of the requests.
LEMMA NextSound ==
  IInv /\ Tally(d, 0) /\ [Next]_vars => Tally(d, 0)'
<1> SUFFICES ASSUME IInv, Tally(d, 0), [Next]_vars
             PROVE  Tally(d', 0)
  BY DEF Tally, Sums
<1>1. Fine(d) /\ Sound(d, 0)
  BY DEF IInv, TypeOK, Sound
<1>2. CASE Next
  <2>1. ASSUME NEW f \in Files,
               StartAgain(f) \/ Cancel(f) \/ \E have \in Offsets(f) : Start(f, have)
        PROVE  Sound(d', 0)
    BY <1>1, <2>1, TaskMovesSound, StartSound
  <2>2. ASSUME NEW s \in Streams, Player(s)
        PROVE  Sound(d', 0)
    <3>1. CASE \E o \in Offsets(s) : CancelLoad(s, o)
      BY <1>1, <3>1, CancelLoadSound
    <3>2. CASE \E o \in Offsets(s), first \in BOOLEAN : Load(s, o, first)
      BY <1>1, <3>2, LoadSound
    <3> QED
      BY <1>1, <2>2, <3>1, <3>2, StopStreamingSound, TaskMovesSound DEF Player
  <2>3. ASSUME NEW t \in Tasks, Reference(t) \/ PostedMore(t)
        PROVE  Sound(d', 0)
    <3>1. CASE Reference(t)
      <4>1. PICK fresh \in BOOLEAN :
              (\E r \in SentOf(d, t) : ReferenceCame(r, fresh)) \/ LostReferenceCame(t, fresh)
        BY <3>1 DEF Reference
      <4> QED
        BY <1>1, <4>1, ReferenceCameSound, LostReferenceCameSound
    <3> QED
      BY <1>1, <2>3, <3>1, PostedMoreSound
  <2>4. ASSUME NEW t \in Tasks, NEW o \in Offsets(t), Answer(t, o)
        PROVE  Sound(d', 0)
    BY <1>1, <2>4, AnswerSound
  <2>5. ASSUME NEW s, SessionRestarts(s)
        PROVE  Sound(d', 0)
    BY <1>1, <2>5, TimeOutSound
  <2>6. ASSUME PostedTimeOut \/ KillSessions \/ ResetGeneration
        PROVE  Sound(d', 0)
    BY <1>1, <2>6, TimeOutSound, KillSessionsSound, ResetGenerationSound
  <2>7. Sound(d', 0)
    BY <1>2, <2>1, <2>2, <2>3, <2>4, <2>5, <2>6 DEF Next
  <2> QED
    BY <2>7 DEF Sound
<1>3. CASE UNCHANGED vars
  BY <1>3 DEF vars
<1> QED
  BY <1>2, <1>3

\* At the start nothing is asked for.
LEMMA StartedEmpty ==
  Init => Tally(d, 0)
<1> SUFFICES ASSUME Init
             PROVE  Sums(d, 0)
  BY DEF Tally
<1>1. /\ d.sessions = <<NewSession>> /\ d.total = 0 /\ d.kill = FALSE /\ d.sent = {}
  BY DEF Init
<1>2. DOMAIN d.sessions = {1} /\ d.sessions[1].requested = 0
  BY <1>1 DEF NewSession
<1>3. \A s : CountedBy(d.sent, s) = {}
  BY <1>1 DEF CountedBy
<1>4. \A s \in DOMAIN d.sessions : d.sessions[s].requested =
          Cardinality(CountedBy(d.sent, s)) + (IF s = 0 THEN Much ELSE 0)
  BY <1>2, <1>3, FS_EmptySet
<1> QED
  BY <1>1, <1>4, FS_EmptySet DEF Sums

\* Amounts that are those of the requests are what AmountsRight says.
LEMMA TallyRight ==
  IInv /\ Tally(d, 0) /\ d.broken = {} => AmountsRight
<1> SUFFICES ASSUME IInv, Tally(d, 0), d.broken = {}
             PROVE  AmountsRight
  OBVIOUS
<1>1. Sums(d, 0)
  BY DEF Tally
<1>2. DOMAIN d.sessions = 1 .. Len(d.sessions) /\ Len(d.sessions) \in Positive
  BY SessionsAre DEF IInv, TypeOK
<1>3. ASSUME NEW s \in DOMAIN d.sessions
      PROVE  d.sessions[s].requested = Cardinality({ r \in d.sent : r.session = s })
  <2>1. s # 0
    BY <1>2
  <2>2. /\ d.sessions[s].requested =
             Cardinality(CountedBy(d.sent, s)) + (IF s = 0 THEN Much ELSE 0)
        /\ d.sessions[s].requested \in Int
    <3>1. d.sessions \in Seq(Sessions)
      BY DEF IInv, TypeOK, Typed, Managers
    <3>2. d.sessions[s] \in Sessions
      BY <3>1, MembersAre
    <3> QED
      BY <1>1, <3>2 DEF Sums, Sessions
  <2>3. Cardinality(CountedBy(d.sent, s)) \in Nat
    <3>1. IsFiniteSet(d.sent) /\ CountedBy(d.sent, s) \subseteq d.sent
      BY DEF IInv, TypeOK, Typed, CountedBy
    <3> QED
      BY <3>1, FS_Subset, FS_CardinalityType
  <2>4. d.sessions[s].requested = Cardinality(CountedBy(d.sent, s))
    BY <2>1, <2>2, <2>3
  <2> QED
    BY <2>4 DEF CountedBy
<1> QED
  BY <1>1, <1>3 DEF AmountsRight, Sums

\* As long as no assertion has failed, the amounts by which sessions are chosen
\* are those of the requests that are out, and no session is to be killed while
\* one is out, whatever is redirected, cancelled, made again or removed.
THEOREM AmountsHold == Spec => [](d.broken = {} => AmountsRight)
<1>1. Init => IInv /\ Tally(d, 0)
  BY Started, StartedEmpty
<1>2. (IInv /\ Tally(d, 0)) /\ [Next]_vars => (IInv /\ Tally(d, 0))'
  BY NextKeeps, NextSound
<1>3. IInv /\ Tally(d, 0) => (d.broken = {} => AmountsRight)
  BY TallyRight
<1> QED
  BY <1>1, <1>2, <1>3, PTL DEF Spec
=============================================================================
