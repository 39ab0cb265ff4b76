---------------------------- MODULE UploaderProofs ----------------------------
(***************************************************************************)
(* Theorems about Uploader.                                                *)
(***************************************************************************)
EXTENDS UploaderInvariant, WellFoundedInduction, FiniteSetTheorems, TLAPS

(***************************************************************************)
(* A set of naturals has a least element.  The sets of the elements up to  *)
(* one of them are finite and ordered by inclusion, which is well-founded; *)
(* a least one of these sets belongs to a least element.                   *)
(***************************************************************************)
LEMMA LeastExists ==
  ASSUME NEW S \in SUBSET Nat, S # {}
  PROVE  \E n \in S : \A m \in S : n <= m
<1> DEFINE D(x) == { y \in S : y <= x }
<1>1. \A x \in S : x \in Nat
  OBVIOUS
<1>2. /\ \A x \in S : D(x) \subseteq S
      /\ \A x \in S, y \in S : y \in D(x) <=> y <= x
  OBVIOUS
<1> HIDE DEF D
<1>3. ASSUME NEW x \in S
      PROVE  D(x) \in FiniteSubsetsOf(S)
  <2>1. D(x) \subseteq S /\ \A y \in D(x) : y \in Nat /\ y <= x
    BY <1>1, <1>2
  <2>2. IsFiniteSet(0 .. x)
    BY <1>1, FS_Interval
  <2>3. D(x) \subseteq 0 .. x
    BY <1>1, <2>1
  <2> QED
    BY <1>1, <2>1, <2>2, <2>3, FS_Subset DEF FiniteSubsetsOf
<1> DEFINE T == { D(x) : x \in S }
<1>4. T \subseteq FiniteSubsetsOf(S) /\ T # {}
  BY <1>3
<1>5. PICK least \in T : \A e \in T : ~(<<e, least>> \in StrictSubsetOrdering(S))
  <2> HIDE DEF T
  <2> QED
    BY <1>4, WFMin, FS_StrictSubsetOrderingWellFounded
<1>6. PICK n \in S : least = D(n)
  OBVIOUS
<1>7. ASSUME NEW m \in S, m < n
      PROVE  FALSE
  <2>1. D(m) \in T
    OBVIOUS
  <2>2. D(m) \in SUBSET S /\ D(n) \in SUBSET S
    BY <1>2
  <2>3. D(m) \subseteq D(n) /\ n \in D(n) /\ n \notin D(m)
    <3>1. m \in Nat /\ n \in Nat /\ m < n
      BY <1>1, <1>7
    <3>2. n \in D(n) /\ n \notin D(m)
      BY <3>1, <1>2
    <3>3. \A y \in S : y \in D(m) => y \in D(n)
      BY <3>1, <1>1, <1>2
    <3> QED
      BY <2>2, <3>2, <3>3
  <2>4. <<D(m), least>> \in StrictSubsetOrdering(S)
    BY <1>6, <2>2, <2>3 DEF StrictSubsetOrdering
  <2> QED
    BY <1>5, <2>1, <2>4
<1>8. \A m \in S : n <= m
  BY <1>1, <1>7
<1> QED
  BY <1>8

\* What holds of 0, and of each number up to N if it holds of the one before,
\* holds of all up to N.
LEMMA UpTo ==
  ASSUME NEW N \in Nat, NEW X, 0 \in X, \A n \in 1 .. N : n - 1 \in X => n \in X
  PROVE  0 .. N \subseteq X
<1> SUFFICES ASSUME NEW m \in 0 .. N, m \notin X
             PROVE  FALSE
  OBVIOUS
<1> DEFINE Y == { n \in 0 .. N : n \notin X }
<1>1. Y \in SUBSET Nat /\ Y # {}
  OBVIOUS
<1>2. PICK n \in Y : \A k \in Y : n <= k
  <2> HIDE DEF Y
  <2> QED
    BY <1>1, LeastExists
<1>3. n \in 1 .. N /\ n \notin X
  BY <1>2
<1>4. n - 1 \in X
  BY <1>2, <1>3
<1> QED
  BY <1>3, <1>4

-----------------------------------------------------------------------------
(* Sequences. *)

\* The members of a sequence with one more.
LEMMA AppendIs ==
  ASSUME NEW T, NEW s \in Seq(T), NEW x \in T
  PROVE  /\ Append(s, x) \in Seq(T)
         /\ ToSet(Append(s, x)) = ToSet(s) \cup {x}
         /\ Distinct(s) /\ (\A j \in DOMAIN s : Key(s[j]) # Key(x)) => Distinct(Append(s, x))
<1> DEFINE t == Append(s, x)
<1>1. /\ t \in Seq(T) /\ Len(t) = Len(s) + 1 /\ t[Len(s) + 1] = x
      /\ \A k \in 1 .. Len(s) : t[k] = s[k]
      /\ DOMAIN s = 1 .. Len(s) /\ DOMAIN t = 1 .. Len(s) + 1 /\ Len(s) \in Nat
  OBVIOUS
<1> HIDE DEF t
<1>2. ToSet(t) = ToSet(s) \cup {x}
  <2>1. \A y \in ToSet(t) : y \in ToSet(s) \cup {x}
    BY <1>1 DEF ToSet
  <2>2. \A y \in ToSet(s) \cup {x} : y \in ToSet(t)
    <3>1. Len(s) + 1 \in DOMAIN t /\ DOMAIN s \subseteq DOMAIN t
      BY <1>1
    <3>2. x \in ToSet(t)
      BY <1>1, <3>1 DEF ToSet
    <3>3. \A k \in DOMAIN s : s[k] \in ToSet(t)
      BY <1>1, <3>1 DEF ToSet
    <3> QED
      BY <3>2, <3>3 DEF ToSet
  <2> QED
    BY <2>1, <2>2
<1>3. ASSUME Distinct(s), \A j \in DOMAIN s : Key(s[j]) # Key(x)
      PROVE  Distinct(t)
  <2> SUFFICES ASSUME NEW j \in DOMAIN t, NEW k \in DOMAIN t, Key(t[j]) = Key(t[k])
               PROVE  j = k
    BY DEF Distinct
  <2>1. j \in DOMAIN s \/ j = Len(s) + 1
    BY <1>1
  <2>2. k \in DOMAIN s \/ k = Len(s) + 1
    BY <1>1
  <2> QED
    BY <1>1, <1>3, <2>1, <2>2 DEF Distinct
<1> QED
  BY <1>1, <1>2, <1>3 DEF t

\* One sequence after another.
LEMMA ConcatIs ==
  ASSUME NEW T, NEW a \in Seq(T), NEW b \in Seq(T)
  PROVE  /\ a \o b \in Seq(T) /\ Len(a \o b) = Len(a) + Len(b)
         /\ DOMAIN (a \o b) = 1 .. Len(a) + Len(b)
         /\ \A j \in 1 .. Len(a) : (a \o b)[j] = a[j]
         /\ \A j \in 1 .. Len(b) : (a \o b)[Len(a) + j] = b[j]
         /\ ToSet(a \o b) = ToSet(a) \cup ToSet(b)
<1> DEFINE c == a \o b
<1>1. c \in Seq(T) /\ Len(c) = Len(a) + Len(b) /\ Len(a) \in Nat /\ Len(b) \in Nat
  OBVIOUS
<1>2. DOMAIN a = 1 .. Len(a) /\ DOMAIN b = 1 .. Len(b) /\ DOMAIN c = 1 .. Len(a) + Len(b)
  BY <1>1
<1>3. /\ \A j \in 1 .. Len(a) : c[j] = a[j]
      /\ \A j \in 1 .. Len(b) : c[Len(a) + j] = b[j]
  OBVIOUS
<1> HIDE DEF c
<1>4. ASSUME NEW x \in ToSet(c)
      PROVE  x \in ToSet(a) \cup ToSet(b)
  <2>1. PICK j \in 1 .. Len(a) + Len(b) : x = c[j]
    BY <1>2 DEF ToSet
  <2>2. CASE j \in 1 .. Len(a)
    BY <1>2, <1>3, <2>1, <2>2 DEF ToSet
  <2>3. CASE j \notin 1 .. Len(a)
    <3>1. j - Len(a) \in 1 .. Len(b) /\ Len(a) + (j - Len(a)) = j
      BY <1>1, <2>3
    <3>2. c[j] = b[j - Len(a)]
      BY <1>3, <3>1
    <3> QED
      BY <1>2, <2>1, <3>1, <3>2 DEF ToSet
  <2> QED
    BY <2>2, <2>3
<1>5. ASSUME NEW x \in ToSet(a) \cup ToSet(b)
      PROVE  x \in ToSet(c)
  <2>1. CASE x \in ToSet(a)
    <3>1. PICK j \in 1 .. Len(a) : x = a[j]
      BY <1>2, <2>1 DEF ToSet
    <3>2. j \in DOMAIN c /\ c[j] = x
      BY <1>1, <1>2, <1>3, <3>1
    <3> QED
      BY <3>2 DEF ToSet
  <2>2. CASE x \in ToSet(b)
    <3>1. PICK j \in 1 .. Len(b) : x = b[j]
      BY <1>2, <2>2 DEF ToSet
    <3>2. Len(a) + j \in DOMAIN c /\ c[Len(a) + j] = x
      BY <1>1, <1>2, <1>3, <3>1
    <3> QED
      BY <3>2 DEF ToSet
  <2> QED
    BY <2>1, <2>2
<1> QED
  BY <1>1, <1>2, <1>3, <1>4, <1>5 DEF c

\* Without leaves out the members of S and nothing else.
LEMMA WithoutIs ==
  ASSUME NEW T, NEW s \in Seq(T), NEW S
  PROVE  /\ Without(s, S) \in Seq(T)
         /\ ToSet(Without(s, S)) = ToSet(s) \ S
         /\ Distinct(s) => Distinct(Without(s, S))
<1> DEFINE Round(g, k) == IF k = 0 THEN <<>>
                          ELSE IF s[k] \in S THEN g[k - 1] ELSE Append(g[k - 1], s[k])
           Keeps(g, n) == g = [k \in 0 .. n |-> Round(g, k)]
           keep == CHOOSE g : Keeps(g, Len(s))
           N == Len(s)
<1>1. Without(s, S) = keep[N]
  BY DEF Without
<1>2. N \in Nat /\ DOMAIN s = 1 .. N /\ \A k \in 1 .. N : s[k] \in T
  OBVIOUS
<1> HIDE DEF N
<1> DEFINE Has(n) == \E g : Keeps(g, n)
<1>3. ASSUME NEW n \in 1 .. N, Has(n - 1)
      PROVE  Has(n)
  <2>1. PICK g : Keeps(g, n - 1)
    BY <1>3
  <2> DEFINE h == [k \in 0 .. n |-> IF k = n THEN Round(g, n) ELSE g[k]]
  <2>2. \A k \in 0 .. n - 1 : g[k] = Round(g, k)
    BY <2>1
  <2>3. ASSUME NEW k \in 0 .. n
        PROVE  h[k] = Round(h, k)
    <3>1. k # 0 => h[k - 1] = g[k - 1]
      BY <1>2
    <3>2. k # n => k \in 0 .. n - 1
      BY <1>2
    <3> QED
      BY <2>2, <3>1, <3>2
  <2>4. Keeps(h, n)
    BY <2>3
  <2> QED
    BY <2>4
<1>4. Has(0)
  <2>1. \A k \in 0 .. 0 : k = 0
    OBVIOUS
  <2>2. Keeps([k \in 0 .. 0 |-> <<>>], 0)
    BY <2>1
  <2> QED
    BY <2>2
<1>5. Has(N)
  <2> HIDE DEF Has
  <2> DEFINE X == { n \in 0 .. N : Has(n) }
  <2>1. 0 .. N \subseteq X
    <3>1. 0 \in X /\ \A n \in 1 .. N : n - 1 \in X => n \in X
      BY <1>2, <1>3, <1>4
    <3> HIDE DEF X
    <3> QED
      BY <1>2, <3>1, UpTo
  <2> QED
    BY <1>2, <2>1
<1>6. Keeps(keep, N)
  <2> HIDE DEF Keeps
  <2> QED
    BY <1>5 DEF N
<1> HIDE DEF keep
<1>7. keep[0] = <<>> /\ \A k \in 1 .. N : keep[k] = Round(keep, k)
  <2>1. \A k \in 0 .. N : keep[k] = Round(keep, k)
    <3> HIDE DEF Round
    <3> QED
      BY <1>6
  <2>2. 0 \in 0 .. N /\ 1 .. N \subseteq 0 .. N
    BY <1>2
  <2> QED
    BY <2>1, <2>2
<1> DEFINE Of(k) == { s[j] : j \in 1 .. k } \ S
           Good(k) == /\ keep[k] \in Seq(T) /\ ToSet(keep[k]) = Of(k)
                      /\ Distinct(s) => Distinct(keep[k])
<1>8. ASSUME NEW n \in 1 .. N, Good(n - 1)
      PROVE  Good(n)
  <2>1. keep[n] = Round(keep, n) /\ s[n] \in T
    BY <1>2, <1>7
  <2>2. Of(n) = Of(n - 1) \cup ({s[n]} \ S)
    BY <1>2
  <2>3. ASSUME s[n] \notin S
        PROVE  Good(n)
    <3>1. keep[n] = Append(keep[n - 1], s[n])
      BY <1>2, <2>1, <2>3
    <3>2. ASSUME Distinct(s), NEW j \in DOMAIN keep[n - 1]
          PROVE  Key(keep[n - 1][j]) # Key(s[n])
      <4>1. keep[n - 1][j] \in Of(n - 1)
        BY <1>8 DEF ToSet
      <4>2. PICK i \in 1 .. n - 1 : keep[n - 1][j] = s[i]
        BY <4>1
      <4>3. i \in DOMAIN s /\ n \in DOMAIN s /\ i # n
        BY <1>2
      <4> QED
        BY <3>2, <4>2, <4>3 DEF Distinct
    <3> HIDE DEF Of
    <3> QED
      BY <1>8, <2>1, <2>2, <2>3, <3>1, <3>2, AppendIs
  <2>4. ASSUME s[n] \in S
        PROVE  Good(n)
    BY <1>2, <1>8, <2>1, <2>2, <2>4
  <2> QED
    BY <2>3, <2>4
<1>9. Good(0)
  <2>1. ToSet(<<>>) = {} /\ Of(0) = {}
    BY DEF ToSet
  <2> QED
    BY <1>7, <2>1 DEF Distinct
<1>10. Good(N)
  <2> HIDE DEF Good
  <2> DEFINE X == { n \in 0 .. N : Good(n) }
  <2>1. 0 .. N \subseteq X
    <3>1. 0 \in X /\ \A n \in 1 .. N : n - 1 \in X => n \in X
      BY <1>2, <1>8, <1>9
    <3> HIDE DEF X
    <3> QED
      BY <1>2, <3>1, UpTo
  <2> QED
    BY <1>2, <2>1
<1>11. Of(N) = ToSet(s) \ S
  BY <1>2 DEF ToSet
<1> QED
  BY <1>1, <1>10, <1>11

\* A sequence has finitely many members, each in its set.
LEMMA ToSetFinite ==
  ASSUME NEW T, NEW s \in Seq(T)
  PROVE  IsFiniteSet(ToSet(s)) /\ ToSet(s) \subseteq T
<1>1. DOMAIN s = 1 .. Len(s) /\ Len(s) \in Nat /\ \A k \in DOMAIN s : s[k] \in T
  OBVIOUS
<1>2. IsFiniteSet(DOMAIN s)
  BY <1>1, FS_Interval
<1>3. s \in Surjection(DOMAIN s, ToSet(s))
  BY <1>1 DEF Surjection, ToSet
<1> QED
  BY <1>1, <1>2, <1>3, FS_Surjection DEF ToSet

\* The keys of a sequence are those of its members.
LEMMA KeysAre ==
  ASSUME NEW s
  PROVE  Keys(s) = { Key(x) : x \in ToSet(s) }
BY DEF Keys, ToSet

\* Members of a sequence without two of the same key are told apart by their keys.
LEMMA DistinctMembers ==
  ASSUME NEW s, Distinct(s), NEW x \in ToSet(s), NEW y \in ToSet(s), Key(x) = Key(y)
  PROVE  x = y
<1>1. PICK j \in DOMAIN s : s[j] = x
  BY DEF ToSet
<1>2. PICK k \in DOMAIN s : s[k] = y
  BY DEF ToSet
<1> QED
  BY <1>1, <1>2 DEF Distinct

\* As many members as places have what a set of members has.
LEMMA CountByPlace ==
  ASSUME NEW T, NEW s \in Seq(T), Distinct(s), NEW S \in SUBSET ToSet(s)
  PROVE  Cardinality({ k \in DOMAIN s : s[k] \in S }) = Cardinality(S)
<1> DEFINE D == { k \in DOMAIN s : s[k] \in S }
           f == [k \in D |-> s[k]]
<1>1. IsFiniteSet(D)
  <2>1. IsFiniteSet(DOMAIN s)
    BY FS_Interval
  <2> QED
    BY <2>1, FS_Subset
<1>2. f \in Bijection(D, S)
  <2>1. f \in [D -> S]
    OBVIOUS
  <2>2. \A j, k \in D : f[j] = f[k] => j = k
    BY DEF Distinct
  <2>3. \A x \in S : \E k \in D : f[k] = x
    BY DEF ToSet
  <2> QED
    BY <2>1, <2>2, <2>3 DEF Bijection, Injection, Surjection, IsInjective
<1> HIDE DEF f, D
<1>3. ExistsBijection(D, S)
  BY <1>2 DEF ExistsBijection
<1> QED
  BY <1>1, <1>3, FS_Bijection DEF D

-----------------------------------------------------------------------------
(* Amounts. *)

\* The sizes of parts are numbers.
LEMMA SizesAre ==
  /\ PartSize \in Nat /\ PartSize > 0 /\ DocPartSize \in Nat /\ DocPartSize > 0
  /\ MaxSessions \in Nat /\ MaxSessions > 0 /\ MaxCalls \in Nat /\ MaxCalls > 0
BY UploaderAssumption

\* Products add up.
LEMMA Distributes ==
  \A a, b, c \in Nat : /\ a * (b + c) = a * b + a * c /\ a * b \in Nat
                        /\ a * 0 = 0 /\ a * 1 = a
OBVIOUS

\* What two sets of requests carry is what both do together.
LEMMA CarriedTogether ==
  ASSUME NEW R, NEW S, IsFiniteSet(R), IsFiniteSet(S), R \cap S = {}, NEW s
  PROVE  /\ Carried(R \cup S, s) = Carried(R, s) + Carried(S, s)
         /\ Carried(R, s) \in Nat /\ Carried(S, s) \in Nat
<1> DEFINE Of(Q, doc) == { r \in Q : r.session = s /\ r.doc = doc }
           n(Q, doc) == Cardinality(Of(Q, doc))
<1>1. ASSUME NEW doc \in BOOLEAN
      PROVE  /\ n(R \cup S, doc) = n(R, doc) + n(S, doc)
             /\ n(R, doc) \in Nat /\ n(S, doc) \in Nat
  <2>1. Of(R, doc) \in SUBSET R /\ Of(S, doc) \in SUBSET S
    OBVIOUS
  <2>2. Of(R \cup S, doc) = Of(R, doc) \cup Of(S, doc) /\ Of(R, doc) \cap Of(S, doc) = {}
    OBVIOUS
  <2> HIDE DEF Of
  <2>3. IsFiniteSet(Of(R, doc)) /\ IsFiniteSet(Of(S, doc))
    BY <2>1, FS_Subset
  <2>4. n(R, doc) \in Nat /\ n(S, doc) \in Nat
    BY <2>3, FS_CardinalityType
  <2>5. n(R \cup S, doc) = n(R, doc) + n(S, doc) - Cardinality({})
    BY <2>2, <2>3, FS_Union
  <2> QED
    BY <2>4, <2>5, FS_EmptySet
<1>2. \A Q : Carried(Q, s) = PartSize * n(Q, FALSE) + DocPartSize * n(Q, TRUE)
  BY DEF Carried
<1> HIDE DEF n
<1>3. /\ PartSize * n(R \cup S, FALSE) = PartSize * n(R, FALSE) + PartSize * n(S, FALSE)
      /\ DocPartSize * n(R \cup S, TRUE) = DocPartSize * n(R, TRUE) + DocPartSize * n(S, TRUE)
      /\ PartSize * n(R, FALSE) \in Nat /\ PartSize * n(S, FALSE) \in Nat
      /\ DocPartSize * n(R, TRUE) \in Nat /\ DocPartSize * n(S, TRUE) \in Nat
  <2>1. n(R \cup S, FALSE) = n(R, FALSE) + n(S, FALSE) /\ n(R \cup S, TRUE) = n(R, TRUE) + n(S, TRUE)
    BY <1>1
  <2>2. n(R, FALSE) \in Nat /\ n(S, FALSE) \in Nat /\ n(R, TRUE) \in Nat /\ n(S, TRUE) \in Nat
    BY <1>1
  <2>3. PICK b \in Nat, c \in Nat : b = n(R, FALSE) /\ c = n(S, FALSE)
    BY <2>2
  <2>4. PICK x \in Nat, y \in Nat : x = n(R, TRUE) /\ y = n(S, TRUE)
    BY <2>2
  <2>5. /\ PartSize * (b + c) = PartSize * b + PartSize * c
        /\ PartSize * b \in Nat /\ PartSize * c \in Nat
    BY SizesAre, Distributes
  <2>6. /\ DocPartSize * (x + y) = DocPartSize * x + DocPartSize * y
        /\ DocPartSize * x \in Nat /\ DocPartSize * y \in Nat
    BY SizesAre, Distributes
  <2> QED
    BY <2>1, <2>3, <2>4, <2>5, <2>6, Zenon
<1> DEFINE p == PartSize * n(R, FALSE)
           q == PartSize * n(S, FALSE)
           x == DocPartSize * n(R, TRUE)
           y == DocPartSize * n(S, TRUE)
<1>4. /\ Carried(R \cup S, s) = (p + q) + (x + y)
      /\ Carried(R, s) = p + x /\ Carried(S, s) = q + y
      /\ p \in Nat /\ q \in Nat /\ x \in Nat /\ y \in Nat
  BY <1>2, <1>3
<1> HIDE DEF p, q, x, y
<1> QED
  BY <1>4

\* What is left when some requests are gone.
LEMMA CarriedWithout ==
  ASSUME NEW R, IsFiniteSet(R), NEW S \in SUBSET R, NEW s
  PROVE  /\ Carried(R \ S, s) = Carried(R, s) - Carried(S, s)
         /\ Carried(R \ S, s) \in Nat /\ Carried(S, s) \in Nat /\ Carried(R, s) \in Nat
<1>1. IsFiniteSet(S) /\ IsFiniteSet(R \ S)
  BY FS_Subset
<1> DEFINE Q == R \ S
<1>2. R = Q \cup S /\ Q \cap S = {}
  OBVIOUS
<1> HIDE DEF Q
<1>3. Carried(R, s) = Carried(Q, s) + Carried(S, s) /\ Carried(Q, s) \in Nat /\ Carried(S, s) \in Nat
  BY <1>1, <1>2, CarriedTogether DEF Q
<1>4. /\ Carried(Q, s) = Carried(R, s) - Carried(S, s)
      /\ Carried(Q, s) \in Nat /\ Carried(S, s) \in Nat /\ Carried(R, s) \in Nat
  BY <1>3
<1> QED
  BY <1>4 DEF Q

\* One request carries its part, through its own session only.
LEMMA CarriedByOne ==
  ASSUME NEW r \in Requests, NEW s
  PROVE  Carried({r}, s) = IF r.session = s THEN Size(r) ELSE 0
<1> DEFINE Of(doc) == { q \in {r} : q.session = s /\ q.doc = doc }
<1>1. Carried({r}, s) = PartSize * Cardinality(Of(FALSE)) + DocPartSize * Cardinality(Of(TRUE))
  BY DEF Carried
<1>2. \A doc \in BOOLEAN : Of(doc) = IF r.session = s /\ r.doc = doc THEN {r} ELSE {}
  OBVIOUS
<1>3. r.doc \in BOOLEAN
  BY DEF Requests
<1>4. Cardinality({r}) = 1 /\ Cardinality({}) = 0
  BY FS_Singleton, FS_EmptySet
<1> HIDE DEF Of
<1>5. CASE r.session = s /\ r.doc
  <2>1. Of(FALSE) = {} /\ Of(TRUE) = {r}
    BY <1>2, <1>3, <1>5
  <2>2. Cardinality(Of(FALSE)) = 0 /\ Cardinality(Of(TRUE)) = 1
    BY <1>4, <2>1
  <2>3. Carried({r}, s) = PartSize * 0 + DocPartSize * 1
    BY <1>1, <2>2, Zenon
  <2> QED
    BY <1>5, <2>3, SizesAre DEF Size
<1>6. CASE r.session = s /\ ~r.doc
  <2>1. Of(FALSE) = {r} /\ Of(TRUE) = {}
    BY <1>2, <1>3, <1>6
  <2>2. Cardinality(Of(FALSE)) = 1 /\ Cardinality(Of(TRUE)) = 0
    BY <1>4, <2>1
  <2>3. Carried({r}, s) = PartSize * 1 + DocPartSize * 0
    BY <1>1, <2>2, Zenon
  <2> QED
    BY <1>6, <2>3, SizesAre DEF Size
<1>7. CASE r.session # s
  <2>1. Of(FALSE) = {} /\ Of(TRUE) = {}
    BY <1>2, <1>3, <1>7
  <2>2. Cardinality(Of(FALSE)) = 0 /\ Cardinality(Of(TRUE)) = 0
    BY <1>4, <2>1
  <2>3. Carried({r}, s) = PartSize * 0 + DocPartSize * 0
    BY <1>1, <2>2, Zenon
  <2> QED
    BY <1>7, <2>3, SizesAre DEF Size
<1> QED
  BY <1>5, <1>6, <1>7

\* A function over 1 .. n is a sequence.
LEMMA SequenceOver ==
  ASSUME NEW T, NEW n \in Nat, NEW f \in [1 .. n -> T]
  PROVE  f \in Seq(T) /\ Len(f) = n /\ DOMAIN f = 1 .. n
OBVIOUS

\* The fields of an uploader.
LEMMA FieldsAre ==
  ASSUME NEW u \in UploaderType
  PROVE  /\ u.queue \in Seq(Entries) /\ u.requests \in Seq(Requests) /\ u.sent \in Seq(Nat)
         /\ u.fast \in SUBSET Nat /\ u.pending \in Seq(Requests)
         /\ u.waiting \in SUBSET Videos /\ u.media \in SUBSET Covers
         /\ u.paused \in BOOLEAN /\ u.nextTimer \in BOOLEAN /\ u.stopTimer \in BOOLEAN
         /\ u.posted \in BOOLEAN /\ u.told \in [Items -> {"no", "ready", "failed"}]
BY DEF UploaderType

\* v differs from u in its requests and their amounts only.
SendsOnly(u, v) == v = [u EXCEPT !.requests = v.requests, !.sent = v.sent]

\* Requests that leave the list relieve their sessions.
LEMMA RelieveIs ==
  ASSUME NEW u \in UploaderType, AmountsOK(u), NEW R \in SUBSET ToSet(u.requests)
  PROVE  LET v == Relieve(u, R)
         IN /\ v \in UploaderType /\ AmountsOK(v)
            /\ SendsOnly(u, v)
            /\ v.requests = Without(u.requests, R)
            /\ ToSet(v.requests) = ToSet(u.requests) \ R
            /\ Distinct(u.requests) => Distinct(v.requests)
            /\ DOMAIN v.sent = DOMAIN u.sent
<1> DEFINE v == Relieve(u, R)
           q == Without(u.requests, R)
           g == [s \in DOMAIN u.sent |-> u.sent[s] - Carried(R, s)]
<1>1. v = [u EXCEPT !.requests = q, !.sent = g]
  BY DEF Relieve
<1>2. /\ q \in Seq(Requests) /\ ToSet(q) = ToSet(u.requests) \ R
      /\ Distinct(u.requests) => Distinct(q)
  BY FieldsAre, WithoutIs
<1>3. IsFiniteSet(ToSet(u.requests))
  BY FieldsAre, ToSetFinite
<1>4. \A s \in DOMAIN u.sent : g[s] = Carried(ToSet(q), s) /\ g[s] \in Nat
  <2> TAKE s \in DOMAIN u.sent
  <2>1. u.sent[s] = Carried(ToSet(u.requests), s)
    BY DEF AmountsOK
  <2>2. /\ Carried(ToSet(u.requests) \ R, s) = Carried(ToSet(u.requests), s) - Carried(R, s)
        /\ Carried(ToSet(u.requests) \ R, s) \in Nat
    BY <1>3, CarriedWithout
  <2> QED
    BY <1>2, <2>1, <2>2
<1>5. g \in Seq(Nat) /\ DOMAIN g = DOMAIN u.sent
  <2>1. DOMAIN u.sent = 1 .. Len(u.sent) /\ Len(u.sent) \in Nat
    BY FieldsAre
  <2>2. g \in [1 .. Len(u.sent) -> Nat]
    BY <1>4, <2>1
  <2> HIDE DEF g
  <2> QED
    BY <2>1, <2>2, SequenceOver
<1> HIDE DEF q, g
<1>6. /\ v.requests = q /\ v.sent = g /\ v.fast = u.fast
      /\ v \in UploaderType /\ v = [u EXCEPT !.requests = v.requests, !.sent = v.sent]
  BY <1>1, <1>2, <1>5 DEF UploaderType
<1> HIDE DEF v
<1>7. AmountsOK(v)
  BY <1>2, <1>4, <1>5, <1>6 DEF AmountsOK
<1> QED
  BY <1>2, <1>5, <1>6, <1>7 DEF v, q, SendsOnly

\* The part r is in v and was not in u.
Sent(u, v, r) ==
  \E p \in Requests :
    /\ Key(p) = Key(r) /\ p.doc = r.doc /\ p.filePart = r.filePart /\ p.no = r.no
    /\ ToSet(v.requests) = ToSet(u.requests) \cup {p}

\* A part is sent through a session.
LEMMA SendPreparedIs ==
  ASSUME NEW u \in UploaderType, AmountsOK(u), NEW s \in DOMAIN u.sent,
         NEW r \in Requests, Key(r) \notin Keys(u.requests),
         NEW v, v = SendPrepared(u, s, r)
  PROVE  /\ v \in UploaderType /\ AmountsOK(v)
         /\ SendsOnly(u, v)
         /\ Distinct(u.requests) => Distinct(v.requests)
         /\ DOMAIN v.sent = DOMAIN u.sent
         /\ Sent(u, v, r)
<1> DEFINE p == [r EXCEPT !.session = s, !.queued = u.sent[s], !.fresh = TRUE]
           q == Append(u.requests, p)
           g == [u.sent EXCEPT ![s] = @ + Size(r)]
<1>1. v = [u EXCEPT !.requests = q, !.sent = g]
  BY DEF SendPrepared, UploaderType
<1>2. u.sent \in Seq(Nat) /\ s \in Nat /\ u.sent[s] \in Nat /\ Len(u.sent) \in Nat
      /\ DOMAIN u.sent = 1 .. Len(u.sent) /\ u.requests \in Seq(Requests)
  BY FieldsAre
<1>3. /\ p \in Requests /\ p.session = s /\ Key(p) = Key(r) /\ Size(p) = Size(r)
      /\ p.doc = r.doc /\ p.filePart = r.filePart /\ p.no = r.no
  BY <1>2 DEF Requests, Key, Size
<1> HIDE DEF p
<1>4. \A x \in ToSet(u.requests) : Key(x) # Key(p)
  BY <1>3, KeysAre
<1>5. /\ q \in Seq(Requests) /\ ToSet(q) = ToSet(u.requests) \cup {p}
      /\ Distinct(u.requests) => Distinct(q)
  <2>1. \A j \in DOMAIN u.requests : Key(u.requests[j]) # Key(p)
    BY <1>4 DEF ToSet
  <2> QED
    BY <1>2, <1>3, <2>1, AppendIs
<1>6. IsFiniteSet(ToSet(u.requests)) /\ ToSet(u.requests) \cap {p} = {} /\ IsFiniteSet({p})
  BY <1>2, <1>4, ToSetFinite, FS_Singleton
<1>7. Size(r) \in Nat
  BY SizesAre DEF Size
<1>8. \A t \in DOMAIN u.sent : g[t] = Carried(ToSet(q), t) /\ g[t] \in Nat
  <2> TAKE t \in DOMAIN u.sent
  <2>1. u.sent[t] = Carried(ToSet(u.requests), t) /\ u.sent[t] \in Nat
    BY <1>2 DEF AmountsOK
  <2>2. Carried(ToSet(q), t) = Carried(ToSet(u.requests), t) + Carried({p}, t)
    BY <1>5, <1>6, CarriedTogether
  <2>3. Carried({p}, t) = IF s = t THEN Size(r) ELSE 0
    BY <1>3, CarriedByOne
  <2> QED
    BY <1>2, <1>7, <2>1, <2>2, <2>3
<1>9. g \in Seq(Nat) /\ DOMAIN g = DOMAIN u.sent
  <2>1. g \in [1 .. Len(u.sent) -> Nat]
    BY <1>2, <1>8
  <2> HIDE DEF g
  <2> QED
    BY <1>2, <2>1, SequenceOver
<1> HIDE DEF q, g
<1>10. /\ v.requests = q /\ v.sent = g /\ v.fast = u.fast
       /\ v \in UploaderType /\ v = [u EXCEPT !.requests = v.requests, !.sent = v.sent]
  BY <1>1, <1>5, <1>9 DEF UploaderType
<1>11. AmountsOK(v)
  BY <1>3, <1>5, <1>8, <1>9, <1>10 DEF AmountsOK
<1>12. Sent(u, v, r)
  BY <1>3, <1>5, <1>10 DEF Sent
<1> QED
  BY <1>5, <1>9, <1>10, <1>11, <1>12 DEF SendsOnly

-----------------------------------------------------------------------------
(* Parts that move, while their entries stay. *)

\* The keys of parts.
Parted == Items \X BOOLEAN \X Nat

\* The parts that are held are parts.
LEMMA HeldAre ==
  ASSUME NEW u \in UploaderType
  PROVE  Keys(u.requests) \subseteq Parted /\ Keys(u.pending) \subseteq Parted
         /\ Held(u) \subseteq Parted
<1>1. \A r \in Requests : Key(r) \in Parted
  BY DEF Key, Parted, Requests
<1>2. ASSUME NEW s \in Seq(Requests)
      PROVE  Keys(s) \subseteq Parted
  <2>1. \A k \in DOMAIN s : s[k] \in Requests
    OBVIOUS
  <2> QED
    BY <1>1, <2>1 DEF Keys
<1>3. Keys(u.requests) \subseteq Parted /\ Keys(u.pending) \subseteq Parted
  BY <1>2, FieldsAre
<1> QED
  BY <1>3 DEF Held

\* What is in its places stays so when the same parts are in other places.
LEMMA Unmoved ==
  ASSUME NEW u \in UploaderType, NEW sv, NEW L, UpOK(u, sv, L),
         NEW v \in UploaderType, NEW M, AmountsOK(v), PlacesOK(v, M),
         v.queue = u.queue, v.waiting = u.waiting, v.told = u.told,
         Held(v) \cup M = Held(u) \cup L,
         \A r \in ToSet(v.requests) : r.doc => r.filePart = r.no
  PROVE  UpOK(v, sv, M)
<1>1. \A i : InQueue(v, i) <=> InQueue(u, i)
  BY DEF InQueue
<1>2. QueueOK(v)
  BY <1>1 DEF UpOK, QueueOK
<1>3. EntriesOK(v, Held(v) \cup M)
  BY <1>1 DEF UpOK, EntriesOK
<1>4. DocsOK(v, sv, Held(v) \cup M)
  BY DEF UpOK, DocsOK
<1>5. DoneOK(v, sv)
  BY DEF UpOK, DoneOK
<1> QED
  BY <1>2, <1>3, <1>4, <1>5 DEF UpOK

\* The first part of a sequence, and the others.
LEMMA HeadAndTail ==
  ASSUME NEW s \in Seq(Requests), s # <<>>
  PROVE  /\ Head(s) \in Requests /\ Tail(s) \in Seq(Requests)
         /\ Keys(s) = {Key(Head(s))} \cup Keys(Tail(s))
         /\ Distinct(s) => Distinct(Tail(s)) /\ Key(Head(s)) \notin Keys(Tail(s))
<1> DEFINE t == Tail(s)
           n == Len(s)
<1>1. /\ n \in Nat /\ n > 0 /\ DOMAIN s = 1 .. n /\ DOMAIN t = 1 .. n - 1
      /\ t \in Seq(Requests) /\ Head(s) = s[1] /\ s[1] \in Requests
      /\ \A k \in 1 .. n - 1 : t[k] = s[k + 1]
  OBVIOUS
<1> HIDE DEF t, n
<1>2. Keys(s) = {Key(s[1])} \cup Keys(t)
  <2>1. \A x \in Keys(s) : x \in {Key(s[1])} \cup Keys(t)
    <3> TAKE x \in Keys(s)
    <3>1. PICK k \in 1 .. n : x = Key(s[k])
      BY <1>1 DEF Keys
    <3>2. k # 1 => k - 1 \in 1 .. n - 1 /\ t[k - 1] = s[k]
      BY <1>1
    <3> QED
      BY <1>1, <3>1, <3>2 DEF Keys
  <2>2. \A k \in 1 .. n - 1 : k + 1 \in 1 .. n /\ t[k] = s[k + 1]
    BY <1>1
  <2>3. 1 \in 1 .. n
    BY <1>1
  <2>4. \A k \in 1 .. n - 1 : Key(t[k]) \in Keys(s)
    BY <1>1, <2>2 DEF Keys
  <2>5. Key(s[1]) \in Keys(s)
    BY <1>1, <2>3 DEF Keys
  <2>6. \A x \in Keys(t) : x \in Keys(s)
    BY <1>1, <2>4 DEF Keys
  <2> QED
    BY <2>1, <2>5, <2>6
<1>3. ASSUME Distinct(s)
      PROVE  Distinct(t) /\ Key(s[1]) \notin Keys(t)
  <2>1. Distinct(t)
    <3> SUFFICES ASSUME NEW j \in 1 .. n - 1, NEW k \in 1 .. n - 1, Key(t[j]) = Key(t[k])
                 PROVE  j = k
      BY <1>1 DEF Distinct
    <3>1. j + 1 \in DOMAIN s /\ k + 1 \in DOMAIN s /\ t[j] = s[j + 1] /\ t[k] = s[k + 1]
      BY <1>1
    <3>2. j + 1 = k + 1
      BY <1>3, <3>1 DEF Distinct
    <3> QED
      BY <3>2
  <2>2. \A k \in 1 .. n - 1 : Key(t[k]) # Key(s[1])
    <3> TAKE k \in 1 .. n - 1
    <3>1. k + 1 \in DOMAIN s /\ 1 \in DOMAIN s /\ t[k] = s[k + 1] /\ k + 1 # 1
      BY <1>1
    <3> QED
      BY <1>3, <3>1 DEF Distinct
  <2> QED
    BY <1>1, <2>1, <2>2 DEF Keys
<1> QED
  BY <1>1, <1>2, <1>3 DEF t

\* What of(session) of Balanced counts, place by place, is what is carried.
LEMMA CarriedByPlace ==
  ASSUME NEW s \in Seq(Requests), Distinct(s), NEW t
  PROVE  Carried(ToSet(s), t)
           = PartSize * Cardinality({ k \in DOMAIN s : s[k].session = t /\ s[k].doc = FALSE })
             + DocPartSize * Cardinality({ k \in DOMAIN s : s[k].session = t /\ s[k].doc = TRUE })
<1> DEFINE Of(doc) == { r \in ToSet(s) : r.session = t /\ r.doc = doc }
<1>1. \A doc \in BOOLEAN : { k \in DOMAIN s : s[k] \in Of(doc) }
                             = { k \in DOMAIN s : s[k].session = t /\ s[k].doc = doc }
  BY DEF ToSet
<1>2. \A doc \in BOOLEAN : Cardinality({ k \in DOMAIN s : s[k] \in Of(doc) }) = Cardinality(Of(doc))
  <2> TAKE doc \in BOOLEAN
  <2>1. Of(doc) \in SUBSET ToSet(s)
    OBVIOUS
  <2> HIDE DEF Of
  <2> QED
    BY <2>1, CountByPlace
<1>3. Carried(ToSet(s), t) = PartSize * Cardinality(Of(FALSE)) + DocPartSize * Cardinality(Of(TRUE))
  BY DEF Carried
<1> HIDE DEF Of
<1>4. /\ Cardinality(Of(FALSE)) = Cardinality({ k \in DOMAIN s : s[k].session = t /\ s[k].doc = FALSE })
      /\ Cardinality(Of(TRUE)) = Cardinality({ k \in DOMAIN s : s[k].session = t /\ s[k].doc = TRUE })
  BY <1>1, <1>2
<1> QED
  BY <1>3, <1>4, Zenon

\* The least of numbers is one of them.
LEMMA MinIsIn ==
  ASSUME NEW S \in SUBSET Nat, S # {}
  PROVE  Min(S) \in S
<1>1. \E n \in S : \A m \in S : n <= m
  BY LeastExists
<1> QED
  BY <1>1 DEF Min

\* From u to v sessions are only added, and no video comes into the queue.
Grows(u, v) ==
  DOMAIN u.sent \subseteq DOMAIN v.sent /\ \A i \in Videos : InQueue(v, i) => InQueue(u, i)

\* A pending part is sent again.
LEMMA SendPendingKeeps ==
  ASSUME NEW u \in UploaderType, NEW sv, UpOK(u, sv, {}), u.pending # <<>>,
         NEW s \in DOMAIN u.sent
  PROVE  UpOK(SendPendingPart(u, s), sv, {}) /\ Grows(u, SendPendingPart(u, s))
<1> DEFINE a == Head(u.pending)
           r == [a EXCEPT !.filePart = PartOf(a)]
           w == [u EXCEPT !.pending = Tail(@)]
           v == SendPrepared(w, s, r)
<1>1. SendPendingPart(u, s) = v
  BY DEF SendPendingPart
<1>2. u.pending \in Seq(Requests)
  BY FieldsAre
<1>3. /\ a \in Requests /\ Tail(u.pending) \in Seq(Requests)
      /\ Keys(u.pending) = {Key(a)} \cup Keys(Tail(u.pending))
      /\ Distinct(Tail(u.pending)) /\ Key(a) \notin Keys(Tail(u.pending))
  BY <1>2, HeadAndTail DEF UpOK, PlacesOK
<1> HIDE DEF a
<1>4. /\ r \in Requests /\ Key(r) = Key(a) /\ r.doc = a.doc /\ r.no = a.no
      /\ r.doc => r.filePart = r.no
  BY <1>3 DEF Requests, Key, PartOf
<1>5. /\ w \in UploaderType /\ w.requests = u.requests /\ w.sent = u.sent /\ w.fast = u.fast
      /\ w.pending = Tail(u.pending) /\ w.queue = u.queue /\ w.waiting = u.waiting
      /\ w.told = u.told
  BY <1>3 DEF UploaderType
<1> HIDE DEF w
<1>6. AmountsOK(w)
  BY <1>5 DEF UpOK, AmountsOK
<1>7. Key(r) \notin Keys(w.requests)
  BY <1>3, <1>4, <1>5 DEF UpOK, PlacesOK
<1> HIDE DEF r
<1>8. s \in DOMAIN w.sent
  BY <1>5
<1> HIDE DEF w
<1>9. v = SendPrepared(w, s, r)
  OBVIOUS
<1> HIDE DEF v
<1>10. /\ v \in UploaderType /\ AmountsOK(v) /\ SendsOnly(w, v) /\ Sent(w, v, r)
       /\ Distinct(w.requests) => Distinct(v.requests)
       /\ DOMAIN v.sent = DOMAIN w.sent
  BY <1>4, <1>5, <1>6, <1>7, <1>8, <1>9, SendPreparedIs
<1>11. PICK p \in Requests :
        /\ Key(p) = Key(r) /\ p.doc = r.doc /\ p.filePart = r.filePart /\ p.no = r.no
        /\ ToSet(v.requests) = ToSet(w.requests) \cup {p}
  BY <1>10 DEF Sent
<1>12. /\ v.queue = u.queue /\ v.waiting = u.waiting /\ v.told = u.told
       /\ v.pending = Tail(u.pending) /\ DOMAIN v.sent = DOMAIN u.sent
  BY <1>5, <1>10 DEF UploaderType, SendsOnly
<1>13. Keys(v.requests) = Keys(u.requests) \cup {Key(a)}
  <2>1. Keys(v.requests) = { Key(x) : x \in ToSet(u.requests) \cup {p} }
    BY <1>5, <1>11, KeysAre
  <2>2. Keys(u.requests) = { Key(x) : x \in ToSet(u.requests) }
    BY KeysAre
  <2>3. Key(p) = Key(a)
    BY <1>4, <1>11
  <2> QED
    BY <2>1, <2>2, <2>3
<1>14. Held(v) = Held(u)
  BY <1>3, <1>12, <1>13 DEF Held
<1>15. PlacesOK(v, {})
  <2>1. Distinct(v.requests) /\ Distinct(v.pending)
    BY <1>3, <1>5, <1>10, <1>12 DEF UpOK, PlacesOK
  <2>2. Keys(v.requests) \cap Keys(v.pending) = {}
    BY <1>3, <1>12, <1>13 DEF UpOK, PlacesOK
  <2> QED
    BY <2>1, <2>2 DEF PlacesOK
<1>16. \A x \in ToSet(v.requests) : x.doc => x.filePart = x.no
  BY <1>4, <1>5, <1>11 DEF UpOK, DocsOK
<1>17. UpOK(v, sv, {})
  BY <1>10, <1>12, <1>14, <1>15, <1>16, Unmoved
<1> QED
  BY <1>1, <1>12, <1>17 DEF Grows, InQueue

\* A session is added; what was sent before is not fresh any more.
LEMMA AddSessionKeeps ==
  ASSUME NEW u \in UploaderType, NEW sv, UpOK(u, sv, {})
  PROVE  LET v == AddSession(u)
         IN UpOK(v, sv, {}) /\ Grows(u, v) /\ DOMAIN v.sent = 1 .. Len(u.sent) + 1
<1> DEFINE v == AddSession(u)
           s == u.requests
           q == [k \in DOMAIN s |-> [s[k] EXCEPT !.fresh = FALSE]]
           n == Len(u.sent)
           g == Append(u.sent, 0)
<1>1. /\ s \in Seq(Requests) /\ u.sent \in Seq(Nat) /\ n \in Nat /\ DOMAIN u.sent = 1 .. n
      /\ DOMAIN s = 1 .. Len(s) /\ Len(s) \in Nat /\ \A k \in DOMAIN s : s[k] \in Requests
  BY FieldsAre
<1>2. /\ g \in Seq(Nat) /\ DOMAIN g = 1 .. n + 1 /\ g[n + 1] = 0
      /\ \A t \in 1 .. n : g[t] = u.sent[t]
  BY <1>1
<1>3. \A k \in DOMAIN s : /\ q[k] \in Requests /\ Key(q[k]) = Key(s[k]) /\ q[k].no = s[k].no
                          /\ q[k].session = s[k].session /\ q[k].doc = s[k].doc
                          /\ q[k].filePart = s[k].filePart
  BY <1>1 DEF Requests, Key
<1>4. q \in Seq(Requests) /\ DOMAIN q = DOMAIN s
  <2>1. q \in [1 .. Len(s) -> Requests]
    BY <1>1, <1>3
  <2> HIDE DEF q
  <2> QED
    BY <1>1, <2>1, SequenceOver
<1>5. v = [u EXCEPT !.sent = g, !.fast = {}, !.requests = q]
  BY DEF AddSession
<1> HIDE DEF q, g
<1>6. /\ v \in UploaderType /\ v.requests = q /\ v.sent = g /\ v.fast = {}
      /\ v.queue = u.queue /\ v.waiting = u.waiting /\ v.told = u.told /\ v.pending = u.pending
  BY <1>2, <1>4, <1>5 DEF UploaderType
<1> HIDE DEF v
<1>7. Keys(q) = Keys(s)
  BY <1>3, <1>4 DEF Keys
<1>8. Distinct(s) /\ Distinct(q)
  BY <1>3, <1>4 DEF UpOK, PlacesOK, Distinct
<1>9. \A t : Carried(ToSet(q), t) = Carried(ToSet(s), t)
  <2> TAKE t
  <2>1. \A doc : { k \in DOMAIN q : q[k].session = t /\ q[k].doc = doc }
                   = { k \in DOMAIN s : s[k].session = t /\ s[k].doc = doc }
    BY <1>3, <1>4
  <2>2. /\ Carried(ToSet(q), t)
           = PartSize * Cardinality({ k \in DOMAIN q : q[k].session = t /\ q[k].doc = FALSE })
             + DocPartSize * Cardinality({ k \in DOMAIN q : q[k].session = t /\ q[k].doc = TRUE })
        /\ Carried(ToSet(s), t)
           = PartSize * Cardinality({ k \in DOMAIN s : s[k].session = t /\ s[k].doc = FALSE })
             + DocPartSize * Cardinality({ k \in DOMAIN s : s[k].session = t /\ s[k].doc = TRUE })
    BY <1>1, <1>4, <1>8, CarriedByPlace
  <2> QED
    BY <2>1, <2>2, Zenon
<1>10. Carried(ToSet(s), n + 1) = 0
  <2>1. \A r \in ToSet(s) : r.session # n + 1
    <3>1. \A r \in ToSet(s) : r.session \in 1 .. n
      BY <1>1 DEF UpOK, AmountsOK
    <3> QED
      BY <1>1, <3>1
  <2>2. \A doc : { r \in ToSet(s) : r.session = n + 1 /\ r.doc = doc } = {}
    BY <2>1
  <2>3. Carried(ToSet(s), n + 1) = PartSize * Cardinality({}) + DocPartSize * Cardinality({})
    <3> HIDE DEF s
    <3> QED
      BY <2>2, Zenon DEF Carried
  <2>4. Carried(ToSet(s), n + 1) = PartSize * 0 + DocPartSize * 0
    BY <2>3, FS_EmptySet, Zenon
  <2> QED
    BY <2>4, SizesAre, Distributes
<1>11. AmountsOK(v)
  <2>1. \A r \in ToSet(q) : r.session \in 1 .. n
    BY <1>1, <1>3, <1>4 DEF UpOK, AmountsOK, ToSet
  <2>2. \A t \in 1 .. n : g[t] = Carried(ToSet(q), t)
    BY <1>1, <1>2, <1>9 DEF UpOK, AmountsOK
  <2>3. \A t \in 1 .. n + 1 : t \in 1 .. n \/ t = n + 1
    BY <1>1
  <2> QED
    BY <1>1, <1>2, <1>6, <1>9, <1>10, <2>1, <2>2, <2>3 DEF AmountsOK
<1>12. Held(v) = Held(u)
  BY <1>6, <1>7 DEF Held
<1>13. PlacesOK(v, {})
  BY <1>6, <1>7, <1>8 DEF UpOK, PlacesOK
<1>14. \A r \in ToSet(v.requests) : r.doc => r.filePart = r.no
  <2>1. \A k \in DOMAIN s : s[k].doc => s[k].filePart = s[k].no
    BY DEF UpOK, DocsOK, ToSet
  <2> QED
    BY <1>3, <1>4, <1>6, <2>1 DEF ToSet
<1>15. UpOK(v, sv, {})
  BY <1>6, <1>11, <1>12, <1>13, <1>14, Unmoved
<1> QED
  BY <1>1, <1>2, <1>6, <1>15 DEF v, Grows, InQueue

\* One more part is one more number of its upload,
LEMMA NumbersWith ==
  ASSUME NEW H, NEW x, NEW G, G = H \cup {x}
  PROVE  Numbers(G, x[1], x[2]) = Numbers(H, x[1], x[2]) \cup {x[3]}
BY DEF Numbers

\* and nothing to the other numbers.
LEMMA NumbersOfOthers ==
  ASSUME NEW H, NEW x, NEW G, G = H \cup {x}, NEW i, NEW doc, i # x[1] \/ doc # x[2]
  PROVE  Numbers(G, i, doc) = Numbers(H, i, doc)
BY DEF Numbers

\* What is in a queue when an entry is changed, but not the item it is for.
LEMMA EntryChanged ==
  ASSUME NEW u \in UploaderType, NEW k \in DOMAIN u.queue, NEW e \in Entries,
         e.item = u.queue[k].item
  PROVE  LET w == [u EXCEPT !.queue[k] = e]
         IN /\ w \in UploaderType /\ DOMAIN w.queue = DOMAIN u.queue /\ w.queue[k] = e
            /\ \A j \in DOMAIN u.queue : j # k => w.queue[j] = u.queue[j]
            /\ \A j \in DOMAIN u.queue : w.queue[j].item = u.queue[j].item
            /\ \A i : InQueue(w, i) <=> InQueue(u, i)
            /\ w.requests = u.requests /\ w.sent = u.sent /\ w.fast = u.fast
            /\ w.pending = u.pending /\ w.waiting = u.waiting /\ w.told = u.told
<1> DEFINE w == [u EXCEPT !.queue[k] = e]
           q == [u.queue EXCEPT ![k] = e]
<1>1. u.queue \in Seq(Entries) /\ DOMAIN u.queue = 1 .. Len(u.queue) /\ Len(u.queue) \in Nat
  BY FieldsAre
<1>2. /\ DOMAIN q = DOMAIN u.queue /\ q[k] = e
      /\ \A j \in DOMAIN u.queue : j # k => q[j] = u.queue[j]
      /\ q \in Seq(Entries)
  BY <1>1
<1>3. w = [u EXCEPT !.queue = q]
  BY DEF UploaderType
<1> HIDE DEF q
<1>4. /\ w \in UploaderType /\ w.queue = q
      /\ w.requests = u.requests /\ w.sent = u.sent /\ w.fast = u.fast
      /\ w.pending = u.pending /\ w.waiting = u.waiting /\ w.told = u.told
  BY <1>2, <1>3 DEF UploaderType
<1> HIDE DEF w
<1>5. \A j \in DOMAIN u.queue : w.queue[j].item = u.queue[j].item
  BY <1>2, <1>4
<1>6. \A i : InQueue(w, i) <=> InQueue(u, i)
  BY <1>2, <1>4, <1>5 DEF InQueue
<1> QED
  BY <1>2, <1>4, <1>5, <1>6 DEF w

\* A part of an upload is sent for the first time, and its entry counts it.
LEMMA NewPartKeeps ==
  ASSUME NEW u \in UploaderType, NEW sv, UpOK(u, sv, {}), NEW k \in DOMAIN u.queue,
         NEW e \in Entries, e.item = u.queue[k].item, NEW s \in DOMAIN u.sent,
         NEW r \in Requests, r.item = e.item, r.doc => r.filePart = r.no,
         Key(r) \notin Held(u), NEW G, G = Held(u) \cup {Key(r)}, EntryOK(e, G),
         \A n \in 0 .. e.docSent - 1 :
           <<e.item, TRUE, n, n>> \in sv \/ <<e.item, TRUE, n>> \in G,
         NEW v, v = SendPrepared([u EXCEPT !.queue[k] = e], s, r)
  PROVE  UpOK(v, sv, {}) /\ Grows(u, v)
<1> DEFINE w == [u EXCEPT !.queue[k] = e]
           H == Held(u)
           x == Key(r)
<1>1. /\ w \in UploaderType /\ DOMAIN w.queue = DOMAIN u.queue /\ w.queue[k] = e
      /\ \A j \in DOMAIN u.queue : j # k => w.queue[j] = u.queue[j]
      /\ \A j \in DOMAIN u.queue : w.queue[j].item = u.queue[j].item
      /\ \A i : InQueue(w, i) <=> InQueue(u, i)
      /\ w.requests = u.requests /\ w.sent = u.sent /\ w.fast = u.fast
      /\ w.pending = u.pending /\ w.waiting = u.waiting /\ w.told = u.told
  BY EntryChanged
<1>2. v = SendPrepared(w, s, r)
  OBVIOUS
<1> HIDE DEF w
<1>3. AmountsOK(w) /\ s \in DOMAIN w.sent
  BY <1>1 DEF UpOK, AmountsOK
<1>4. Key(r) \notin Keys(w.requests)
  BY <1>1 DEF Held
<1>5. /\ v \in UploaderType /\ AmountsOK(v) /\ SendsOnly(w, v) /\ Sent(w, v, r)
      /\ Distinct(w.requests) => Distinct(v.requests)
      /\ DOMAIN v.sent = DOMAIN w.sent
  BY <1>1, <1>2, <1>3, <1>4, SendPreparedIs
<1>6. PICK p \in Requests :
        /\ Key(p) = Key(r) /\ p.doc = r.doc /\ p.filePart = r.filePart /\ p.no = r.no
        /\ ToSet(v.requests) = ToSet(w.requests) \cup {p}
  BY <1>5 DEF Sent
<1>7. /\ v.queue = w.queue /\ v.waiting = u.waiting /\ v.told = u.told
      /\ v.pending = u.pending /\ DOMAIN v.sent = DOMAIN u.sent
  BY <1>1, <1>5 DEF UploaderType, SendsOnly
<1>8. Keys(v.requests) = Keys(u.requests) \cup {x}
  <2>1. Keys(v.requests) = { Key(y) : y \in ToSet(u.requests) \cup {p} }
    BY <1>1, <1>6, KeysAre
  <2>2. Keys(u.requests) = { Key(y) : y \in ToSet(u.requests) }
    BY KeysAre
  <2> QED
    BY <1>6, <2>1, <2>2
<1>9. Held(v) = G
  BY <1>7, <1>8 DEF Held
<1>10. PlacesOK(v, {})
  <2>1. Distinct(v.requests) /\ Distinct(v.pending)
    BY <1>1, <1>5, <1>7 DEF UpOK, PlacesOK
  <2>2. x \notin Keys(u.pending)
    BY DEF Held
  <2>3. Keys(v.requests) \cap Keys(v.pending) = {}
    BY <1>7, <1>8, <2>2 DEF UpOK, PlacesOK
  <2> QED
    BY <2>1, <2>3 DEF PlacesOK
<1>11. \A i : InQueue(v, i) <=> InQueue(u, i)
  BY <1>1, <1>7 DEF InQueue
<1>12. QueueOK(v)
  <2>1. \A i, j \in DOMAIN v.queue : v.queue[i].item = v.queue[j].item => i = j
    BY <1>1, <1>7 DEF UpOK, QueueOK
  <2> QED
    BY <1>7, <1>11, <2>1 DEF UpOK, QueueOK
<1>13. x = <<e.item, r.doc, r.no>>
  BY DEF Key
<1>14. H \cup {} = H /\ G = H \cup {x} /\ \A i, d : i # e.item => Numbers(G, i, d) = Numbers(H, i, d)
  <2>1. x[1] = e.item /\ G = H \cup {x}
    BY <1>13
  <2> HIDE DEF H, x
  <2>2. \A i, d : i # x[1] => Numbers(G, i, d) = Numbers(H, i, d)
    BY <2>1, NumbersOfOthers
  <2> QED
    BY <2>1, <2>2
<1>15. \A j \in DOMAIN u.queue : j # k => u.queue[j].item # e.item
  BY DEF UpOK, QueueOK
<1>16. EntriesOK(v, Held(v) \cup {})
  <2>1. ASSUME NEW j \in DOMAIN v.queue
        PROVE  EntryOK(v.queue[j], G)
    <3>1. CASE j = k
      BY <1>1, <1>7, <3>1
    <3>2. CASE j # k
      <4>1. v.queue[j] = u.queue[j] /\ EntryOK(u.queue[j], H \cup {})
        BY <1>1, <1>7, <3>2 DEF UpOK, EntriesOK
      <4>2. u.queue[j].item # e.item
        BY <1>1, <1>7, <1>15, <3>2
      <4>3. \A d : Numbers(G, u.queue[j].item, d) = Numbers(H \cup {}, u.queue[j].item, d)
        <5> HIDE DEF x, H
        <5> QED
          BY <1>14, <4>2
      <4> HIDE DEF x, H
      <4> QED
        BY <4>1, <4>3 DEF EntryOK
    <3> QED
      BY <3>1, <3>2
  <2>2. \A h \in G : InQueue(u, h[1])
    <3>1. \A h \in H \cup {} : InQueue(u, h[1])
      BY DEF UpOK, EntriesOK
    <3>2. x[1] = u.queue[k].item
      BY <1>13
    <3> QED
      BY <3>1, <3>2 DEF InQueue
  <2> QED
    BY <1>9, <1>11, <2>1, <2>2 DEF EntriesOK
<1>17. DocsOK(v, sv, Held(v) \cup {})
  <2>1. \A q \in ToSet(v.requests) : q.doc => q.filePart = q.no
    BY <1>1, <1>6 DEF UpOK, DocsOK
  <2>2. ASSUME NEW j \in DOMAIN v.queue, NEW n \in 0 .. v.queue[j].docSent - 1
        PROVE  <<v.queue[j].item, TRUE, n, n>> \in sv \/ <<v.queue[j].item, TRUE, n>> \in G
    <3>1. CASE j = k
      BY <1>1, <1>7, <2>2, <3>1
    <3>2. CASE j # k
      <4>1. j \in DOMAIN u.queue /\ v.queue[j] = u.queue[j]
        BY <1>1, <1>7, <3>2
      <4>2. \/ <<u.queue[j].item, TRUE, n, n>> \in sv
            \/ <<u.queue[j].item, TRUE, n>> \in H \cup {}
        BY <2>2, <4>1 DEF UpOK, DocsOK
      <4> HIDE DEF x, H
      <4> QED
        BY <1>14, <4>1, <4>2
    <3> QED
      BY <3>1, <3>2
  <2> QED
    BY <1>9, <2>1, <2>2 DEF DocsOK
<1>18. DoneOK(v, sv)
  BY <1>7 DEF UpOK, DoneOK
<1> QED
  BY <1>5, <1>7, <1>10, <1>11, <1>12, <1>16, <1>17, <1>18 DEF UpOK, Grows

\* One more number, and one more is counted.
LEMMA NumberAdded ==
  ASSUME NEW S, NEW n \in Nat, S \subseteq 0 .. n - 1
  PROVE  /\ n \notin S /\ Cardinality(S \cup {n}) = Cardinality(S) + 1
         /\ S \cup {n} \subseteq 0 .. n /\ IsFiniteSet(S) /\ Cardinality(S) \in Nat
<1>1. IsFiniteSet(0 .. n - 1)
  BY FS_Interval
<1>2. IsFiniteSet(S)
  BY <1>1, FS_Subset
<1>3. n \notin S /\ S \cup {n} \subseteq 0 .. n
  OBVIOUS
<1> QED
  BY <1>2, <1>3, FS_AddElement, FS_CardinalityType

\* An entry, and what it says of the parts that are held.
LEMMA EntryIs ==
  ASSUME NEW u \in UploaderType, NEW sv, UpOK(u, sv, {}), NEW k \in DOMAIN u.queue
  PROVE  /\ u.queue[k] \in Entries /\ EntryOK(u.queue[k], Held(u))
         /\ Parts[u.queue[k].item] \in Nat /\ DocParts[u.queue[k].item] \in Nat
         /\ \A n \in 0 .. u.queue[k].docSent - 1 :
              \/ <<u.queue[k].item, TRUE, n, n>> \in sv
              \/ <<u.queue[k].item, TRUE, n>> \in Held(u)
<1>1. u.queue \in Seq(Entries)
  BY FieldsAre
<1>2. u.queue[k] \in Entries
  BY <1>1
<1>3. Held(u) \cup {} = Held(u)
  OBVIOUS
<1>4. EntryOK(u.queue[k], Held(u)) /\ DocsOK(u, sv, Held(u))
  BY <1>3 DEF UpOK, EntriesOK
<1>5. u.queue[k].item \in Items
  BY <1>2 DEF Entries
<1> QED
  BY <1>2, <1>4, <1>5, UploaderAssumption DEF DocsOK

\* A part of a photo or of a thumbnail is sent.
LEMMA SendSlicedKeeps ==
  ASSUME NEW u \in UploaderType, NEW sv, UpOK(u, sv, {}), NEW k \in DOMAIN u.queue,
         u.queue[k].sent < Parts[u.queue[k].item], NEW s \in DOMAIN u.sent
  PROVE  UpOK(SendSlicedPart(u, k, s), sv, {}) /\ Grows(u, SendSlicedPart(u, k, s))
<1> DEFINE e == u.queue[k]
           f == [e EXCEPT !.sent = @ + 1, !.waits = @ + 1]
           r == NewRequest(e.item, FALSE, e.sent)
           v == SendSlicedPart(u, k, s)
           H == Held(u)
<1>1. v = SendPrepared([u EXCEPT !.queue[k] = f], s, r)
  BY DEF SendSlicedPart
<1>2. /\ e \in Entries /\ EntryOK(e, H) /\ Parts[e.item] \in Nat /\ e.sent < Parts[e.item]
      /\ \A n \in 0 .. e.docSent - 1 : <<e.item, TRUE, n, n>> \in sv \/ <<e.item, TRUE, n>> \in H
  BY EntryIs
<1>3. e = u.queue[k]
  OBVIOUS
<1> HIDE DEF e, v
<1>4. /\ f \in Entries /\ f.item = e.item /\ f.sent = e.sent + 1 /\ f.waits = e.waits + 1
      /\ f.docSent = e.docSent /\ f.docWaits = e.docWaits /\ e.sent \in Nat
  <2>1. e \in Entries
    BY <1>2
  <2>2. e.sent \in Nat /\ e.sent + 1 \in Nat /\ e.waits + 1 \in Nat
    BY <2>1 DEF Entries
  <2> QED
    BY <2>1, <2>2 DEF Entries
<1>5. /\ r \in Requests /\ r.item = e.item /\ ~r.doc /\ Key(r) = <<e.item, FALSE, e.sent>>
  BY <1>2 DEF Entries, Requests, NewRequest, Key
<1> HIDE DEF f, r
<1> DEFINE x == Key(r)
<1>6. x[1] = e.item /\ x[2] = FALSE /\ x[3] = e.sent
  BY <1>5
<1> DEFINE G == H \cup {x}
<1> HIDE DEF x, H
<1>7. G = H \cup {x}
  OBVIOUS
<1> HIDE DEF G
<1>8. /\ Numbers(G, e.item, FALSE) = Numbers(H, e.item, FALSE) \cup {e.sent}
      /\ Numbers(G, e.item, TRUE) = Numbers(H, e.item, TRUE)
  <2>1. Numbers(G, x[1], x[2]) = Numbers(H, x[1], x[2]) \cup {x[3]}
    BY <1>7, NumbersWith
  <2>2. \A d : d # x[2] => Numbers(G, x[1], d) = Numbers(H, x[1], d)
    BY <1>7, NumbersOfOthers
  <2>3. TRUE # x[2]
    BY <1>6
  <2>4. Numbers(G, x[1], TRUE) = Numbers(H, x[1], TRUE)
    BY <2>2, <2>3
  <2> QED
    BY <1>6, <2>1, <2>4
<1>9. /\ e.sent \notin Numbers(H, e.item, FALSE)
      /\ Cardinality(Numbers(H, e.item, FALSE) \cup {e.sent}) = e.waits + 1
      /\ Numbers(H, e.item, FALSE) \cup {e.sent} \subseteq 0 .. e.sent
  <2> DEFINE S == Numbers(H, e.item, FALSE)
  <2>1. S \subseteq 0 .. e.sent - 1 /\ e.waits = Cardinality(S)
    BY <1>2 DEF EntryOK
  <2> HIDE DEF S
  <2>2. /\ e.sent \notin S /\ Cardinality(S \cup {e.sent}) = Cardinality(S) + 1
        /\ S \cup {e.sent} \subseteq 0 .. e.sent
    BY <1>4, <2>1, NumberAdded
  <2> QED
    BY <2>1, <2>2 DEF S
<1>10. x \notin H
  BY <1>6, <1>9 DEF Numbers
<1>11. EntryOK(f, G)
  <2>1. f.sent <= Parts[f.item] /\ f.docSent <= DocParts[f.item] /\ f.sent - 1 = e.sent
    BY <1>2, <1>4 DEF EntryOK
  <2> QED
    BY <1>2, <1>4, <1>8, <1>9, <2>1 DEF EntryOK
<1>12. \A n \in 0 .. f.docSent - 1 :
         <<f.item, TRUE, n, n>> \in sv \/ <<f.item, TRUE, n>> \in G
  BY <1>2, <1>4, <1>7
<1> QED
  <2>1. /\ f.item = u.queue[k].item /\ r.item = f.item /\ (r.doc => r.filePart = r.no)
        /\ Key(r) \notin Held(u) /\ G = Held(u) \cup {Key(r)}
    BY <1>3, <1>4, <1>5, <1>7, <1>10 DEF x, H
  <2>2. f \in Entries /\ r \in Requests
    BY <1>4, <1>5
  <2>3. UpOK(v, sv, {}) /\ Grows(u, v)
    BY <1>1, <1>11, <1>12, <2>1, <2>2, NewPartKeeps
  <2> QED
    BY <2>3 DEF v

\* A part of a document is sent.
LEMMA SendDocKeeps ==
  ASSUME NEW u \in UploaderType, NEW sv, UpOK(u, sv, {}), NEW k \in DOMAIN u.queue,
         u.queue[k].docSent < DocParts[u.queue[k].item], NEW s \in DOMAIN u.sent
  PROVE  UpOK(SendDocPart(u, k, s), sv, {}) /\ Grows(u, SendDocPart(u, k, s))
<1> DEFINE e == u.queue[k]
           f == [e EXCEPT !.docSent = @ + 1, !.docWaits = @ + 1]
           r == NewRequest(e.item, TRUE, e.docSent)
           v == SendDocPart(u, k, s)
           H == Held(u)
<1>1. v = SendPrepared([u EXCEPT !.queue[k] = f], s, r)
  BY DEF SendDocPart
<1>2. /\ e \in Entries /\ EntryOK(e, H) /\ DocParts[e.item] \in Nat
      /\ e.docSent < DocParts[e.item]
      /\ \A n \in 0 .. e.docSent - 1 : <<e.item, TRUE, n, n>> \in sv \/ <<e.item, TRUE, n>> \in H
  BY EntryIs
<1>3. e = u.queue[k]
  OBVIOUS
<1> HIDE DEF e, v
<1>4. /\ f \in Entries /\ f.item = e.item /\ f.docSent = e.docSent + 1 /\ f.docWaits = e.docWaits + 1
      /\ f.sent = e.sent /\ f.waits = e.waits /\ e.docSent \in Nat
  <2>1. e \in Entries
    BY <1>2
  <2>2. e.docSent \in Nat /\ e.docSent + 1 \in Nat /\ e.docWaits + 1 \in Nat
    BY <2>1 DEF Entries
  <2> QED
    BY <2>1, <2>2 DEF Entries
<1>5. /\ r \in Requests /\ r.item = e.item /\ r.filePart = r.no
      /\ Key(r) = <<e.item, TRUE, e.docSent>>
  BY <1>2 DEF Entries, Requests, NewRequest, Key
<1> HIDE DEF f, r
<1> DEFINE x == Key(r)
<1>6. x[1] = e.item /\ x[2] = TRUE /\ x[3] = e.docSent
  BY <1>5
<1>7. \A n : n = e.docSent => <<f.item, TRUE, n>> = x
  BY <1>4, <1>5
<1> DEFINE G == H \cup {x}
<1> HIDE DEF x, H
<1>8. G = H \cup {x}
  OBVIOUS
<1> HIDE DEF G
<1>9. /\ Numbers(G, e.item, TRUE) = Numbers(H, e.item, TRUE) \cup {e.docSent}
      /\ Numbers(G, e.item, FALSE) = Numbers(H, e.item, FALSE)
  <2>1. Numbers(G, x[1], x[2]) = Numbers(H, x[1], x[2]) \cup {x[3]}
    BY <1>8, NumbersWith
  <2>2. \A d : d # x[2] => Numbers(G, x[1], d) = Numbers(H, x[1], d)
    BY <1>8, NumbersOfOthers
  <2>3. FALSE # x[2]
    BY <1>6
  <2>4. Numbers(G, x[1], FALSE) = Numbers(H, x[1], FALSE)
    BY <2>2, <2>3
  <2> QED
    BY <1>6, <2>1, <2>4
<1>10. /\ e.docSent \notin Numbers(H, e.item, TRUE)
       /\ Cardinality(Numbers(H, e.item, TRUE) \cup {e.docSent}) = e.docWaits + 1
       /\ Numbers(H, e.item, TRUE) \cup {e.docSent} \subseteq 0 .. e.docSent
  <2> DEFINE S == Numbers(H, e.item, TRUE)
  <2>1. S \subseteq 0 .. e.docSent - 1 /\ e.docWaits = Cardinality(S)
    BY <1>2 DEF EntryOK
  <2> HIDE DEF S
  <2>2. /\ e.docSent \notin S /\ Cardinality(S \cup {e.docSent}) = Cardinality(S) + 1
        /\ S \cup {e.docSent} \subseteq 0 .. e.docSent
    BY <1>4, <2>1, NumberAdded
  <2> QED
    BY <2>1, <2>2 DEF S
<1>11. x \notin H
  BY <1>6, <1>10 DEF Numbers
<1>12. EntryOK(f, G)
  <2>1. f.sent <= Parts[f.item] /\ f.docSent <= DocParts[f.item] /\ f.docSent - 1 = e.docSent
    BY <1>2, <1>4 DEF EntryOK
  <2> QED
    BY <1>2, <1>4, <1>9, <1>10, <2>1 DEF EntryOK
<1>13. \A n \in 0 .. f.docSent - 1 :
         <<f.item, TRUE, n, n>> \in sv \/ <<f.item, TRUE, n>> \in G
  <2> TAKE n \in 0 .. f.docSent - 1
  <2>1. n \in 0 .. e.docSent - 1 \/ n = e.docSent
    BY <1>4
  <2> QED
    BY <1>2, <1>4, <1>7, <1>8, <2>1
<1> QED
  <2>1. /\ f.item = u.queue[k].item /\ r.item = f.item /\ (r.doc => r.filePart = r.no)
        /\ Key(r) \notin Held(u) /\ G = Held(u) \cup {Key(r)}
    BY <1>3, <1>4, <1>5, <1>8, <1>11 DEF x, H
  <2>2. f \in Entries /\ r \in Requests
    BY <1>4, <1>5
  <2>3. UpOK(v, sv, {}) /\ Grows(u, v)
    BY <1>1, <1>12, <1>13, <2>1, <2>2, NewPartKeeps
  <2> QED
    BY <2>3 DEF v

-----------------------------------------------------------------------------
(* Calls that send. *)

\* Timers, a pause and media that goes out are nothing to the uploads.
SameUploads(u, v) ==
  /\ v \in UploaderType
  /\ v.queue = u.queue /\ v.requests = u.requests /\ v.sent = u.sent /\ v.fast = u.fast
  /\ v.pending = u.pending /\ v.waiting = u.waiting /\ v.told = u.told

\* What only changes flags, or what is told of covers, keeps what is right.
LEMMA SameUploadsKeep ==
  ASSUME NEW u \in UploaderType, NEW sv, NEW L, UpOK(u, sv, L), NEW v, SameUploads(u, v)
  PROVE  UpOK(v, sv, L) /\ Grows(u, v)
<1>1. v \in UploaderType /\ AmountsOK(v) /\ PlacesOK(v, L)
  BY DEF UpOK, AmountsOK, PlacesOK, SameUploads, Held
<1>2. \A i : InQueue(v, i) <=> InQueue(u, i)
  BY DEF SameUploads, InQueue
<1>3. Held(v) \cup L = Held(u) \cup L
  BY DEF SameUploads, Held
<1>4. \A r \in ToSet(v.requests) : r.doc => r.filePart = r.no
  BY DEF UpOK, DocsOK, SameUploads
<1>5. UpOK(v, sv, L)
  BY <1>1, <1>3, <1>4, Unmoved DEF SameUploads
<1> QED
  BY <1>2, <1>5 DEF Grows, SameUploads

\* The calls that may be made of u: a session is there, and a video of which the
\* requests are cancelled is not in the queue any more.
CallsOf(u) ==
  {DoMaybeSend, DoFront, DoFailAll}
    \cup { DoFill(used) : used \in SUBSET Nat }
    \cup { DoNext(s, used) : s \in DOMAIN u.sent, used \in SUBSET Nat }
    \cup { DoPart(s, used) : s \in DOMAIN u.sent, used \in SUBSET Nat }
    \cup { DoFailed(i) : i \in Items }
    \cup { DoCancel(i) : i \in { v \in Videos : ~InQueue(u, v) } }

\* What a call makes of u is as it should be, and so are the calls that follow.
Fine(u, m, sv) ==
  UpOK(m.u, sv, {}) /\ Grows(u, m.u) /\ m.calls \in Seq(CallsOf(m.u))

\* The calls that may be made may be made later too.
LEMMA CallsGrow ==
  ASSUME NEW u, NEW v, Grows(u, v)
  PROVE  CallsOf(u) \subseteq CallsOf(v) /\ Seq(CallsOf(u)) \subseteq Seq(CallsOf(v))
<1>1. DOMAIN u.sent \subseteq DOMAIN v.sent
  BY DEF Grows
<1>2. \A i \in Videos : ~InQueue(u, i) => ~InQueue(v, i)
  BY DEF Grows
<1>3. CallsOf(u) \subseteq CallsOf(v)
  BY <1>1, <1>2 DEF CallsOf
<1> QED
  BY <1>3

\* Growing is transitive.
LEMMA GrowsOn ==
  ASSUME NEW u, NEW v, NEW w, Grows(u, v), Grows(v, w)
  PROVE  Grows(u, w)
BY DEF Grows

\* Nothing changes.
LEMMA GrowsNot ==
  ASSUME NEW u
  PROVE  Grows(u, u)
BY DEF Grows

\* Short lists of calls.
LEMMA ShortLists ==
  ASSUME NEW S, NEW x \in S, NEW y \in S
  PROVE  <<>> \in Seq(S) /\ <<x>> \in Seq(S) /\ <<x, y>> \in Seq(S)
OBVIOUS

\* What follows a call.
LEMMA ThenIs ==
  ASSUME NEW u, NEW calls
  PROVE  Then(u, calls).u = u /\ Then(u, calls).calls = calls
BY DEF Then

\* A call is fine when what it makes of u is and the calls that follow are.
LEMMA ThenFine ==
  ASSUME NEW u, NEW sv, NEW v, UpOK(v, sv, {}), Grows(u, v),
         NEW calls \in Seq(CallsOf(v))
  PROVE  Fine(u, Then(v, calls), sv)
BY ThenIs DEF Fine

\* The loop of maybeSend() uses a session there is, or one that it adds.
LEMMA FillSessionsFine ==
  ASSUME NEW u \in UploaderType, NEW sv, UpOK(u, sv, {}), NEW used \in SUBSET Nat
  PROVE  Fine(u, FillSessions(u, used), sv)
<1> DEFINE s == ChooseSession(u, used)
           n == Len(u.sent)
           free  == DOMAIN u.sent \ used
           idle  == { t \in free : u.sent[t] = 0 }
           least == { t \in free : \A x \in free : u.sent[t] <= u.sent[x] }
<1>1. n \in Nat /\ DOMAIN u.sent = 1 .. n
  BY FieldsAre
<1>2. s \in 1 .. n \/ s = n + 1 \/ s = MaxSessions + 1
  <2>1. s = CASE idle # {}                     -> Min(idle)
              [] idle = {} /\ CanAddSession(u) -> n + 1
              [] OTHER                         -> Min(least \cup {MaxSessions + 1})
    BY DEF ChooseSession
  <2>2. idle \in SUBSET Nat /\ idle \subseteq 1 .. n /\ least \subseteq 1 .. n
        /\ least \cup {MaxSessions + 1} \in SUBSET Nat /\ least \cup {MaxSessions + 1} # {}
    BY <1>1, SizesAre
  <2> HIDE DEF s, idle, least
  <2>3. idle # {} => Min(idle) \in 1 .. n
    BY <2>2, MinIsIn
  <2>4. Min(least \cup {MaxSessions + 1}) \in 1 .. n \cup {MaxSessions + 1}
    BY <2>2, MinIsIn
  <2> QED
    BY <2>1, <2>3, <2>4
<1>3. s \in Nat
  BY <1>1, <1>2, SizesAre
<1>4. CASE s > MaxSessions
  <2> DEFINE v == [u EXCEPT !.nextTimer = used # {}]
  <2>1. FillSessions(u, used) = Then(v, <<>>)
    BY <1>4 DEF FillSessions
  <2>2. SameUploads(u, v)
    BY DEF SameUploads, UploaderType
  <2> HIDE DEF v
  <2>3. UpOK(v, sv, {}) /\ Grows(u, v)
    BY <2>2, SameUploadsKeep
  <2>4. <<>> \in Seq(CallsOf(v))
    OBVIOUS
  <2> HIDE DEF s
  <2> QED
    BY <2>1, <2>3, <2>4, ThenFine
<1>5. CASE ~(s > MaxSessions)
  <2> DEFINE v == IF s > n THEN AddSession(u) ELSE u
  <2>1. FillSessions(u, used) = Then(v, <<DoPart(s, used)>>)
    BY <1>5 DEF FillSessions
  <2>2. UpOK(v, sv, {}) /\ Grows(u, v) /\ s \in DOMAIN v.sent
    <3>1. CASE s > n
      <4>1. v = AddSession(u)
        BY <3>1
      <4>2. UpOK(AddSession(u), sv, {}) /\ Grows(u, AddSession(u)) /\ DOMAIN AddSession(u).sent = 1 .. n + 1
        BY AddSessionKeeps
      <4>3. s \in 1 .. n + 1
        BY <1>1, <1>2, <1>5, <3>1, SizesAre
      <4> HIDE DEF s, v
      <4> QED
        BY <4>1, <4>2, <4>3
    <3>2. CASE ~(s > n)
      <4>1. v = u
        BY <3>2
      <4>2. s \in 1 .. n
        BY <1>1, <1>2, <1>5, <3>2, SizesAre
      <4> HIDE DEF s, v
      <4> QED
        BY <1>1, <4>1, <4>2, GrowsNot
    <3> QED
      BY <3>1, <3>2
  <2>3. <<DoPart(s, used)>> \in Seq(CallsOf(v))
    <3> HIDE DEF s, v
    <3>1. DoPart(s, used) \in CallsOf(v)
      BY <2>2 DEF CallsOf
    <3> QED
      BY <3>1, ShortLists
  <2> HIDE DEF v
  <2> QED
    BY <2>1, <2>2, <2>3, ThenFine
<1> QED
  BY <1>4, <1>5

\* The place of an item in the queue.
LEMMA PlaceIs ==
  ASSUME NEW u \in UploaderType, NEW i
  PROVE  /\ Place(u, i) \in Nat
         /\ Place(u, i) = 0 <=> ~InQueue(u, i)
         /\ Place(u, i) # 0 => Place(u, i) \in DOMAIN u.queue /\ u.queue[Place(u, i)].item = i
<1> DEFINE S == { k \in DOMAIN u.queue : u.queue[k].item = i }
<1>1. Place(u, i) = Max({0} \cup S)
  BY DEF Place
<1>2. /\ DOMAIN u.queue = 1 .. Len(u.queue) /\ Len(u.queue) \in Nat
      /\ S \subseteq 1 .. Len(u.queue)
  BY FieldsAre
<1>3. IsFiniteSet({0} \cup S)
  <2>1. IsFiniteSet(0 .. Len(u.queue))
    BY <1>2, FS_Interval
  <2>2. {0} \cup S \in SUBSET (0 .. Len(u.queue))
    BY <1>2
  <2> QED
    BY <2>1, <2>2, FS_Subset
<1>4. \E m \in {0} \cup S : \A n \in {0} \cup S : m >= n
  <2> DEFINE T == {0} \cup S
             M == Len(u.queue)
             D == { M - n : n \in T }
  <2>1. T \subseteq 0 .. M /\ M \in Nat /\ 0 \in T
    BY <1>2
  <2> HIDE DEF T, M
  <2>2. D \in SUBSET Nat /\ D # {}
    <3>1. \A n \in T : M - n \in Nat
      BY <2>1
    <3>2. M - 0 \in D
      BY <2>1
    <3> QED
      BY <3>1, <3>2
  <2>3. PICK d \in D : \A x \in D : d <= x
    BY <2>2, LeastExists
  <2>4. PICK m \in T : d = M - m
    BY <2>3
  <2>5. ASSUME NEW n \in T
        PROVE  m >= n
    <3>1. M - n \in D
      OBVIOUS
    <3>2. d <= M - n
      BY <2>3, <3>1
    <3>3. m \in 0 .. M /\ n \in 0 .. M
      BY <2>1
    <3> QED
      BY <2>1, <2>4, <3>2, <3>3
  <2> QED
    BY <2>4, <2>5 DEF T
<1>5. Place(u, i) \in {0} \cup S /\ \A n \in {0} \cup S : Place(u, i) >= n
  BY <1>1, <1>4 DEF Max
<1>6. InQueue(u, i) <=> S # {}
  BY DEF InQueue
<1> HIDE DEF S
<1>7. Place(u, i) = 0 <=> S = {}
  <2>1. ASSUME NEW n \in S
        PROVE  Place(u, i) # 0
    <3>1. n \in Nat /\ n > 0
      BY <1>2
    <3>2. Place(u, i) >= n
      BY <1>5
    <3> QED
      BY <1>2, <1>5, <3>1, <3>2
  <2> QED
    BY <1>5, <2>1
<1> QED
  BY <1>2, <1>5, <1>6, <1>7 DEF S

\* The entry of which a part is sent is one of the queue.
LEMMA ChooseEntryIs ==
  ASSUME NEW u \in UploaderType, NEW sv, UpOK(u, sv, {}), NEW k, k = ChooseEntry(u), k # 0
  PROVE  /\ k \in DOMAIN u.queue
         /\ u.pending = <<>> => \/ u.queue[k].sent < Parts[u.queue[k].item]
                                \/ u.queue[k].docSent < DocParts[u.queue[k].item]
<1> DEFINE left == { j \in DOMAIN u.queue : \/ u.queue[j].sent < Parts[u.queue[j].item]
                                            \/ u.queue[j].docSent < DocParts[u.queue[j].item] }
<1>1. k = CASE u.pending # <<>>              -> Place(u, Head(u.pending).item)
            [] u.pending = <<>> /\ left = {} -> 0
            [] OTHER                         -> Min(left)
  BY DEF ChooseEntry
<1>2. left \in SUBSET Nat
  BY FieldsAre
<1>3. CASE u.pending # <<>>
  BY <1>1, <1>3, PlaceIs
<1>4. CASE u.pending = <<>>
  <2>1. left # {} /\ k = Min(left)
    BY <1>1, <1>4
  <2>2. k \in left
    <3> HIDE DEF left
    <3> QED
      BY <1>2, <2>1, MinIsIn
  <2> QED
    BY <2>2
<1> QED
  BY <1>3, <1>4

\* A part goes through a session; a file that cannot be read fails.
LEMMA FillSessionFine ==
  ASSUME NEW u \in UploaderType, NEW sv, UpOK(u, sv, {}), NEW s \in DOMAIN u.sent,
         NEW used \in SUBSET Nat
  PROVE  Fine(u, FillSession(u, s, used), sv)
<1> DEFINE k == ChooseEntry(u)
           e == u.queue[k]
<1>1. Fine(u, Then(u, <<>>), sv)
  <2>1. <<>> \in Seq(CallsOf(u))
    OBVIOUS
  <2> QED
    BY <2>1, GrowsNot, ThenFine
<1>2. ASSUME NEW v, UpOK(v, sv, {}), Grows(u, v)
      PROVE  Fine(u, Then(v, <<DoNext(s, used)>>), sv)
  <2>1. DoNext(s, used) \in CallsOf(v)
    BY <1>2 DEF Grows, CallsOf
  <2>2. <<DoNext(s, used)>> \in Seq(CallsOf(v))
    BY <2>1, ShortLists
  <2> QED
    BY <1>2, <2>2, ThenFine
<1>3. CASE k = 0
  BY <1>1, <1>3 DEF FillSession
<1>4. CASE k # 0 /\ u.pending # <<>>
  <2>1. FillSession(u, s, used) = Then(SendPendingPart(u, s), <<DoNext(s, used)>>)
    BY <1>4 DEF FillSession
  <2> QED
    BY <1>2, <1>4, <2>1, SendPendingKeeps
<1>5. CASE k # 0 /\ u.pending = <<>> /\ e.sent < Parts[e.item]
  <2>1. \/ FillSession(u, s, used) = Then(u, <<>>)
        \/ FillSession(u, s, used) = Then(SendSlicedPart(u, k, s), <<DoNext(s, used)>>)
    BY <1>5 DEF FillSession
  <2>2. k \in DOMAIN u.queue
    BY <1>5, ChooseEntryIs
  <2>3. UpOK(SendSlicedPart(u, k, s), sv, {}) /\ Grows(u, SendSlicedPart(u, k, s))
    <3> HIDE DEF k
    <3> QED
      BY <1>5, <2>2, SendSlicedKeeps
  <2> QED
    BY <1>1, <1>2, <2>1, <2>3
<1>6. CASE k # 0 /\ u.pending = <<>> /\ ~(e.sent < Parts[e.item])
  <2>1. \/ FillSession(u, s, used) = Then(u, <<>>)
        \/ FillSession(u, s, used) = Then(u, <<DoFailed(e.item), DoPart(s, used)>>)
        \/ FillSession(u, s, used) = Then(SendDocPart(u, k, s), <<DoNext(s, used)>>)
    BY <1>6 DEF FillSession
  <2>2. k \in DOMAIN u.queue /\ e.docSent < DocParts[e.item]
    BY <1>6, ChooseEntryIs
  <2>3. UpOK(SendDocPart(u, k, s), sv, {}) /\ Grows(u, SendDocPart(u, k, s))
    <3> HIDE DEF k
    <3> QED
      BY <1>6, <2>2, SendDocKeeps
  <2>4. Fine(u, Then(u, <<DoFailed(e.item), DoPart(s, used)>>), sv)
    <3>1. e \in Entries
      <4> HIDE DEF k
      <4> QED
        BY <2>2, FieldsAre
    <3>2. e.item \in Items
      BY <3>1 DEF Entries
    <3>3. DoFailed(e.item) \in CallsOf(u) /\ DoPart(s, used) \in CallsOf(u)
      BY <3>2 DEF CallsOf
    <3>4. <<DoFailed(e.item), DoPart(s, used)>> \in Seq(CallsOf(u))
      BY <3>3, ShortLists
    <3> QED
      BY <3>4, GrowsNot, ThenFine
  <2> QED
    BY <1>1, <1>2, <2>1, <2>3, <2>4
<1> QED
  BY <1>3, <1>4, <1>5, <1>6

\* The loop goes on.
LEMMA NextSessionFine ==
  ASSUME NEW u \in UploaderType, NEW sv, UpOK(u, sv, {}), NEW s \in DOMAIN u.sent,
         NEW used \in SUBSET Nat
  PROVE  Fine(u, NextSession(u, s, used), sv)
<1> DEFINE next == IF u.sent[s] >= AcceptAsFast THEN used \cup {s} ELSE used
<1>1. NextSession(u, s, used) = Then(u, <<DoFill(next)>>)
  BY DEF NextSession
<1>2. s \in Nat
  BY FieldsAre
<1>3. next \in SUBSET Nat
  BY <1>2
<1> HIDE DEF next
<1>4. DoFill(next) \in CallsOf(u)
  BY <1>3 DEF CallsOf
<1>5. <<DoFill(next)>> \in Seq(CallsOf(u))
  BY <1>4, ShortLists
<1> QED
  BY <1>1, <1>5, GrowsNot, ThenFine

\* maybeSend() begins its loop, or there is nothing to send.
LEMMA MaybeSendFine ==
  ASSUME NEW u \in UploaderType, NEW sv, UpOK(u, sv, {})
  PROVE  Fine(u, MaybeSend(u), sv)
<1> DEFINE v == [u EXCEPT !.stopTimer = TRUE, !.paused = FALSE]
           w == [u EXCEPT !.stopTimer = FALSE]
<1>1. \/ MaybeSend(u) = Then(v, <<>>)
      \/ MaybeSend(u) = Then(u, <<>>)
      \/ MaybeSend(u) = Then(w, <<DoFill({})>>)
  BY DEF MaybeSend
<1>2. SameUploads(u, v) /\ SameUploads(u, w) /\ SameUploads(u, u)
  BY DEF SameUploads, UploaderType
<1> HIDE DEF v, w
<1>3. ASSUME NEW x, SameUploads(u, x)
      PROVE  Fine(u, Then(x, <<>>), sv) /\ Fine(u, Then(x, <<DoFill({})>>), sv)
  <2>1. UpOK(x, sv, {}) /\ Grows(u, x)
    BY <1>3, SameUploadsKeep
  <2>2. DoFill({}) \in CallsOf(x)
    BY DEF CallsOf
  <2>3. <<>> \in Seq(CallsOf(x)) /\ <<DoFill({})>> \in Seq(CallsOf(x))
    BY <2>2, ShortLists
  <2> QED
    BY <2>1, <2>3, ThenFine
<1> QED
  BY <1>1, <1>2, <1>3

-----------------------------------------------------------------------------
(* Entries that come and go. *)

\* An item is put in the queue.
LEMMA PushIs ==
  ASSUME NEW u \in UploaderType, NEW sv, UpOK(u, sv, {}), NEW i \in Items, ~InQueue(u, i),
         i \notin Covers => u.told[i] = "no" /\ i \notin u.waiting,
         \A w \in Videos : CoverOf[w] = i => u.told[w] # "no" \/ w \in u.waiting,
         NEW v, v = Push(u, i).u
  PROVE  /\ v \in UploaderType /\ UpOK(v, sv, {}) /\ DOMAIN v.sent = DOMAIN u.sent
         /\ \A j : InQueue(v, j) <=> InQueue(u, j) \/ j = i
         /\ Push(u, i).calls = <<>> \/ Push(u, i).calls = <<DoMaybeSend>>
<1> DEFINE q == Append(u.queue, Entry(i))
           n == Len(u.queue)
           H == Held(u)
<1>1. v = [u EXCEPT !.queue = q]
  BY ThenIs DEF Push
<1>2. Push(u, i).calls = <<>> \/ Push(u, i).calls = <<DoMaybeSend>>
  BY ThenIs DEF Push
<1>3. Entry(i) \in Entries /\ Entry(i) = [item |-> i, sent |-> 0, waits |-> 0, docSent |-> 0, docWaits |-> 0]
  BY DEF Entries, Entry
<1>4. u.queue \in Seq(Entries) /\ n \in Nat /\ DOMAIN u.queue = 1 .. n
  BY FieldsAre
<1>5. /\ q \in Seq(Entries) /\ DOMAIN q = 1 .. n + 1 /\ q[n + 1] = Entry(i)
      /\ \A j \in 1 .. n : q[j] = u.queue[j]
  BY <1>3, <1>4
<1> HIDE DEF q, n
<1>6. /\ v \in UploaderType /\ v.queue = q /\ v.requests = u.requests /\ v.sent = u.sent
      /\ v.fast = u.fast /\ v.pending = u.pending /\ v.waiting = u.waiting /\ v.told = u.told
  BY <1>1, <1>5 DEF UploaderType
<1>7. \A j : InQueue(v, j) <=> InQueue(u, j) \/ j = i
  <2>1. q[n + 1].item = i /\ n + 1 \in 1 .. n + 1 /\ \A j \in 1 .. n + 1 : j \in 1 .. n \/ j = n + 1
    BY <1>3, <1>4, <1>5
  <2>2. \A j \in 1 .. n : j \in 1 .. n + 1
    BY <1>4
  <2> QED
    BY <1>4, <1>5, <1>6, <2>1, <2>2 DEF InQueue
<1>8. AmountsOK(v) /\ PlacesOK(v, {}) /\ DoneOK(v, sv) /\ Held(v) = H /\ H \cup {} = H
  BY <1>6 DEF UpOK, AmountsOK, PlacesOK, DoneOK, Held
<1>9. QueueOK(v)
  <2>1. ASSUME NEW j \in 1 .. n + 1, NEW k \in 1 .. n + 1, q[j].item = q[k].item
        PROVE  j = k
    <3>1. (j \in 1 .. n \/ j = n + 1) /\ (k \in 1 .. n \/ k = n + 1)
      BY <1>4
    <3>2. \A x \in 1 .. n : u.queue[x].item # i
      BY <1>4 DEF InQueue
    <3>3. \A x, y \in 1 .. n : u.queue[x].item = u.queue[y].item => x = y
      BY <1>4 DEF UpOK, QueueOK
    <3>4. q[n + 1].item = i
      BY <1>3, <1>5
    <3>5. CASE j \in 1 .. n /\ k \in 1 .. n
      BY <1>5, <2>1, <3>3, <3>5
    <3>6. CASE j \in 1 .. n /\ k = n + 1
      BY <1>5, <2>1, <3>2, <3>4, <3>6
    <3>7. CASE j = n + 1 /\ k \in 1 .. n
      BY <1>5, <2>1, <3>2, <3>4, <3>7
    <3> QED
      BY <3>1, <3>5, <3>6, <3>7
  <2> QED
    BY <1>5, <1>6, <1>7, <2>1 DEF UpOK, QueueOK
<1>10. \A d : Numbers(H, i, d) = {}
  <2>1. \A h \in H : h[1] # i
    BY <1>8 DEF UpOK, EntriesOK
  <2> QED
    BY <2>1 DEF Numbers
<1>11. EntriesOK(v, H)
  <2>1. EntryOK(Entry(i), H)
    <3>1. Parts[i] \in Nat /\ DocParts[i] \in Nat
      BY UploaderAssumption
    <3>2. /\ Entry(i).item = i /\ Entry(i).sent = 0 /\ Entry(i).waits = 0
          /\ Entry(i).docSent = 0 /\ Entry(i).docWaits = 0
      BY <1>3
    <3>3. Numbers(H, i, FALSE) = {} /\ Numbers(H, i, TRUE) = {} /\ Cardinality({}) = 0
      BY <1>10, FS_EmptySet
    <3> DEFINE e == Entry(i)
    <3>4. /\ e.sent <= Parts[e.item] /\ e.docSent <= DocParts[e.item]
          /\ e.waits = Cardinality(Numbers(H, e.item, FALSE))
          /\ e.docWaits = Cardinality(Numbers(H, e.item, TRUE))
      <4>1. e.sent <= Parts[e.item] /\ e.docSent <= DocParts[e.item]
        BY <3>1, <3>2
      <4>2. /\ Cardinality(Numbers(H, e.item, FALSE)) = 0
            /\ Cardinality(Numbers(H, e.item, TRUE)) = 0
        BY <3>2, <3>3, Zenon
      <4> QED
        BY <3>2, <4>1, <4>2
    <3>5. Numbers(H, e.item, FALSE) = {} /\ Numbers(H, e.item, TRUE) = {}
      BY <3>2, <3>3
    <3> HIDE DEF e, H
    <3>6. EntryOK(e, H)
      BY <3>4, <3>5 DEF EntryOK
    <3> QED
      BY <3>6 DEF e
  <2>2. \A j \in 1 .. n : EntryOK(u.queue[j], H)
    BY <1>4, <1>8 DEF UpOK, EntriesOK
  <2>3. \A j \in 1 .. n + 1 : j \in 1 .. n \/ j = n + 1
    BY <1>4
  <2>4. \A h \in H : InQueue(v, h[1])
    BY <1>7, <1>8 DEF UpOK, EntriesOK
  <2> QED
    BY <1>5, <1>6, <2>1, <2>2, <2>3, <2>4 DEF EntriesOK
<1>12. DocsOK(v, sv, H)
  <2>1. Entry(i).docSent = 0
    BY <1>3
  <2>2. \A j \in 1 .. n + 1 : j \in 1 .. n \/ j = n + 1
    BY <1>4
  <2>3. DocsOK(u, sv, H)
    BY <1>8 DEF UpOK
  <2>4. ASSUME NEW j \in 1 .. n + 1, NEW m \in 0 .. q[j].docSent - 1
        PROVE  <<q[j].item, TRUE, m, m>> \in sv \/ <<q[j].item, TRUE, m>> \in H
    <3>1. CASE j \in 1 .. n
      BY <1>4, <1>5, <2>3, <2>4, <3>1 DEF DocsOK
    <3>2. CASE j = n + 1
      <4>1. q[j].docSent = 0
        BY <1>5, <2>1, <3>2
      <4>2. m \in 0 .. 0 - 1
        BY <2>4, <4>1
      <4> QED
        BY <4>2
    <3> QED
      BY <2>2, <3>1, <3>2
  <2> QED
    BY <1>5, <1>6, <2>3, <2>4 DEF DocsOK
<1> QED
  BY <1>2, <1>6, <1>7, <1>8, <1>9, <1>11, <1>12 DEF UpOK

\* The queue q is s without its place k.
Removed(q, s, k) ==
  /\ q \in Seq(Entries) /\ DOMAIN q = 1 .. Len(s) - 1
  /\ \A j \in 1 .. Len(s) - 1 : q[j] = IF j < k THEN s[j] ELSE s[j + 1]

\* What RemoveAt and Tail are.
LEMMA RemovedIs ==
  ASSUME NEW s \in Seq(Entries), NEW k \in DOMAIN s
  PROVE  Removed(RemoveAt(s, k), s, k) /\ (k = 1 => Removed(Tail(s), s, k))
<1>1. Len(s) \in Nat /\ Len(s) > 0 /\ DOMAIN s = 1 .. Len(s) /\ \A j \in 1 .. Len(s) : s[j] \in Entries
  OBVIOUS
<1>2. Removed(Tail(s), s, 1)
  BY <1>1 DEF Removed
<1> DEFINE a == SubSeq(s, 1, k - 1)
           b == SubSeq(s, k + 1, Len(s))
<1>3. /\ a \in Seq(Entries) /\ Len(a) = k - 1 /\ DOMAIN a = 1 .. k - 1
      /\ \A j \in 1 .. k - 1 : a[j] = s[j]
  BY <1>1
<1>4. /\ b \in Seq(Entries) /\ Len(b) = Len(s) - k /\ DOMAIN b = 1 .. Len(s) - k
      /\ \A j \in 1 .. Len(s) - k : b[j] = s[k + j]
  BY <1>1
<1>5. RemoveAt(s, k) = a \o b
  BY DEF RemoveAt
<1> HIDE DEF a, b
<1>6. Removed(a \o b, s, k)
  <2>1. a \o b \in Seq(Entries) /\ DOMAIN (a \o b) = 1 .. Len(s) - 1
    <3>1. a \o b \in Seq(Entries) /\ DOMAIN (a \o b) = 1 .. Len(a) + Len(b)
      BY <1>3, <1>4, ConcatIs
    <3>2. Len(a) + Len(b) = Len(s) - 1
      BY <1>1, <1>3, <1>4
    <3> QED
      BY <3>1, <3>2
  <2>2. ASSUME NEW j \in 1 .. Len(s) - 1
        PROVE  (a \o b)[j] = IF j < k THEN s[j] ELSE s[j + 1]
    <3>1. CASE j < k
      BY <1>1, <1>3, <1>4, <3>1
    <3>2. CASE ~(j < k)
      <4>1. j - (k - 1) \in 1 .. Len(s) - k /\ k + (j - (k - 1)) = j + 1
        BY <1>1, <3>2
      <4>2. (a \o b)[j] = b[j - (k - 1)]
        BY <1>1, <1>3, <1>4, <3>2
      <4> QED
        BY <1>4, <3>2, <4>1, <4>2
    <3> QED
      BY <3>1, <3>2
  <2> QED
    BY <2>1, <2>2 DEF Removed
<1> QED
  BY <1>2, <1>5, <1>6

\* The parts of other items.
OfOthers(H, i) == { h \in H : h[1] # i }

\* What became of the uploads but i is so still, and no video is begun anew.
OthersKept(u, v, i) ==
  /\ \A j \in Items \ Covers : j # i /\ u.told[j] = "no" /\ j \notin u.waiting
                                => v.told[j] = "no" /\ j \notin v.waiting
  /\ \A w \in Videos : u.told[w] # "no" \/ w \in u.waiting
                         => v.told[w] # "no" \/ w \in v.waiting

\* An item leaves the queue with all its parts.
LEMMA EntryDropped ==
  ASSUME NEW u \in UploaderType, NEW sv, NEW L, UpOK(u, sv, L), NEW k \in DOMAIN u.queue,
         NEW i, i = u.queue[k].item, \A h \in L : h[1] = i,
         NEW v \in UploaderType, Removed(v.queue, u.queue, k), AmountsOK(v), PlacesOK(v, {}),
         ToSet(v.requests) \subseteq ToSet(u.requests), Held(v) = OfOthers(Held(u), i),
         OthersKept(u, v, i), DoneOK(v, sv)
  PROVE  UpOK(v, sv, {}) /\ \A j : InQueue(v, j) <=> InQueue(u, j) /\ j # i
<1> DEFINE n == Len(u.queue)
           G == Held(u) \cup L
           H == Held(v)
           from(j) == IF j < k THEN j ELSE j + 1
<1>1. u.queue \in Seq(Entries) /\ n \in Nat /\ DOMAIN u.queue = 1 .. n
  BY FieldsAre
<1>2. /\ DOMAIN v.queue = 1 .. n - 1
      /\ \A j \in 1 .. n - 1 : v.queue[j] = u.queue[from(j)]
  BY DEF Removed
<1>3. /\ \A j \in 1 .. n - 1 : from(j) \in 1 .. n /\ from(j) # k
      /\ \A j, m \in 1 .. n - 1 : from(j) = from(m) => j = m
      /\ \A m \in 1 .. n : m # k => \E j \in 1 .. n - 1 : from(j) = m
  <2>1. \A j \in 1 .. n - 1 : from(j) \in 1 .. n /\ from(j) # k
    BY <1>1
  <2>2. \A j, m \in 1 .. n - 1 : from(j) = from(m) => j = m
    BY <1>1
  <2>3. ASSUME NEW m \in 1 .. n, m # k
        PROVE  \E j \in 1 .. n - 1 : from(j) = m
    <3>1. CASE m < k
      <4>1. m \in 1 .. n - 1 /\ from(m) = m
        BY <1>1, <3>1
      <4> QED
        BY <4>1
    <3>2. CASE ~(m < k)
      <4>1. m - 1 \in 1 .. n - 1 /\ from(m - 1) = m
        BY <1>1, <2>3, <3>2
      <4> QED
        BY <4>1
    <3> QED
      BY <3>1, <3>2
  <2> QED
    BY <2>1, <2>2, <2>3
<1> HIDE DEF from, n
<1>4. \A j, m \in 1 .. n : u.queue[j].item = u.queue[m].item => j = m
  BY <1>1 DEF UpOK, QueueOK
<1>5. \A j : InQueue(v, j) <=> InQueue(u, j) /\ j # i
  <2>1. ASSUME NEW j, InQueue(v, j)
        PROVE  InQueue(u, j) /\ j # i
    <3>1. PICK m \in 1 .. n - 1 : v.queue[m].item = j
      BY <1>2, <2>1 DEF InQueue
    <3>2. from(m) \in 1 .. n /\ from(m) # k /\ u.queue[from(m)].item = j
      BY <1>2, <1>3, <3>1
    <3> QED
      BY <1>1, <1>4, <3>2 DEF InQueue
  <2>2. ASSUME NEW j, InQueue(u, j), j # i
        PROVE  InQueue(v, j)
    <3>1. PICK m \in 1 .. n : u.queue[m].item = j
      BY <1>1, <2>2 DEF InQueue
    <3>2. PICK x \in 1 .. n - 1 : from(x) = m
      BY <1>3, <2>2, <3>1
    <3> QED
      BY <1>2, <3>1, <3>2 DEF InQueue
  <2> QED
    BY <2>1, <2>2
<1>6. QueueOK(v)
  <2>1. \A j, m \in DOMAIN v.queue : v.queue[j].item = v.queue[m].item => j = m
    BY <1>2, <1>3, <1>4
  <2>2. \A j \in Items \ Covers : InQueue(v, j) => v.told[j] = "no" /\ j \notin v.waiting
    BY <1>5 DEF UpOK, QueueOK, OthersKept
  <2>3. \A w \in Videos : InQueue(v, CoverOf[w]) => v.told[w] # "no" \/ w \in v.waiting
    BY <1>5 DEF UpOK, QueueOK, OthersKept
  <2> QED
    BY <2>1, <2>2, <2>3 DEF QueueOK
<1>7. H \cup {} = H /\ H = OfOthers(G, i)
  BY DEF OfOthers
<1>8. \A j, d : j # i => Numbers(H, j, d) = Numbers(G, j, d)
  <2> SUFFICES ASSUME NEW j, NEW d, j # i
               PROVE  Numbers(H, j, d) = Numbers(G, j, d)
    OBVIOUS
  <2>1. { x \in H : x[1] = j /\ x[2] = d } = { x \in G : x[1] = j /\ x[2] = d }
    BY <1>7 DEF OfOthers
  <2> QED
    BY <2>1 DEF Numbers
<1> HIDE DEF G, H
<1>9. \A j \in 1 .. n - 1 : /\ v.queue[j] \in Entries /\ v.queue[j].item # i
                            /\ EntryOK(v.queue[j], G)
  <2>1. \A m \in 1 .. n : u.queue[m] \in Entries /\ EntryOK(u.queue[m], G)
    <3>1. EntriesOK(u, G)
      BY DEF UpOK, G
    <3> QED
      BY <1>1, <3>1 DEF EntriesOK
  <2>2. \A m \in 1 .. n : m # k => u.queue[m].item # i
    BY <1>1, <1>4
  <2> QED
    BY <1>2, <1>3, <2>1, <2>2
<1>10. EntriesOK(v, H)
  <2>1. ASSUME NEW j \in 1 .. n - 1
        PROVE  EntryOK(v.queue[j], H)
    <3> DEFINE e == v.queue[j]
    <3>1. EntryOK(e, G) /\ e.item # i
      BY <1>9
    <3> HIDE DEF e
    <3>2. \A d : Numbers(H, e.item, d) = Numbers(G, e.item, d)
      BY <1>8, <3>1
    <3>3. EntryOK(e, H)
      BY <3>1, <3>2 DEF EntryOK
    <3> QED
      BY <3>3 DEF e
  <2>2. \A h \in H : InQueue(v, h[1])
    BY <1>5, <1>7 DEF UpOK, EntriesOK, OfOthers, G
  <2> QED
    BY <1>2, <2>1, <2>2 DEF EntriesOK
<1>11. DocsOK(v, sv, H)
  <2>1. DocsOK(u, sv, G)
    BY DEF UpOK, G
  <2>2. \A r \in ToSet(v.requests) : r.doc => r.filePart = r.no
    BY <2>1 DEF DocsOK
  <2>3. ASSUME NEW j \in 1 .. n - 1, NEW m \in 0 .. v.queue[j].docSent - 1
        PROVE  <<v.queue[j].item, TRUE, m, m>> \in sv \/ <<v.queue[j].item, TRUE, m>> \in H
    <3>1. from(j) \in DOMAIN u.queue /\ v.queue[j] = u.queue[from(j)]
      BY <1>1, <1>2, <1>3
    <3>2. \/ <<v.queue[j].item, TRUE, m, m>> \in sv
          \/ <<v.queue[j].item, TRUE, m>> \in G
      BY <2>1, <2>3, <3>1 DEF DocsOK
    <3>3. v.queue[j].item # i
      BY <1>9
    <3> QED
      BY <1>7, <3>2, <3>3 DEF OfOthers
  <2> QED
    BY <1>2, <2>2, <2>3 DEF DocsOK
<1> QED
  BY <1>5, <1>6, <1>7, <1>10, <1>11 DEF UpOK, H

\* The requests of an item are cancelled.
LEMMA CancelRequestsIs ==
  ASSUME NEW u \in UploaderType, AmountsOK(u), NEW L, PlacesOK(u, L), NEW i,
         NEW v, v = CancelRequests(u, i)
  PROVE  /\ v \in UploaderType /\ AmountsOK(v) /\ PlacesOK(v, {})
         /\ ToSet(v.requests) \subseteq ToSet(u.requests) /\ Held(v) = OfOthers(Held(u), i)
         /\ DOMAIN v.sent = DOMAIN u.sent
         /\ v.queue = u.queue /\ v.waiting = u.waiting /\ v.told = u.told
<1> DEFINE R == OfItem(u.requests, i)
           P == OfItem(u.pending, i)
           w == Relieve(u, R)
           p == Without(u.pending, P)
<1>1. /\ R \in SUBSET ToSet(u.requests) /\ \A x \in ToSet(u.requests) : x \in R <=> x.item = i
      /\ P \in SUBSET ToSet(u.pending) /\ \A x \in ToSet(u.pending) : x \in P <=> x.item = i
  BY DEF OfItem
<1> HIDE DEF R, P
<1>2. /\ w \in UploaderType /\ AmountsOK(w) /\ SendsOnly(u, w)
      /\ ToSet(w.requests) = ToSet(u.requests) \ R
      /\ Distinct(u.requests) => Distinct(w.requests)
      /\ DOMAIN w.sent = DOMAIN u.sent
  BY <1>1, RelieveIs
<1>3. /\ p \in Seq(Requests) /\ ToSet(p) = ToSet(u.pending) \ P
      /\ Distinct(u.pending) => Distinct(p)
  BY FieldsAre, WithoutIs
<1>4. w.pending = u.pending
  BY <1>2 DEF SendsOnly, UploaderType
<1>5. v = [w EXCEPT !.pending = p]
  BY <1>4 DEF CancelRequests, R, P
<1> HIDE DEF w, p
<1>6. /\ v \in UploaderType /\ v.requests = w.requests /\ v.sent = w.sent /\ v.fast = w.fast
      /\ v.pending = p /\ v.queue = u.queue /\ v.waiting = u.waiting /\ v.told = u.told
  BY <1>2, <1>3, <1>5 DEF UploaderType, SendsOnly
<1>7. AmountsOK(v)
  BY <1>2, <1>6 DEF AmountsOK
<1>8. \A r : Key(r)[1] = r.item
  BY DEF Key
<1>9. /\ Keys(v.requests) = OfOthers(Keys(u.requests), i)
      /\ Keys(v.pending) = OfOthers(Keys(u.pending), i)
  <2>1. Keys(v.requests) = { Key(x) : x \in ToSet(u.requests) \ R }
    BY <1>2, <1>6, KeysAre
  <2>2. Keys(v.pending) = { Key(x) : x \in ToSet(u.pending) \ P }
    BY <1>3, <1>6, KeysAre
  <2>3. Keys(u.requests) = { Key(x) : x \in ToSet(u.requests) }
    BY KeysAre
  <2>4. Keys(u.pending) = { Key(x) : x \in ToSet(u.pending) }
    BY KeysAre
  <2>5. Keys(v.requests) = OfOthers(Keys(u.requests), i)
    BY <1>1, <1>8, <2>1, <2>3 DEF OfOthers
  <2>6. Keys(v.pending) = OfOthers(Keys(u.pending), i)
    BY <1>1, <1>8, <2>2, <2>4 DEF OfOthers
  <2> QED
    BY <2>5, <2>6
<1>10. Held(v) = OfOthers(Held(u), i)
  BY <1>9 DEF Held, OfOthers
<1>11. PlacesOK(v, {})
  <2>1. Distinct(v.requests) /\ Distinct(v.pending)
    BY <1>2, <1>3, <1>6 DEF PlacesOK
  <2>2. Keys(v.requests) \cap Keys(v.pending) = {}
    BY <1>9 DEF PlacesOK, OfOthers
  <2> QED
    BY <2>1, <2>2 DEF PlacesOK
<1> QED
  BY <1>2, <1>6, <1>7, <1>10, <1>11

\* An upload is cancelled, and the queue goes on: the end of failed().
LEMMA CancelledIs ==
  ASSUME NEW u \in UploaderType, NEW i, NEW m, m = Cancelled(u, i)
  PROVE  /\ m.u = [CancelRequests(u, i) EXCEPT !.posted = TRUE]
         /\ m.calls = <<DoFront>> /\ m.calls \in Seq(CallsOf(m.u))
<1>1. m.u = [CancelRequests(u, i) EXCEPT !.posted = TRUE] /\ m.calls = <<DoFront>>
  BY ThenIs DEF Cancelled
<1>2. DoFront \in CallsOf(m.u)
  BY DEF CallsOf
<1>3. <<DoFront>> \in Seq(CallsOf(m.u))
  BY <1>2, ShortLists
<1> QED
  BY <1>1, <1>3

\* The requests of an item that is not in the queue are cancelled: there are none.
LEMMA CancelledFine ==
  ASSUME NEW u \in UploaderType, NEW sv, UpOK(u, sv, {}), NEW i, ~InQueue(u, i)
  PROVE  Fine(u, Cancelled(u, i), sv)
<1> DEFINE m == Cancelled(u, i)
           w == CancelRequests(u, i)
<1>1. m.u = [w EXCEPT !.posted = TRUE] /\ m.calls \in Seq(CallsOf(m.u))
  BY CancelledIs
<1> HIDE DEF m
<1>2. AmountsOK(u) /\ PlacesOK(u, {})
  BY DEF UpOK
<1>3. /\ w \in UploaderType /\ AmountsOK(w) /\ PlacesOK(w, {})
      /\ ToSet(w.requests) \subseteq ToSet(u.requests) /\ Held(w) = OfOthers(Held(u), i)
      /\ DOMAIN w.sent = DOMAIN u.sent
      /\ w.queue = u.queue /\ w.waiting = u.waiting /\ w.told = u.told
  BY <1>2, CancelRequestsIs
<1> HIDE DEF w
<1>4. Held(w) \cup {} = Held(u) \cup {}
  <2>1. \A h \in Held(u) : h[1] # i
    BY DEF UpOK, EntriesOK
  <2> QED
    BY <1>3, <2>1 DEF OfOthers
<1>5. \A r \in ToSet(w.requests) : r.doc => r.filePart = r.no
  BY <1>3 DEF UpOK, DocsOK
<1>6. UpOK(w, sv, {})
  BY <1>3, <1>4, <1>5, Unmoved
<1>7. Grows(u, w)
  BY <1>3 DEF Grows, InQueue
<1>8. SameUploads(w, m.u)
  BY <1>1, <1>3 DEF SameUploads, UploaderType
<1>9. UpOK(m.u, sv, {}) /\ Grows(w, m.u)
  BY <1>3, <1>6, <1>8, SameUploadsKeep
<1>10. Grows(u, m.u)
  BY <1>7, <1>9, GrowsOn
<1> QED
  BY <1>1, <1>9, <1>10 DEF Fine, m

\* An upload of the queue fails, with the part of it that was refused.
LEMMA RemovedFine ==
  ASSUME NEW u \in UploaderType, NEW sv, NEW L, UpOK(u, sv, L), NEW k \in DOMAIN u.queue,
         NEW i \in Items, i = u.queue[k].item, \A h \in L : h[1] = i
  PROVE  Fine(u, Cancelled([u EXCEPT !.queue = RemoveAt(@, k), !.told[i] = "failed"], i), sv)
<1> DEFINE x == [u EXCEPT !.queue = RemoveAt(@, k), !.told[i] = "failed"]
           t == [u.told EXCEPT ![i] = "failed"]
           m == Cancelled(x, i)
           w == CancelRequests(x, i)
<1>1. /\ u.queue \in Seq(Entries) /\ u.told \in [Items -> {"no", "ready", "failed"}]
      /\ u.waiting \in SUBSET Videos
  BY FieldsAre
<1>2. Removed(RemoveAt(u.queue, k), u.queue, k)
  BY <1>1, RemovedIs
<1>3. /\ t \in [Items -> {"no", "ready", "failed"}] /\ t[i] = "failed"
      /\ \A j \in Items : j # i => t[j] = u.told[j]
  BY <1>1
<1>4. x = [u EXCEPT !.queue = RemoveAt(u.queue, k), !.told = t]
  BY DEF UploaderType
<1> HIDE DEF t
<1>5. /\ x \in UploaderType /\ x.queue = RemoveAt(u.queue, k) /\ x.told = t
      /\ x.requests = u.requests /\ x.sent = u.sent /\ x.fast = u.fast
      /\ x.pending = u.pending /\ x.waiting = u.waiting
  BY <1>2, <1>3, <1>4 DEF UploaderType, Removed
<1> HIDE DEF x
<1>6. AmountsOK(x) /\ PlacesOK(x, L)
  BY <1>5 DEF UpOK, AmountsOK, PlacesOK, Held
<1>7. /\ w \in UploaderType /\ AmountsOK(w) /\ PlacesOK(w, {})
      /\ ToSet(w.requests) \subseteq ToSet(x.requests) /\ Held(w) = OfOthers(Held(x), i)
      /\ DOMAIN w.sent = DOMAIN x.sent
      /\ w.queue = x.queue /\ w.waiting = x.waiting /\ w.told = x.told
  BY <1>5, <1>6, CancelRequestsIs
<1>8. m.u = [w EXCEPT !.posted = TRUE] /\ m.calls \in Seq(CallsOf(m.u))
  BY <1>5, CancelledIs
<1> HIDE DEF w, m
<1>9. Held(w) = OfOthers(Held(u), i)
  BY <1>5, <1>7 DEF Held
<1>10. DoneOK(w, sv)
  BY <1>3, <1>5, <1>7 DEF UpOK, DoneOK
<1>11. \A j \in Items \ Covers : j # i /\ u.told[j] = "no" /\ j \notin u.waiting
                                   => w.told[j] = "no" /\ j \notin w.waiting
  BY <1>3, <1>5, <1>7
<1>12. \A v \in Videos : u.told[v] # "no" \/ v \in u.waiting => w.told[v] # "no" \/ v \in w.waiting
  BY <1>3, <1>5, <1>7, UploaderAssumption
<1>13. UpOK(w, sv, {}) /\ \A j : InQueue(w, j) <=> InQueue(u, j) /\ j # i
  <2>1. Removed(w.queue, u.queue, k) /\ ToSet(w.requests) \subseteq ToSet(u.requests)
    BY <1>2, <1>5, <1>7
  <2>2. OthersKept(u, w, i)
    BY <1>11, <1>12 DEF OthersKept
  <2> QED
    BY <1>7, <1>9, <1>10, <2>1, <2>2, EntryDropped
<1>14. Grows(u, w)
  BY <1>5, <1>7, <1>13 DEF Grows
<1>15. SameUploads(w, m.u)
  BY <1>7, <1>8 DEF SameUploads, UploaderType
<1>16. UpOK(m.u, sv, {}) /\ Grows(w, m.u)
  BY <1>7, <1>13, <1>15, SameUploadsKeep
<1>17. Grows(u, m.u)
  BY <1>14, <1>16, GrowsOn
<1> QED
  BY <1>8, <1>16, <1>17 DEF Fine, m, x

\* A video that waits for its cover fails.
LEMMA VideoFails ==
  ASSUME NEW u \in UploaderType, NEW sv, UpOK(u, sv, {}), NEW i \in u.waiting,
         NEW v, v = [u EXCEPT !.waiting = @ \ {i}, !.told[i] = "failed"]
  PROVE  /\ v \in UploaderType /\ UpOK(v, sv, {}) /\ v.sent = u.sent /\ v.queue = u.queue
         /\ i \in Videos /\ CoverOf[i] \in Items /\ ~InQueue(v, i)
<1> DEFINE t == [u.told EXCEPT ![i] = "failed"]
           w == u.waiting \ {i}
<1>1. u.told \in [Items -> {"no", "ready", "failed"}] /\ u.waiting \in SUBSET Videos
  BY FieldsAre
<1>2. i \in Videos /\ i \in Items \ Covers /\ CoverOf[i] \in Items
  BY <1>1, UploaderAssumption DEF Covers
<1>3. /\ t \in [Items -> {"no", "ready", "failed"}] /\ t[i] = "failed"
      /\ \A j \in Items : j # i => t[j] = u.told[j]
  BY <1>1, <1>2
<1>4. v = [u EXCEPT !.waiting = w, !.told = t]
  BY DEF UploaderType
<1>5. w \in SUBSET Videos /\ i \notin w /\ \A j : j # i => (j \in w <=> j \in u.waiting)
  BY <1>1
<1> HIDE DEF t, w
<1>6. /\ v \in UploaderType /\ v.queue = u.queue /\ v.requests = u.requests /\ v.sent = u.sent
      /\ v.fast = u.fast /\ v.pending = u.pending /\ v.waiting = w /\ v.told = t
  BY <1>3, <1>4, <1>5 DEF UploaderType
<1>7. \A j : InQueue(v, j) <=> InQueue(u, j)
  BY <1>6 DEF InQueue
<1>8. ~InQueue(u, i)
  BY <1>2 DEF UpOK, QueueOK
<1>9. AmountsOK(v) /\ PlacesOK(v, {}) /\ Held(v) \cup {} = Held(u) \cup {}
  BY <1>6 DEF UpOK, AmountsOK, PlacesOK, Held
<1>10. QueueOK(v)
  <2>1. \A j, k \in DOMAIN v.queue : v.queue[j].item = v.queue[k].item => j = k
    BY <1>6 DEF UpOK, QueueOK
  <2>2. \A j \in Items \ Covers : InQueue(v, j) => v.told[j] = "no" /\ j \notin v.waiting
    BY <1>3, <1>5, <1>6, <1>7, <1>8 DEF UpOK, QueueOK
  <2>3. \A x \in Videos : InQueue(v, CoverOf[x]) => v.told[x] # "no" \/ x \in v.waiting
    <3> TAKE x \in Videos
    <3>1. x \in Items
      BY UploaderAssumption
    <3>2. InQueue(u, CoverOf[x]) => u.told[x] # "no" \/ x \in u.waiting
      BY DEF UpOK, QueueOK
    <3>3. CASE x = i
      BY <1>3, <1>6, <3>3
    <3>4. CASE x # i
      BY <1>3, <1>5, <1>6, <1>7, <3>1, <3>2, <3>4
    <3> QED
      BY <3>3, <3>4
  <2> QED
    BY <2>1, <2>2, <2>3 DEF QueueOK
<1>11. EntriesOK(v, Held(v) \cup {}) /\ DocsOK(v, sv, Held(v) \cup {})
  BY <1>6, <1>7, <1>9 DEF UpOK, EntriesOK, DocsOK
<1>12. DoneOK(v, sv)
  BY <1>3, <1>5, <1>6 DEF UpOK, DoneOK
<1> QED
  BY <1>2, <1>6, <1>7, <1>8, <1>9, <1>10, <1>11, <1>12 DEF UpOK

\* failed(), of an upload and of its part that was refused.
LEMMA FailedFine ==
  ASSUME NEW u \in UploaderType, NEW sv, NEW L, UpOK(u, sv, L), NEW i \in Items,
         \A h \in L : h[1] = i
  PROVE  Fine(u, Failed(u, i), sv)
<1> DEFINE k == Place(u, i)
           fail(w) == [u EXCEPT !.waiting = @ \ {w}, !.told[w] = "failed"]
           coverFor == { w \in u.waiting : CoverOf[w] = i }
<1>1. CASE k # 0
  <2>1. Failed(u, i) = Cancelled([u EXCEPT !.queue = RemoveAt(@, k), !.told[i] = "failed"], i)
    BY <1>1 DEF Failed
  <2>2. k \in DOMAIN u.queue /\ u.queue[k].item = i
    BY <1>1, PlaceIs
  <2> HIDE DEF k
  <2> QED
    BY <2>1, <2>2, RemovedFine
<1>2. CASE k = 0
  <2>1. ~InQueue(u, i)
    BY <1>2, PlaceIs
  <2>2. L = {}
    BY <2>1 DEF UpOK, EntriesOK
  <2>3. UpOK(u, sv, {})
    BY <2>2
  <2>4. ASSUME NEW w \in u.waiting
        PROVE  /\ fail(w) \in UploaderType /\ UpOK(fail(w), sv, {}) /\ Grows(u, fail(w))
               /\ ~InQueue(fail(w), i)
               /\ w \in Videos /\ CoverOf[w] \in Items /\ ~InQueue(fail(w), w)
    <3> DEFINE v == fail(w)
    <3>1. v = [u EXCEPT !.waiting = @ \ {w}, !.told[w] = "failed"]
      OBVIOUS
    <3> HIDE DEF v
    <3>2. /\ v \in UploaderType /\ UpOK(v, sv, {}) /\ v.sent = u.sent /\ v.queue = u.queue
          /\ w \in Videos /\ CoverOf[w] \in Items /\ ~InQueue(v, w)
      BY <2>3, <3>1, VideoFails
    <3>3. Grows(u, v) /\ ~InQueue(v, i)
      BY <2>1, <3>2 DEF Grows, InQueue
    <3> QED
      BY <3>2, <3>3 DEF v
  <2>5. CASE i \in u.waiting
    <3>1. Failed(u, i) = Then(fail(i), <<DoFailed(CoverOf[i]), DoCancel(i)>>)
      <4>1. i \in Videos /\ \A w \in u.waiting : w \in Videos
        BY <2>5, FieldsAre
      <4>2. coverFor = {}
        BY <4>1, UploaderAssumption DEF Covers
      <4> QED
        BY <1>2, <2>5, <4>2 DEF Failed
    <3>2. /\ fail(i) \in UploaderType /\ UpOK(fail(i), sv, {}) /\ Grows(u, fail(i))
          /\ i \in Videos /\ CoverOf[i] \in Items /\ ~InQueue(fail(i), i)
      BY <2>4, <2>5
    <3> HIDE DEF fail
    <3>3. DoFailed(CoverOf[i]) \in CallsOf(fail(i)) /\ DoCancel(i) \in CallsOf(fail(i))
      BY <3>2 DEF CallsOf
    <3>4. <<DoFailed(CoverOf[i]), DoCancel(i)>> \in Seq(CallsOf(fail(i)))
      BY <3>3, ShortLists
    <3> QED
      BY <3>1, <3>2, <3>4, ThenFine
  <2>6. CASE i \notin u.waiting /\ coverFor # {}
    <3> DEFINE w == CHOOSE w \in coverFor : TRUE
    <3>1. w \in coverFor
      BY <2>6
    <3>2. Failed(u, i) = Cancelled(fail(w), i)
      BY <1>2, <2>6 DEF Failed
    <3> HIDE DEF w
    <3>3. fail(w) \in UploaderType /\ UpOK(fail(w), sv, {}) /\ Grows(u, fail(w)) /\ ~InQueue(fail(w), i)
      BY <2>4, <3>1
    <3> HIDE DEF fail
    <3>4. Fine(fail(w), Failed(u, i), sv)
      BY <3>2, <3>3, CancelledFine
    <3> QED
      BY <3>3, <3>4, GrowsOn DEF Fine
  <2>7. CASE i \notin u.waiting /\ coverFor = {}
    <3>1. Failed(u, i) = Cancelled(u, i)
      BY <1>2, <2>7 DEF Failed
    <3> QED
      BY <2>1, <2>3, <3>1, CancelledFine
  <2> QED
    BY <2>5, <2>6, <2>7
<1> QED
  BY <1>1, <1>2

\* Every upload of the queue fails.
LEMMA FailAllFine ==
  ASSUME NEW u \in UploaderType, NEW sv, UpOK(u, sv, {})
  PROVE  Fine(u, FailAll(u), sv)
<1>1. CASE u.queue = <<>>
  <2>1. FailAll(u) = Then(u, <<>>) /\ <<>> \in Seq(CallsOf(u))
    BY <1>1 DEF FailAll
  <2> QED
    BY <2>1, GrowsNot, ThenFine
<1>2. CASE u.queue # <<>>
  <2> DEFINE i == Head(u.queue).item
  <2>1. FailAll(u) = Then(u, <<DoFailed(i), DoFailAll>>)
    BY <1>2 DEF FailAll
  <2>2. i \in Items
    <3>1. Head(u.queue) \in Entries
      BY <1>2, FieldsAre
    <3> QED
      BY <3>1 DEF Entries
  <2> HIDE DEF i
  <2>3. DoFailed(i) \in CallsOf(u) /\ DoFailAll \in CallsOf(u)
    BY <2>2 DEF CallsOf
  <2>4. <<DoFailed(i), DoFailAll>> \in Seq(CallsOf(u))
    BY <2>3, ShortLists
  <2> QED
    BY <2>1, <2>4, GrowsNot, ThenFine
<1> QED
  BY <1>1, <1>2

\* The upload at the front of which nothing is left: no part of it is out, and
\* all parts of its document are saved.
LEMMA CompleteIs ==
  ASSUME NEW u \in UploaderType, NEW sv, UpOK(u, sv, {}), u.queue # <<>>,
         Complete(Head(u.queue)), NEW i, i = Head(u.queue).item
  PROVE  /\ 1 \in DOMAIN u.queue /\ u.queue[1].item = i /\ Removed(Tail(u.queue), u.queue, 1)
         /\ i \in Items /\ Held(u) = OfOthers(Held(u), i)
         /\ \A n \in 0 .. DocParts[i] - 1 : <<i, TRUE, n, n>> \in sv
<1> DEFINE e == u.queue[1]
           H == Held(u)
<1>1. u.queue \in Seq(Entries) /\ 1 \in DOMAIN u.queue /\ Head(u.queue) = e
  BY FieldsAre
<1>2. Removed(Tail(u.queue), u.queue, 1)
  BY <1>1, RemovedIs
<1>3. /\ e \in Entries /\ EntryOK(e, H) /\ Parts[e.item] \in Nat /\ DocParts[e.item] \in Nat
      /\ \A n \in 0 .. e.docSent - 1 : <<e.item, TRUE, n, n>> \in sv \/ <<e.item, TRUE, n>> \in H
  BY <1>1, EntryIs
<1>4. Complete(e) /\ i = e.item
  BY <1>1
<1> HIDE DEF e, H
<1>5. /\ e.waits = 0 /\ e.docWaits = 0 /\ e.docSent >= DocParts[i] /\ e.docSent <= DocParts[i]
      /\ Cardinality(Numbers(H, i, FALSE)) = 0 /\ Cardinality(Numbers(H, i, TRUE)) = 0
      /\ Numbers(H, i, FALSE) \subseteq 0 .. e.sent - 1
      /\ Numbers(H, i, TRUE) \subseteq 0 .. e.docSent - 1
  <2>1. /\ e.waits = Cardinality(Numbers(H, e.item, FALSE))
        /\ e.docWaits = Cardinality(Numbers(H, e.item, TRUE))
        /\ Numbers(H, e.item, FALSE) \subseteq 0 .. e.sent - 1
        /\ Numbers(H, e.item, TRUE) \subseteq 0 .. e.docSent - 1
        /\ e.docSent <= DocParts[e.item]
    BY <1>3 DEF EntryOK
  <2>2. e.waits = 0 /\ e.docWaits = 0 /\ e.docSent >= DocParts[e.item]
    BY <1>4 DEF Complete
  <2> QED
    BY <1>4, <2>1, <2>2
<1>6. e.docSent \in Nat /\ e.sent \in Nat /\ e.item \in Items
  BY <1>3 DEF Entries
<1>7. Numbers(H, i, FALSE) = {} /\ Numbers(H, i, TRUE) = {}
  <2>1. ASSUME NEW S, NEW n \in Nat, S \subseteq 0 .. n - 1, Cardinality(S) = 0
        PROVE  S = {}
    <3>1. IsFiniteSet(0 .. n - 1)
      BY FS_Interval
    <3>2. IsFiniteSet(S)
      BY <2>1, <3>1, FS_Subset
    <3> QED
      BY <2>1, <3>2, FS_EmptySet
  <2> QED
    BY <1>5, <1>6, <2>1
<1>8. \A h \in H : h[1] # i
  <2>1. \A h \in H : h[2] \in BOOLEAN
    <3>1. H \subseteq Parted
      BY HeldAre DEF H
    <3> QED
      BY <3>1 DEF Parted
  <2>2. \A h \in H : ~(h[1] = i /\ h[2] = FALSE) /\ ~(h[1] = i /\ h[2] = TRUE)
    BY <1>7 DEF Numbers
  <2> QED
    BY <2>1, <2>2
<1>9. \A n \in 0 .. DocParts[i] - 1 : <<i, TRUE, n, n>> \in sv
  <2> TAKE n \in 0 .. DocParts[i] - 1
  <2>1. e.docSent = DocParts[i]
    BY <1>3, <1>4, <1>5, <1>6
  <2>2. n \in 0 .. e.docSent - 1
    BY <2>1
  <2>3. <<i, TRUE, n>> \notin H
    <3>1. <<i, TRUE, n>>[1] = i
      OBVIOUS
    <3> QED
      BY <1>8, <3>1
  <2> QED
    BY <1>3, <1>4, <2>2, <2>3
<1>10. H = OfOthers(H, i)
  BY <1>8 DEF OfOthers
<1> QED
  BY <1>1, <1>2, <1>4, <1>6, <1>9, <1>10 DEF H, e

\* What may become of an item that is complete.
MayBecome(u, i, w, d, t) ==
  /\ w \in SUBSET Videos /\ (w = u.waiting \/ w = u.waiting \cup {i})
  /\ d \in SUBSET Covers
  /\ t \in [Items -> {"no", "ready", "failed"}]
  /\ (t = u.told \/ t = [u.told EXCEPT ![i] = "ready"])

\* The front leaves the queue, with what becomes of its item.
FrontLeft(u, w, d, t) ==
  [u EXCEPT !.queue = Tail(@), !.waiting = w, !.media = d, !.told = t]

\* An upload that is complete leaves the queue, and what is right stays so.
LEMMA FrontLeaves ==
  ASSUME NEW u \in UploaderType, NEW sv, UpOK(u, sv, {}), u.queue # <<>>,
         Complete(Head(u.queue)), NEW i, i = Head(u.queue).item,
         NEW w, NEW d, NEW t, MayBecome(u, i, w, d, t), NEW v, v = FrontLeft(u, w, d, t)
  PROVE  /\ v \in UploaderType /\ UpOK(v, sv, {}) /\ v.sent = u.sent
         /\ v.waiting = w /\ v.told = t /\ \A j : InQueue(v, j) <=> InQueue(u, j) /\ j # i
<1>1. /\ 1 \in DOMAIN u.queue /\ u.queue[1].item = i /\ Removed(Tail(u.queue), u.queue, 1)
      /\ i \in Items /\ Held(u) = OfOthers(Held(u), i)
      /\ \A n \in 0 .. DocParts[i] - 1 : <<i, TRUE, n, n>> \in sv
  BY CompleteIs
<1>2. /\ v \in UploaderType /\ v.queue = Tail(u.queue) /\ v.requests = u.requests /\ v.sent = u.sent
      /\ v.fast = u.fast /\ v.pending = u.pending /\ v.waiting = w /\ v.told = t
  BY <1>1 DEF UploaderType, Removed, FrontLeft, MayBecome
<1>3. /\ \A j : j \in w => j \in u.waiting \/ j = i
      /\ \A j : j \in u.waiting => j \in w
  BY DEF MayBecome
<1>4. \A j \in Items : t[j] = u.told[j] \/ (j = i /\ t[j] = "ready")
  BY FieldsAre DEF MayBecome
<1>5. AmountsOK(v) /\ PlacesOK(v, {}) /\ Held(v) = Held(u)
  BY <1>2 DEF UpOK, AmountsOK, PlacesOK, Held
<1>6. DoneOK(v, sv)
  <2> SUFFICES ASSUME NEW j \in Items, t[j] = "ready" \/ j \in w, NEW n \in 0 .. DocParts[j] - 1
               PROVE  <<j, TRUE, n, n>> \in sv
    BY <1>2 DEF DoneOK
  <2>1. CASE j = i
    BY <1>1, <2>1
  <2>2. CASE j # i
    <3>1. u.told[j] = "ready" \/ j \in u.waiting
      BY <1>3, <1>4, <2>2
    <3> QED
      BY <3>1 DEF UpOK, DoneOK
  <2> QED
    BY <2>1, <2>2
<1>7. \A j \in Items \ Covers : j # i /\ u.told[j] = "no" /\ j \notin u.waiting
                                  => v.told[j] = "no" /\ j \notin v.waiting
  BY <1>2, <1>3, <1>4
<1>8. \A x \in Videos : u.told[x] # "no" \/ x \in u.waiting => v.told[x] # "no" \/ x \in v.waiting
  <2>1. \A x \in Videos : x \in Items
    BY UploaderAssumption
  <2> QED
    BY <1>2, <1>3, <1>4, <2>1
<1>9. UpOK(v, sv, {}) /\ \A j : InQueue(v, j) <=> InQueue(u, j) /\ j # i
  <2>1. Removed(v.queue, u.queue, 1) /\ Held(v) = OfOthers(Held(u), i)
        /\ ToSet(v.requests) \subseteq ToSet(u.requests)
    BY <1>1, <1>2, <1>5
  <2> DEFINE L == {}
  <2>2. UpOK(u, sv, L) /\ \A h \in L : h[1] = i
    OBVIOUS
  <2> HIDE DEF L
  <2>3. PICK k \in DOMAIN u.queue : i = u.queue[k].item /\ Removed(v.queue, u.queue, k)
    BY <1>1, <1>2, <2>1
  <2>4. OthersKept(u, v, i)
    BY <1>7, <1>8 DEF OthersKept
  <2> QED
    BY <1>2, <1>5, <1>6, <2>1, <2>2, <2>3, <2>4, EntryDropped
<1> QED
  BY <1>2, <1>9

\* finishFront() for an upload that is complete, and the next one after it.
LEMMA MaybeFinishFrontFine ==
  ASSUME NEW u \in UploaderType, NEW sv, UpOK(u, sv, {})
  PROVE  Fine(u, MaybeFinishFront(u), sv)
<1>1. CASE ~(u.queue # <<>> /\ Complete(Head(u.queue)))
  <2>1. MaybeFinishFront(u) = Then(u, <<>>) /\ <<>> \in Seq(CallsOf(u))
    BY <1>1 DEF MaybeFinishFront
  <2> QED
    BY <2>1, GrowsNot, ThenFine
<1>2. CASE u.queue # <<>> /\ Complete(Head(u.queue))
  <2> DEFINE i == Head(u.queue).item
             m == FinishFront(u)
             gone == [u EXCEPT !.queue = Tail(@)]
             t == [u.told EXCEPT ![i] = "ready"]
  <2>1. MaybeFinishFront(u) = Then(m.u, Append(m.calls, DoFront))
    BY <1>2 DEF MaybeFinishFront
  <2>2. /\ u.waiting \in SUBSET Videos /\ u.media \in SUBSET Covers
        /\ u.told \in [Items -> {"no", "ready", "failed"}]
    BY FieldsAre
  <2>3. i \in Items /\ InQueue(u, i)
    <3>1. i \in Items /\ 1 \in DOMAIN u.queue /\ u.queue[1].item = i
      BY <1>2, CompleteIs
    <3> QED
      BY <3>1 DEF InQueue
  <2>4. t \in [Items -> {"no", "ready", "failed"}]
    BY <2>2
  <2>5. ASSUME UpOK(m.u, sv, {}), Grows(u, m.u), m.calls \in Seq(CallsOf(m.u))
        PROVE  Fine(u, MaybeFinishFront(u), sv)
    <3>1. DoFront \in CallsOf(m.u)
      BY DEF CallsOf
    <3> HIDE DEF m
    <3>2. Append(m.calls, DoFront) \in Seq(CallsOf(m.u))
      BY <2>5, <3>1, AppendIs
    <3> QED
      BY <2>1, <2>5, <3>2, ThenFine
  <2>6. CASE i \in Videos
    <3> DEFINE w == u.waiting \cup {i}
               c == CoverOf[i]
               v == FrontLeft(u, w, u.media, u.told)
    <3>1. m = Push(v, c)
      <4>1. [gone EXCEPT !.waiting = @ \cup {i}] = v
        BY DEF FrontLeft, UploaderType
      <4>2. m = Push([gone EXCEPT !.waiting = @ \cup {i}], c)
        <5>1. i \notin Covers /\ \A x \in u.waiting : x \in Videos
          BY <2>2, <2>6, UploaderAssumption
        <5>2. ~\E x \in u.waiting : CoverOf[x] = i
          BY <5>1 DEF Covers
        <5> QED
          BY <2>6, <5>2 DEF FinishFront
      <4> QED
        BY <4>1, <4>2
    <3>2. w \in SUBSET Videos /\ i \in w
      BY <2>2, <2>6
    <3>3. c \in Items /\ c \in Covers /\ i \notin Covers /\ \A x \in Videos : CoverOf[x] = c => x = i
      BY <2>6, UploaderAssumption DEF Covers
    <3> HIDE DEF i, t, m
    <3>4. /\ v \in UploaderType /\ UpOK(v, sv, {}) /\ v.sent = u.sent
          /\ v.waiting = w /\ v.told = u.told /\ \A j : InQueue(v, j) <=> InQueue(u, j) /\ j # i
      <4>1. i = Head(u.queue).item
        BY DEF i
      <4>2. v = FrontLeft(u, w, u.media, u.told)
        OBVIOUS
      <4>3. MayBecome(u, i, w, u.media, u.told)
        BY <2>2, <3>2 DEF MayBecome
      <4> HIDE DEF w, v
      <4> QED
        BY <1>2, <4>1, <4>2, <4>3, FrontLeaves
    <3>5. ~InQueue(v, c)
      <4>1. u.told[i] = "no" /\ i \notin u.waiting
        BY <2>3, <3>3 DEF UpOK, QueueOK
      <4>2. InQueue(u, c) => u.told[i] # "no" \/ i \in u.waiting
        BY <2>6 DEF UpOK, QueueOK
      <4> QED
        BY <3>4, <4>1, <4>2
    <3>6. \A x \in Videos : CoverOf[x] = c => v.told[x] # "no" \/ x \in v.waiting
      BY <3>2, <3>3, <3>4
    <3> HIDE DEF v, c, w
    <3> DEFINE y == Push(v, c).u
    <3>7. /\ y \in UploaderType /\ UpOK(y, sv, {}) /\ DOMAIN y.sent = DOMAIN v.sent
          /\ \A j : InQueue(y, j) <=> InQueue(v, j) \/ j = c
          /\ Push(v, c).calls = <<>> \/ Push(v, c).calls = <<DoMaybeSend>>
      <4>1. y = Push(v, c).u
        OBVIOUS
      <4> HIDE DEF y
      <4> QED
        BY <3>3, <3>4, <3>5, <3>6, <4>1, PushIs
    <3> HIDE DEF y
    <3>8. Grows(u, y)
      BY <3>3, <3>4, <3>7, UploaderAssumption DEF Grows
    <3>9. DoMaybeSend \in CallsOf(y)
      BY DEF CallsOf
    <3>10. Push(v, c).calls \in Seq(CallsOf(y))
      BY <3>7, <3>9, ShortLists
    <3>11. m.u = y
      BY <3>1 DEF y
    <3> QED
      BY <2>5, <3>1, <3>7, <3>8, <3>10, <3>11
  <2>7. ASSUME NEW v, m = Then(v, <<>>), v \in UploaderType, UpOK(v, sv, {}), v.sent = u.sent,
               \A j : InQueue(v, j) <=> InQueue(u, j) /\ j # i
        PROVE  Fine(u, MaybeFinishFront(u), sv)
    <3> HIDE DEF m, i
    <3>1. m.u = v /\ m.calls = <<>>
      BY <2>7, ThenIs
    <3>2. Grows(u, v)
      BY <2>7 DEF Grows
    <3>3. <<>> \in Seq(CallsOf(v))
      OBVIOUS
    <3> QED
      BY <2>5, <2>7, <3>1, <3>2, <3>3
  <2>8. CASE i \notin Videos /\ \E x \in u.waiting : CoverOf[x] = i
    <3> DEFINE d == u.media \cup {i}
               v == FrontLeft(u, u.waiting, d, u.told)
    <3>1. d \in SUBSET Covers
      BY <2>2, <2>8 DEF Covers
    <3>2. m = Then(v, <<>>)
      <4>1. [gone EXCEPT !.media = @ \cup {i}] = v
        BY DEF FrontLeft, UploaderType
      <4>2. m = Then([gone EXCEPT !.media = @ \cup {i}], <<>>)
        BY <2>8 DEF FinishFront
      <4> QED
        BY <4>1, <4>2
    <3>3. MayBecome(u, i, u.waiting, d, u.told)
      BY <2>2, <3>1 DEF MayBecome
    <3> HIDE DEF d, v, m, t, i
    <3>4. i = Head(u.queue).item /\ v = FrontLeft(u, u.waiting, d, u.told)
      BY DEF i, v
    <3>5. /\ v \in UploaderType /\ UpOK(v, sv, {}) /\ v.sent = u.sent
          /\ \A j : InQueue(v, j) <=> InQueue(u, j) /\ j # i
      BY <1>2, <3>4, <3>3, FrontLeaves
    <3> QED
      BY <2>7, <3>2, <3>5
  <2>9. CASE i \notin Videos /\ ~\E x \in u.waiting : CoverOf[x] = i
    <3> DEFINE v == FrontLeft(u, u.waiting, u.media, t)
    <3>1. m = Then(v, <<>>)
      <4>1. [gone EXCEPT !.told[i] = "ready"] = v
        BY DEF FrontLeft, UploaderType
      <4>2. m = Then([gone EXCEPT !.told[i] = "ready"], <<>>)
        BY <2>9 DEF FinishFront
      <4> QED
        BY <4>1, <4>2
    <3>2. MayBecome(u, i, u.waiting, u.media, t)
      BY <2>2, <2>4 DEF MayBecome
    <3> HIDE DEF v, m, t, i
    <3>3. i = Head(u.queue).item /\ v = FrontLeft(u, u.waiting, u.media, t)
      BY DEF i, v
    <3>4. /\ v \in UploaderType /\ UpOK(v, sv, {}) /\ v.sent = u.sent
          /\ \A j : InQueue(v, j) <=> InQueue(u, j) /\ j # i
      BY <1>2, <3>2, <3>3, FrontLeaves
    <3> QED
      BY <2>7, <3>1, <3>4
  <2> QED
    BY <2>6, <2>8, <2>9
<1> QED
  BY <1>1, <1>2

-----------------------------------------------------------------------------
(* A handler makes its calls. *)

\* A call keeps what it is made of.
LEMMA MakeFine ==
  ASSUME NEW u \in UploaderType, NEW sv, UpOK(u, sv, {}), NEW c \in CallsOf(u)
  PROVE  Fine(u, Make(u, c), sv)
<1>1. \/ c \in {DoMaybeSend, DoFront, DoFailAll}
      \/ \E used \in SUBSET Nat : c = DoFill(used)
      \/ \E s \in DOMAIN u.sent, used \in SUBSET Nat : c = DoNext(s, used)
      \/ \E s \in DOMAIN u.sent, used \in SUBSET Nat : c = DoPart(s, used)
      \/ \E i \in Items : c = DoFailed(i)
      \/ \E i \in { v \in Videos : ~InQueue(u, v) } : c = DoCancel(i)
  BY DEF CallsOf
<1>2. CASE c = DoMaybeSend
  <2>1. Make(u, c) = MaybeSend(u)
    BY <1>2 DEF Make, DoMaybeSend
  <2> QED
    BY <2>1, MaybeSendFine
<1>3. CASE c = DoFront
  <2>1. Make(u, c) = MaybeFinishFront(u)
    BY <1>3 DEF Make, DoFront
  <2> QED
    BY <2>1, MaybeFinishFrontFine
<1>4. CASE c = DoFailAll
  <2>1. Make(u, c) = FailAll(u)
    BY <1>4 DEF Make, DoFailAll
  <2> QED
    BY <2>1, FailAllFine
<1>5. ASSUME NEW used \in SUBSET Nat, c = DoFill(used)
      PROVE  Fine(u, Make(u, c), sv)
  <2>1. Make(u, c) = FillSessions(u, used)
    BY <1>5 DEF Make, DoFill
  <2> QED
    BY <2>1, FillSessionsFine
<1>6. ASSUME NEW s \in DOMAIN u.sent, NEW used \in SUBSET Nat, c = DoNext(s, used)
      PROVE  Fine(u, Make(u, c), sv)
  <2>1. Make(u, c) = NextSession(u, s, used)
    BY <1>6 DEF Make, DoNext
  <2> QED
    BY <2>1, NextSessionFine
<1>7. ASSUME NEW s \in DOMAIN u.sent, NEW used \in SUBSET Nat, c = DoPart(s, used)
      PROVE  Fine(u, Make(u, c), sv)
  <2>1. Make(u, c) = FillSession(u, s, used)
    BY <1>7 DEF Make, DoPart
  <2> QED
    BY <2>1, FillSessionFine
<1>8. ASSUME NEW i \in Items, c = DoFailed(i)
      PROVE  Fine(u, Make(u, c), sv)
  <2>1. Make(u, c) = Failed(u, i)
    BY <1>8 DEF Make, DoFailed
  <2> DEFINE L == {}
  <2>2. UpOK(u, sv, L) /\ \A h \in L : h[1] = i
    OBVIOUS
  <2> HIDE DEF L
  <2> QED
    BY <2>1, <2>2, FailedFine
<1>9. ASSUME NEW i \in { v \in Videos : ~InQueue(u, v) }, c = DoCancel(i)
      PROVE  Fine(u, Make(u, c), sv)
  <2>1. Make(u, c) = Cancelled(u, i)
    BY <1>9 DEF Make, DoCancel
  <2> QED
    BY <2>1, CancelledFine
<1> QED
  BY <1>1, <1>2, <1>3, <1>4, <1>5, <1>6, <1>7, <1>8, <1>9

\* The first of a sequence, and the others.
LEMMA FirstAndOthers ==
  ASSUME NEW S, NEW s \in Seq(S), s # <<>>
  PROVE  Head(s) \in S /\ Tail(s) \in Seq(S)
OBVIOUS

\* The only member.
LEMMA TheIs ==
  ASSUME NEW x
  PROVE  The({x}) = x
BY DEF The

\* What is first in calls is made, and the others are left.
LEMMA StepIs ==
  ASSUME NEW m, m.calls # <<>>
  PROVE  Step(m) = Then(Make(m.u, Head(m.calls)).u, Make(m.u, Head(m.calls)).calls \o Tail(m.calls))
<1> DEFINE v == Make(m.u, Head(m.calls))
           F(x) == Then(x.u, x.calls \o Tail(m.calls))
<1>1. Step(m) = The({ F(x) : x \in {v} })
  BY DEF Step
<1> HIDE DEF F, v
<1>2. { F(x) : x \in {v} } = { F(v) }
  OBVIOUS
<1>3. Step(m) = F(v)
  BY <1>1, <1>2, TheIs
<1> QED
  BY <1>3 DEF F, v

\* A step of a handler keeps what it should.
LEMMA StepFine ==
  ASSUME NEW u, NEW sv, NEW m, Fine(u, m, sv)
  PROVE  Fine(u, Step(m), sv)
<1>1. CASE m.calls = <<>>
  BY <1>1 DEF Step
<1>2. CASE m.calls # <<>>
  <2> DEFINE c == Head(m.calls)
             v == Make(m.u, c)
             rest == Tail(m.calls)
             w == Then(v.u, v.calls \o rest)
  <2>1. UpOK(m.u, sv, {}) /\ Grows(u, m.u) /\ m.calls \in Seq(CallsOf(m.u))
    BY DEF Fine
  <2>2. c \in CallsOf(m.u) /\ rest \in Seq(CallsOf(m.u))
    BY <1>2, <2>1, FirstAndOthers
  <2>3. m.u \in UploaderType
    BY <2>1 DEF UpOK
  <2> HIDE DEF c, rest
  <2>4. Fine(m.u, v, sv)
    BY <2>1, <2>2, <2>3, MakeFine
  <2> HIDE DEF v
  <2>5. UpOK(v.u, sv, {}) /\ Grows(m.u, v.u) /\ v.calls \in Seq(CallsOf(v.u))
    BY <2>4 DEF Fine
  <2>6. rest \in Seq(CallsOf(v.u))
    BY <2>2, <2>5, CallsGrow
  <2>7. v.calls \o rest \in Seq(CallsOf(v.u))
    BY <2>5, <2>6, ConcatIs
  <2>8. Grows(u, v.u)
    BY <2>1, <2>5, GrowsOn
  <2>9. Fine(u, w, sv)
    BY <2>5, <2>7, <2>8, ThenFine
  <2>10. Step(m) = w
    BY <1>2, StepIs DEF v, c, rest
  <2> QED
    BY <2>9, <2>10
<1> QED
  BY <1>1, <1>2

\* After all calls of a handler: what its first step makes is kept.
LEMMA DoIs ==
  ASSUME NEW u, NEW calls, NEW a, NEW sv, Fine(a, Step(Then(u, calls)), sv)
  PROVE  UpOK(Do(u, calls), sv, {}) /\ Grows(a, Do(u, calls))
<1> DEFINE m0 == Then(u, calls)
           Round(g, n) == IF n = 0 THEN m0 ELSE The({ Step(m) : m \in {g[n - 1]} })
           Keeps(g, n) == g = [k \in 0 .. n |-> Round(g, k)]
           after == CHOOSE g : Keeps(g, MaxCalls)
           End(m) == IF Assert(m.calls = <<>>, "MaxCalls is too small") THEN m.u ELSE m.u
           N == MaxCalls
<1>1. Do(u, calls) = The({ End(m) : m \in {after[MaxCalls]} })
  BY DEF Do
<1>2. N \in Nat /\ N > 0
  BY SizesAre
<1>3. \A g, n : n # 0 => Round(g, n) = Step(g[n - 1])
  <2> SUFFICES ASSUME NEW g, NEW n, n # 0
               PROVE  Round(g, n) = Step(g[n - 1])
    OBVIOUS
  <2>1. { Step(m) : m \in {g[n - 1]} } = { Step(g[n - 1]) }
    OBVIOUS
  <2>2. The({ Step(m) : m \in {g[n - 1]} }) = Step(g[n - 1])
    BY <2>1, TheIs
  <2> QED
    BY <2>2
<1>4. Do(u, calls) = after[MaxCalls].u
  <2> HIDE DEF after
  <2>1. \A m : End(m) = m.u
    OBVIOUS
  <2> HIDE DEF End
  <2>2. { End(m) : m \in {after[MaxCalls]} } = { after[MaxCalls].u }
    BY <2>1
  <2> QED
    BY <1>1, <2>2, TheIs
<1>5. \A g : Round(g, 0) = m0
  OBVIOUS
<1> DEFINE Has(n) == \E g : Keeps(g, n)
<1>6. ASSUME NEW n \in 1 .. N, Has(n - 1)
      PROVE  Has(n)
  <2>1. PICK g : Keeps(g, n - 1)
    BY <1>6
  <2> DEFINE h == [k \in 0 .. n |-> IF k = n THEN Round(g, n) ELSE g[k]]
  <2>2. \A k \in 0 .. n - 1 : g[k] = Round(g, k)
    <3> HIDE DEF Round
    <3> QED
      BY <2>1
  <2>3. ASSUME NEW k \in 0 .. n
        PROVE  h[k] = Round(h, k)
    <3>1. k # 0 => h[k - 1] = g[k - 1]
      BY <1>2
    <3>2. k # n => k \in 0 .. n - 1
      BY <1>2
    <3>3. h[k] = IF k = n THEN Round(g, n) ELSE g[k]
      OBVIOUS
    <3>4. Round(h, k) = Round(g, k)
      <4> HIDE DEF h
      <4>1. CASE k = 0
        BY <1>5, <4>1
      <4>2. CASE k # 0
        <5>1. Round(h, k) = Step(h[k - 1]) /\ Round(g, k) = Step(g[k - 1])
          <6> HIDE DEF Round
          <6> QED
            BY <1>3, <4>2
        <5> HIDE DEF Round
        <5> QED
          BY <3>1, <4>2, <5>1
      <4> QED
        BY <4>1, <4>2
    <3> HIDE DEF h, Round
    <3> QED
      BY <2>2, <3>2, <3>3, <3>4
  <2> HIDE DEF Round
  <2>4. Keeps(h, n)
    BY <2>3
  <2> QED
    BY <2>4
<1>7. Has(0)
  <2>1. \A k \in 0 .. 0 : k = 0
    OBVIOUS
  <2> DEFINE g == [k \in 0 .. 0 |-> m0]
  <2>2. \A k \in 0 .. 0 : Round(g, k) = m0
    BY <1>5, <2>1
  <2> HIDE DEF Round, m0
  <2>3. Keeps(g, 0)
    BY <2>2
  <2> QED
    BY <2>3
<1> HIDE DEF Has
<1>8. Has(N)
  <2> DEFINE X == { n \in 0 .. N : Has(n) }
  <2>1. 0 .. N \subseteq X
    <3>1. 0 \in X /\ \A n \in 1 .. N : n - 1 \in X => n \in X
      BY <1>2, <1>6, <1>7
    <3> HIDE DEF X, N
    <3> QED
      BY <1>2, <3>1, UpTo
  <2> QED
    BY <1>2, <2>1
<1>9. Keeps(after, N)
  <2> HIDE DEF Keeps
  <2> QED
    BY <1>8 DEF Has
<1> HIDE DEF after
<1>10. after[0] = m0 /\ \A n \in 1 .. N : after[n] = Step(after[n - 1])
  <2>1. \A n \in 0 .. N : after[n] = Round(after, n)
    <3> HIDE DEF Round
    <3> QED
      BY <1>9
  <2>2. 0 \in 0 .. N /\ \A n \in 1 .. N : n \in 0 .. N /\ n # 0
    BY <1>2
  <2> HIDE DEF Round
  <2> QED
    BY <1>3, <1>5, <2>1, <2>2
<1> HIDE DEF m0, N
<1> DEFINE Good(n) == n # 0 => Fine(a, after[n], sv)
<1>11. ASSUME NEW n \in 1 .. N, Good(n - 1)
       PROVE  Good(n)
  <2>1. after[n] = Step(after[n - 1])
    BY <1>10
  <2>2. CASE n - 1 = 0
    BY <1>10, <2>1, <2>2 DEF m0
  <2>3. CASE n - 1 # 0
    BY <1>11, <2>1, <2>3, StepFine
  <2> QED
    BY <2>2, <2>3
<1>12. Good(0)
  OBVIOUS
<1> HIDE DEF Good
<1>13. Good(N)
  <2> DEFINE X == { n \in 0 .. N : Good(n) }
  <2>1. 0 .. N \subseteq X
    <3>1. 0 \in X /\ \A n \in 1 .. N : n - 1 \in X => n \in X
      BY <1>2, <1>11, <1>12
    <3> HIDE DEF X
    <3> QED
      BY <1>2, <3>1, UpTo
  <2> QED
    BY <1>2, <2>1
<1>14. Fine(a, after[N], sv)
  BY <1>2, <1>13 DEF Good
<1> QED
  BY <1>4, <1>14 DEF Fine, N

\* A handler that makes calls keeps what is right.
LEMMA DoKeeps ==
  ASSUME NEW u \in UploaderType, NEW sv, UpOK(u, sv, {}), NEW calls \in Seq(CallsOf(u))
  PROVE  UpOK(Do(u, calls), sv, {}) /\ Grows(u, Do(u, calls))
<1> DEFINE m == Then(u, calls)
<1>1. Fine(u, m, sv)
  BY GrowsNot, ThenFine
<1>2. Fine(u, Step(m), sv)
  <2> HIDE DEF m
  <2> QED
    BY <1>1, StepFine
<1> QED
  BY <1>2, DoIs

\* A list of one call.
LEMMA OneCall ==
  ASSUME NEW x
  PROVE  <<x>> # <<>> /\ Head(<<x>>) = x /\ Tail(<<x>>) = <<>>
OBVIOUS

\* So does one that begins with failed(), for the part that was refused.
LEMMA DoFailedKeeps ==
  ASSUME NEW u \in UploaderType, NEW sv, NEW L, UpOK(u, sv, L), NEW i \in Items,
         \A h \in L : h[1] = i
  PROVE  UpOK(Do(u, <<DoFailed(i)>>), sv, {})
<1> DEFINE m == Then(u, <<DoFailed(i)>>)
           v == Failed(u, i)
<1>1. m.u = u /\ m.calls = <<DoFailed(i)>>
  BY ThenIs
<1>2. m.calls # <<>> /\ Head(m.calls) = DoFailed(i) /\ Tail(m.calls) = <<>>
  <2> HIDE DEF m
  <2> QED
    BY <1>1, OneCall
<1>3. Make(u, DoFailed(i)) = v
  BY DEF Make, DoFailed
<1>4. Fine(u, v, sv)
  BY FailedFine
<1> HIDE DEF m, v
<1>5. Step(m) = Then(v.u, v.calls \o <<>>)
  BY <1>1, <1>2, <1>3, StepIs
<1>6. UpOK(v.u, sv, {}) /\ Grows(u, v.u) /\ v.calls \in Seq(CallsOf(v.u))
  BY <1>4 DEF Fine
<1>7. v.calls \o <<>> \in Seq(CallsOf(v.u))
  BY <1>6, ConcatIs
<1>8. Fine(u, Step(m), sv)
  BY <1>5, <1>6, <1>7, ThenFine
<1> QED
  BY <1>8, DoIs DEF m

-----------------------------------------------------------------------------
(* Sessions that go. *)

\* A session for which nothing is noted carries no request.
LEMMA NothingCarried ==
  ASSUME NEW R \in SUBSET Requests, IsFiniteSet(R), NEW s, Carried(R, s) = 0, NEW r \in R
  PROVE  r.session # s
<1> SUFFICES ASSUME r.session = s
             PROVE  FALSE
  OBVIOUS
<1> DEFINE S == {r}
<1>1. S \in SUBSET R /\ r \in Requests
  OBVIOUS
<1>2. Carried(S, s) = Size(r)
  BY <1>1, CarriedByOne
<1> HIDE DEF S
<1>3. Carried(R \ S, s) = 0 - Size(r) /\ Carried(R \ S, s) \in Nat
  BY <1>1, <1>2, CarriedWithout
<1>4. Size(r) \in Nat /\ Size(r) > 0
  BY SizesAre DEF Size
<1> QED
  BY <1>3, <1>4

\* stopSessions() stops them when they carry nothing.
LEMMA StopSessionsKeeps ==
  ASSUME NEW u \in UploaderType, NEW sv, UpOK(u, sv, {})
  PROVE  StopSessions(u) \in UploaderType /\ UpOK(StopSessions(u), sv, {})
<1> DEFINE v == StopSessions(u)
<1>1. CASE \E s \in DOMAIN u.sent : u.sent[s] # 0
  <2>1. v = [u EXCEPT !.stopTimer = TRUE]
    BY <1>1 DEF StopSessions
  <2>2. SameUploads(u, v)
    BY <2>1 DEF SameUploads, UploaderType
  <2> HIDE DEF v
  <2>3. UpOK(v, sv, {}) /\ v \in UploaderType
    BY <2>2, SameUploadsKeep DEF SameUploads
  <2> QED
    BY <2>3 DEF v
<1>2. CASE ~\E s \in DOMAIN u.sent : u.sent[s] # 0
  <2> DEFINE none == <<>>
             noneFast == {}
  <2>1. v = [u EXCEPT !.sent = none, !.fast = noneFast]
    BY <1>2 DEF StopSessions
  <2>2. /\ v \in UploaderType /\ v.queue = u.queue /\ v.requests = u.requests /\ v.sent = <<>>
        /\ v.fast = {} /\ v.pending = u.pending /\ v.waiting = u.waiting /\ v.told = u.told
    <3>1. none \in Seq(Nat) /\ noneFast \in SUBSET Nat
      OBVIOUS
    <3> HIDE DEF none, noneFast, v
    <3>2. /\ v \in UploaderType /\ v.queue = u.queue /\ v.requests = u.requests
          /\ v.sent = none /\ v.fast = noneFast
          /\ v.pending = u.pending /\ v.waiting = u.waiting /\ v.told = u.told
      BY <2>1, <3>1 DEF UploaderType
    <3> QED
      BY <3>2 DEF none, noneFast
  <2> HIDE DEF v
  <2>3. ToSet(u.requests) \in SUBSET Requests /\ IsFiniteSet(ToSet(u.requests))
    BY FieldsAre, ToSetFinite
  <2>4. ToSet(u.requests) = {}
    <3> SUFFICES ASSUME NEW r \in ToSet(u.requests)
                 PROVE  FALSE
      OBVIOUS
    <3> DEFINE s == r.session
    <3>1. s \in DOMAIN u.sent /\ u.sent[s] = Carried(ToSet(u.requests), s)
      BY DEF UpOK, AmountsOK
    <3> HIDE DEF s
    <3>2. Carried(ToSet(u.requests), s) = 0
      BY <1>2, <3>1
    <3> QED
      BY <2>3, <3>2, NothingCarried DEF s
  <2>5. AmountsOK(v)
    BY <2>2, <2>4 DEF AmountsOK
  <2>6. PlacesOK(v, {}) /\ Held(v) \cup {} = Held(u) \cup {}
    BY <2>2 DEF UpOK, PlacesOK, Held
  <2>7. \A r \in ToSet(v.requests) : r.doc => r.filePart = r.no
    BY <2>2, <2>4
  <2>8. UpOK(v, sv, {})
    BY <2>2, <2>5, <2>6, <2>7, Unmoved
  <2> QED
    BY <2>2, <2>8 DEF v
<1> QED
  BY <1>1, <1>2

\* Two lists without a part in common make a list of distinct parts.
LEMMA DistinctTogether ==
  ASSUME NEW a \in Seq(Requests), NEW b \in Seq(Requests), Distinct(a), Distinct(b),
         Keys(a) \cap Keys(b) = {}
  PROVE  Distinct(a \o b)
<1> DEFINE c == a \o b
           m == Len(a)
           n == Len(b)
<1>1. /\ m \in Nat /\ n \in Nat /\ DOMAIN c = 1 .. m + n
      /\ \A j \in 1 .. m : c[j] = a[j]
      /\ \A j \in 1 .. n : c[m + j] = b[j]
  BY ConcatIs
<1>2. DOMAIN a = 1 .. m /\ DOMAIN b = 1 .. n
  OBVIOUS
<1> HIDE DEF c, m, n
<1>3. \A j \in DOMAIN c : \/ j \in 1 .. m /\ c[j] = a[j]
                          \/ j - m \in 1 .. n /\ c[j] = b[j - m] /\ j \in Nat
  <2> SUFFICES ASSUME NEW j \in DOMAIN c, j \notin 1 .. m
               PROVE  j - m \in 1 .. n /\ c[j] = b[j - m] /\ j \in Nat
    BY <1>1
  <2>1. j \in Nat /\ j - m \in 1 .. n /\ m + (j - m) = j
    BY <1>1
  <2> QED
    BY <1>1, <2>1
<1>4. \A j \in 1 .. m, k \in 1 .. n : Key(a[j]) # Key(b[k])
  BY <1>2 DEF Keys
<1>5. \A j, k \in 1 .. m : Key(a[j]) = Key(a[k]) => j = k
  BY <1>2 DEF Distinct
<1>6. \A j, k \in 1 .. n : Key(b[j]) = Key(b[k]) => j = k
  BY <1>2 DEF Distinct
<1> SUFFICES ASSUME NEW j \in DOMAIN c, NEW k \in DOMAIN c, Key(c[j]) = Key(c[k])
             PROVE  j = k
  BY DEF Distinct, c
<1>7. CASE j \in 1 .. m /\ c[j] = a[j]
  <2>1. ~(k - m \in 1 .. n /\ c[k] = b[k - m])
    BY <1>4, <1>7
  <2>2. k \in 1 .. m /\ c[k] = a[k]
    BY <1>3, <2>1
  <2> QED
    BY <1>5, <1>7, <2>2
<1>8. CASE j - m \in 1 .. n /\ c[j] = b[j - m] /\ j \in Nat
  <2>1. ~(k \in 1 .. m /\ c[k] = a[k])
    BY <1>4, <1>8
  <2>2. k - m \in 1 .. n /\ c[k] = b[k - m] /\ k \in Nat
    BY <1>3, <2>1
  <2>3. j - m = k - m
    BY <1>6, <1>8, <2>2
  <2> QED
    BY <1>1, <1>8, <2>2, <2>3
<1> QED
  BY <1>3, <1>7, <1>8

\* All sessions but the last.
LEMMA FrontIs ==
  ASSUME NEW s \in Seq(Nat), Len(s) > 0
  PROVE  /\ Front(s) \in Seq(Nat) /\ DOMAIN Front(s) = 1 .. Len(s) - 1
         /\ \A k \in 1 .. Len(s) - 1 : Front(s)[k] = s[k]
<1> DEFINE n == Len(s) - 1
           f == [k \in 1 .. n |-> s[k]]
<1>1. n \in Nat /\ Len(s) \in Nat
  OBVIOUS
<1>2. Front(s) = f
  BY <1>1 DEF Front
<1>3. f \in [1 .. n -> Nat]
  BY <1>1
<1> HIDE DEF f
<1>4. f \in Seq(Nat) /\ DOMAIN f = 1 .. n
  BY <1>1, <1>3, SequenceOver
<1> QED
  BY <1>2, <1>4 DEF f

\* What the other sessions carry is all that is carried through session t.
LEMMA CarriedByOthers ==
  ASSUME NEW R, NEW S, NEW t, \A r \in R : r.session = t => r \notin S
  PROVE  Carried(R \ S, t) = Carried(R, t)
<1>1. ASSUME NEW d
      PROVE  { r \in R \ S : r.session = t /\ r.doc = d } = { r \in R : r.session = t /\ r.doc = d }
  OBVIOUS
<1> QED
  BY <1>1 DEF Carried

\* The lists "kept" and "pend" hold the parts of u: those of the requests of
\* "of" are in the second one.
Moved(u, of, kept, pend) ==
  /\ kept \in Seq(Requests) /\ pend \in Seq(Requests)
  /\ ToSet(kept) = ToSet(u.requests) \ of
  /\ Distinct(kept) /\ Distinct(pend) /\ Keys(kept) \cap Keys(pend) = {}
  /\ Keys(kept) \cup Keys(pend) = Held(u)

\* What becomes of the lists when the last session goes.
LEMMA MovedIs ==
  ASSUME NEW u \in UploaderType, NEW L, PlacesOK(u, L), NEW of \in SUBSET ToSet(u.requests),
         NEW kept, kept = Without(u.requests, of),
         NEW pend, pend = u.pending \o Without(u.requests, ToSet(u.requests) \ of)
  PROVE  Moved(u, of, kept, pend)
<1> DEFINE R == u.requests
           moved == Without(R, ToSet(R) \ of)
           P == u.pending
<1>1. R \in Seq(Requests) /\ P \in Seq(Requests)
  BY FieldsAre
<1>2. Distinct(R) /\ Distinct(P) /\ Keys(R) \cap Keys(P) = {} /\ Held(u) = Keys(R) \cup Keys(P)
  BY DEF PlacesOK, Held
<1>3. of \subseteq ToSet(R) /\ pend = P \o moved /\ kept = Without(R, of)
  OBVIOUS
<1> HIDE DEF R, P
<1>4. kept \in Seq(Requests) /\ ToSet(kept) = ToSet(R) \ of /\ Distinct(kept)
  BY <1>1, <1>2, <1>3, WithoutIs
<1>5. moved \in Seq(Requests) /\ ToSet(moved) = of /\ Distinct(moved)
  <2> DEFINE S == ToSet(R) \ of
  <2>1. ToSet(R) \ S = of
    BY <1>3
  <2> HIDE DEF S
  <2>2. /\ Without(R, S) \in Seq(Requests) /\ ToSet(Without(R, S)) = ToSet(R) \ S
        /\ Distinct(Without(R, S))
    BY <1>1, <1>2, WithoutIs
  <2> QED
    BY <2>1, <2>2 DEF S
<1> HIDE DEF moved
<1>6. /\ Keys(kept) = { Key(x) : x \in ToSet(R) \ of } /\ Keys(moved) = { Key(x) : x \in of }
      /\ Keys(R) = { Key(x) : x \in ToSet(R) } /\ Keys(P) = { Key(x) : x \in ToSet(P) }
  BY <1>4, <1>5, KeysAre
<1>7. Keys(kept) \cap Keys(moved) = {}
  <2> SUFFICES ASSUME NEW x \in ToSet(R) \ of, NEW y \in of, Key(x) = Key(y)
               PROVE  FALSE
    BY <1>6
  <2> QED
    BY <1>2, <1>3, DistinctMembers
<1>8. Keys(kept) \cup Keys(moved) = Keys(R)
  BY <1>3, <1>6
<1>9. Distinct(pend)
  <2>1. Keys(P) \cap Keys(moved) = {}
    BY <1>2, <1>8
  <2> QED
    BY <1>1, <1>2, <1>3, <1>5, <2>1, DistinctTogether
<1>10. pend \in Seq(Requests) /\ ToSet(pend) = ToSet(P) \cup of
  <2>1. P \o moved \in Seq(Requests) /\ ToSet(P \o moved) = ToSet(P) \cup ToSet(moved)
    BY <1>1, <1>5, ConcatIs
  <2> QED
    BY <1>3, <1>5, <2>1
<1>11. Keys(pend) = Keys(P) \cup Keys(moved)
  <2>1. Keys(pend) = { Key(x) : x \in ToSet(pend) }
    BY KeysAre
  <2> QED
    BY <1>6, <1>10, <2>1
<1>12. Keys(kept) \cap Keys(pend) = {}
  BY <1>2, <1>7, <1>8, <1>11
<1>13. Keys(kept) \cup Keys(pend) = Held(u)
  BY <1>2, <1>8, <1>11
<1> QED
  BY <1>4, <1>9, <1>10, <1>12, <1>13 DEF R, Moved

\* A session goes, and what it carried waits to be sent again.
LEMMA RemoveSessionKeeps ==
  ASSUME NEW u \in UploaderType, NEW sv, NEW L, UpOK(u, sv, L), Len(u.sent) > 0,
         NEW v, v = RemoveSession(u)
  PROVE  v \in UploaderType /\ UpOK(v, sv, L) /\ v.queue = u.queue
<1> DEFINE s == Len(u.sent)
           of == ThroughSession(u.requests, s)
           kept == Without(u.requests, of)
           pend == u.pending \o Without(u.requests, ToSet(u.requests) \ of)
           front == Front(u.sent)
           fast == u.fast \ {s}
<1>1. v = [u EXCEPT !.requests = kept, !.pending = pend, !.sent = front, !.fast = fast]
  BY DEF RemoveSession
<1>2. /\ u.sent \in Seq(Nat) /\ u.fast \in SUBSET Nat /\ u.requests \in Seq(Requests)
      /\ AmountsOK(u) /\ PlacesOK(u, L) /\ DOMAIN u.sent = 1 .. s /\ s \in Nat
  BY FieldsAre DEF UpOK
<1>3. of \in SUBSET ToSet(u.requests) /\ \A r \in ToSet(u.requests) : r \in of <=> r.session = s
  BY DEF ThroughSession
<1>4. /\ front \in Seq(Nat) /\ DOMAIN front = 1 .. s - 1
      /\ \A k \in 1 .. s - 1 : front[k] = u.sent[k]
  BY <1>2, FrontIs
<1>5. fast \in SUBSET Nat
  BY <1>2
<1>6. fast \subseteq 1 .. s - 1
  BY <1>2 DEF AmountsOK
<1> HIDE DEF of, fast, front
<1>7. /\ kept \in Seq(Requests) /\ pend \in Seq(Requests)
      /\ ToSet(kept) = ToSet(u.requests) \ of
      /\ Distinct(kept) /\ Distinct(pend) /\ Keys(kept) \cap Keys(pend) = {}
      /\ Keys(kept) \cup Keys(pend) = Held(u)
  <2>1. /\ kept = Without(u.requests, of)
        /\ pend = u.pending \o Without(u.requests, ToSet(u.requests) \ of)
    OBVIOUS
  <2>2. PlacesOK(u, L) /\ of \in SUBSET ToSet(u.requests)
    BY <1>2, <1>3
  <2> HIDE DEF kept, pend, s
  <2>3. Moved(u, of, kept, pend)
    BY <2>1, <2>2, MovedIs
  <2> QED
    BY <2>3 DEF Moved
<1> HIDE DEF s, kept, pend
<1>8. /\ v \in UploaderType /\ v.queue = u.queue /\ v.waiting = u.waiting /\ v.told = u.told
      /\ v.requests = kept /\ v.pending = pend /\ v.sent = front /\ v.fast = fast
  BY <1>1, <1>4, <1>5, <1>7 DEF UploaderType
<1>9. AmountsOK(v)
  <2>1. ASSUME NEW r \in ToSet(v.requests)
        PROVE  r.session \in DOMAIN v.sent
    <3>1. r \in ToSet(u.requests) /\ r.session # s
      BY <1>3, <1>7, <1>8
    <3>2. r.session \in 1 .. s
      BY <1>2, <3>1 DEF AmountsOK
    <3> QED
      BY <1>2, <1>4, <1>8, <3>1, <3>2
  <2>2. ASSUME NEW t \in DOMAIN v.sent
        PROVE  v.sent[t] = Carried(ToSet(v.requests), t)
    <3>1. t \in DOMAIN u.sent /\ v.sent[t] = u.sent[t] /\ t # s
      BY <1>2, <1>4, <1>8
    <3>2. u.sent[t] = Carried(ToSet(u.requests), t)
      BY <1>2, <3>1 DEF AmountsOK
    <3>3. \A r \in ToSet(u.requests) : r.session = t => r \notin of
      BY <1>3, <3>1
    <3>4. Carried(ToSet(u.requests) \ of, t) = Carried(ToSet(u.requests), t)
      BY <3>3, CarriedByOthers
    <3> QED
      BY <1>7, <1>8, <3>1, <3>2, <3>4
  <2> QED
    BY <1>4, <1>6, <1>8, <2>1, <2>2 DEF AmountsOK
<1>10. Held(v) = Held(u) /\ PlacesOK(v, L)
  <2>1. Held(v) = Held(u)
    BY <1>7, <1>8 DEF Held
  <2> QED
    BY <1>2, <1>7, <1>8, <2>1 DEF PlacesOK
<1>11. \A r \in ToSet(v.requests) : r.doc => r.filePart = r.no
  BY <1>7, <1>8 DEF UpOK, DocsOK
<1>12. UpOK(v, sv, L)
  BY <1>8, <1>9, <1>10, <1>11, Unmoved
<1> QED
  BY <1>8, <1>12

\* Only sessions that are there become fast.
LEMMA FastKeeps ==
  ASSUME NEW u \in UploaderType, NEW sv, NEW L, UpOK(u, sv, L), NEW f \in SUBSET (DOMAIN u.sent),
         NEW v, v = [u EXCEPT !.fast = f]
  PROVE  v \in UploaderType /\ UpOK(v, sv, L) /\ v.queue = u.queue /\ v.sent = u.sent
<1>1. f \in SUBSET Nat
  BY FieldsAre
<1>2. /\ v \in UploaderType /\ v.queue = u.queue /\ v.waiting = u.waiting /\ v.told = u.told
      /\ v.requests = u.requests /\ v.pending = u.pending /\ v.sent = u.sent /\ v.fast = f
  BY <1>1 DEF UploaderType
<1>3. AmountsOK(v) /\ PlacesOK(v, L) /\ Held(v) = Held(u)
  BY <1>2 DEF UpOK, AmountsOK, PlacesOK, Held
<1>4. \A r \in ToSet(v.requests) : r.doc => r.filePart = r.no
  BY <1>2 DEF UpOK, DocsOK
<1> QED
  BY <1>2, <1>3, <1>4, Unmoved

\* Whatever the time of an answer changes, no part is lost.
LEMMA TimedKeeps ==
  ASSUME NEW u \in UploaderType, NEW sv, NEW L, UpOK(u, sv, L), NEW r,
         r.session \in DOMAIN u.sent, NEW v \in Timed(u, r)
  PROVE  v \in UploaderType /\ UpOK(v, sv, L) /\ v.queue = u.queue
<1> DEFINE none == {}
           slow == [u EXCEPT !.fast = none]
           faster == u.fast \cup {r.session}
<1>1. \/ v = u \/ v = [u EXCEPT !.fast = faster] \/ v = slow
      \/ Len(u.sent) > 1 /\ v = RemoveSession(slow)
  <2> HIDE DEF faster
  <2>1. \/ v = u \/ v = [u EXCEPT !.fast = u.fast \cup {r.session}] \/ v = slow
        \/ Len(u.sent) > 1 /\ v = RemoveSession(slow)
    <3> DEFINE quick == [u EXCEPT !.fast = u.fast \cup {r.session}]
               gone == RemoveSession(slow)
    <3>1. Timed(u, r) = { u } \cup (IF r.fresh /\ r.queued + Size(r) >= AcceptAsFast
                                    THEN {quick} ELSE {})
                          \cup {slow} \cup (IF Len(u.sent) > 1 THEN {gone} ELSE {})
      BY DEF Timed
    <3> HIDE DEF quick, gone, slow
    <3>2. v \in Timed(u, r)
      OBVIOUS
    <3>3. v = u \/ v = quick \/ v = slow \/ (Len(u.sent) > 1 /\ v = gone)
      BY <3>1, <3>2
    <3> QED
      BY <3>3 DEF quick, gone
  <2> QED
    BY <2>1 DEF faster
<1>2. u.fast \in SUBSET (DOMAIN u.sent) /\ u.sent \in Seq(Nat)
  BY FieldsAre DEF UpOK, AmountsOK
<1>3. none \in SUBSET (DOMAIN u.sent) /\ faster \in SUBSET (DOMAIN u.sent)
  BY <1>2
<1>4. CASE v = u
  BY <1>4
<1>5. CASE v = [u EXCEPT !.fast = faster]
  <2> HIDE DEF faster
  <2> QED
    BY <1>3, <1>5, FastKeeps
<1>6. slow \in UploaderType /\ UpOK(slow, sv, L) /\ slow.queue = u.queue /\ slow.sent = u.sent
  <2> HIDE DEF none
  <2> QED
    BY <1>3, FastKeeps
<1>7. CASE Len(u.sent) > 1 /\ v = RemoveSession(slow)
  <2> HIDE DEF slow
  <2>1. Len(slow.sent) > 0
    BY <1>2, <1>6, <1>7
  <2>2. v \in UploaderType /\ UpOK(v, sv, L) /\ v.queue = slow.queue
    BY <1>6, <1>7, <2>1, RemoveSessionKeeps
  <2> QED
    BY <1>6, <2>2
<1> QED
  <2> HIDE DEF slow, faster
  <2> QED
    BY <1>1, <1>4, <1>5, <1>6, <1>7

-----------------------------------------------------------------------------
(* Parts that are answered. *)

\* A part that was answered leaves the list; its entry still counts it.
LEMMA RelieveKeeps ==
  ASSUME NEW u \in UploaderType, NEW sv, UpOK(u, sv, {}), NEW r \in ToSet(u.requests),
         NEW v, v = Relieve(u, {r})
  PROVE  /\ v \in UploaderType /\ UpOK(v, sv, {Key(r)})
         /\ r \in Requests /\ r.session \in DOMAIN v.sent /\ (r.doc => r.filePart = r.no)
<1> DEFINE R == {r}
           L == {Key(r)}
<1>1. AmountsOK(u) /\ PlacesOK(u, {}) /\ DocsOK(u, sv, Held(u) \cup {}) /\ R \in SUBSET ToSet(u.requests)
  BY DEF UpOK
<1>2. r \in Requests /\ r.session \in DOMAIN u.sent /\ (r.doc => r.filePart = r.no)
  <2>1. r \in Requests
    BY FieldsAre, ToSetFinite
  <2> QED
    BY <1>1, <2>1 DEF AmountsOK, DocsOK
<1>3. v = Relieve(u, R)
  OBVIOUS
<1> HIDE DEF R
<1>4. /\ v \in UploaderType /\ AmountsOK(v) /\ SendsOnly(u, v)
      /\ ToSet(v.requests) = ToSet(u.requests) \ R
      /\ Distinct(u.requests) => Distinct(v.requests)
      /\ DOMAIN v.sent = DOMAIN u.sent
  <2> DEFINE w == Relieve(u, R)
  <2>1. /\ w \in UploaderType /\ AmountsOK(w) /\ SendsOnly(u, w)
        /\ ToSet(w.requests) = ToSet(u.requests) \ R
        /\ Distinct(u.requests) => Distinct(w.requests)
        /\ DOMAIN w.sent = DOMAIN u.sent
    BY <1>1, RelieveIs
  <2>2. v = w
    BY <1>3
  <2> HIDE DEF w
  <2> QED
    BY <2>1, <2>2
<1>5. v.queue = u.queue /\ v.waiting = u.waiting /\ v.told = u.told /\ v.pending = u.pending
  BY <1>4 DEF SendsOnly, UploaderType
<1>6. Keys(u.requests) = Keys(v.requests) \cup L /\ L \cap Keys(v.requests) = {}
  <2>1. /\ Keys(u.requests) = { Key(x) : x \in ToSet(u.requests) }
        /\ Keys(v.requests) = { Key(x) : x \in ToSet(v.requests) }
    BY KeysAre
  <2>2. \A x \in ToSet(v.requests) : Key(x) # Key(r)
    <3> SUFFICES ASSUME NEW x \in ToSet(v.requests), Key(x) = Key(r)
                 PROVE  FALSE
      OBVIOUS
    <3>1. x \in ToSet(u.requests) /\ x # r
      BY <1>4 DEF R
    <3> QED
      BY <1>1, <3>1, DistinctMembers DEF PlacesOK
  <2>3. \A x \in ToSet(u.requests) : x \in ToSet(v.requests) \/ x = r
    BY <1>4 DEF R
  <2>4. ToSet(v.requests) \subseteq ToSet(u.requests)
    BY <1>4
  <2> QED
    BY <2>1, <2>2, <2>3, <2>4
<1> HIDE DEF L
<1>7. Held(v) \cup L = Held(u) \cup {} /\ PlacesOK(v, L)
  <2>1. Distinct(v.requests) /\ Distinct(v.pending)
    BY <1>1, <1>4, <1>5 DEF PlacesOK
  <2>2. Keys(u.requests) \cap Keys(v.pending) = {} /\ Held(u) = Keys(u.requests) \cup Keys(v.pending)
    BY <1>1, <1>5 DEF PlacesOK, Held
  <2> QED
    BY <1>6, <2>1, <2>2 DEF PlacesOK, Held
<1>8. \A x \in ToSet(v.requests) : x.doc => x.filePart = x.no
  BY <1>1, <1>4 DEF DocsOK
<1>9. UpOK(v, sv, L)
  <2> DEFINE M == {}
  <2>1. UpOK(u, sv, M) /\ Held(v) \cup L = Held(u) \cup M
    BY <1>7
  <2> HIDE DEF M
  <2> QED
    BY <1>4, <1>5, <1>7, <1>8, <2>1, Unmoved
<1> QED
  BY <1>2, <1>4, <1>9 DEF L

\* tv has the parts of documents that sv has, and r.
SavedWith(sv, tv, r) ==
  /\ tv \in SUBSET (Items \X BOOLEAN \X Nat \X Nat)
  /\ \A i \in Items, n \in Nat : <<i, TRUE, n, n>> \in sv => <<i, TRUE, n, n>> \in tv
  /\ r.doc => <<r.item, TRUE, r.no, r.no>> \in tv

\* The server keeps the parts of documents that it has, and has the new one.
LEMMA SavedIs ==
  ASSUME NEW sv \in SUBSET (Items \X BOOLEAN \X Nat \X Nat), NEW r \in Requests,
         r.doc => r.filePart = r.no,
         NEW tv, tv = { p \in sv : <<p[1], p[2], p[3]>> # <<r.item, r.doc, r.filePart>> }
                        \cup {<<r.item, r.doc, r.filePart, r.no>>}
  PROVE  SavedWith(sv, tv, r)
<1> DEFINE x == <<r.item, r.doc, r.filePart, r.no>>
<1>1. r.item \in Items /\ r.doc \in BOOLEAN /\ r.no \in Nat /\ r.filePart \in Nat
  BY DEF Requests
<1>2. x \in Items \X BOOLEAN \X Nat \X Nat
  BY <1>1
<1>3. r.doc => x = <<r.item, TRUE, r.no, r.no>>
  BY <1>1
<1>4. ASSUME NEW i \in Items, NEW n \in Nat, <<i, TRUE, n, n>> \in sv
      PROVE  <<i, TRUE, n, n>> \in tv
  <2> DEFINE p == <<i, TRUE, n, n>>
  <2>1. <<p[1], p[2], p[3]>> = <<i, TRUE, n>>
    OBVIOUS
  <2>2. CASE <<i, TRUE, n>> = <<r.item, r.doc, r.filePart>>
    <3>1. i = r.item /\ r.doc /\ n = r.no
      BY <2>2
    <3> QED
      BY <1>3, <3>1
  <2>3. CASE <<i, TRUE, n>> # <<r.item, r.doc, r.filePart>>
    <3> HIDE DEF p
    <3>1. <<p[1], p[2], p[3]>> # <<r.item, r.doc, r.filePart>> /\ p \in sv
      BY <1>4, <2>1, <2>3 DEF p
    <3>2. p \in tv
      BY <3>1
    <3> QED
      BY <3>2 DEF p
  <2> QED
    BY <2>2, <2>3
<1>5. tv \in SUBSET (Items \X BOOLEAN \X Nat \X Nat) /\ x \in tv
  <2> HIDE DEF x
  <2>1. tv \subseteq sv \cup {x}
    BY DEF x
  <2> QED
    BY <1>2, <2>1 DEF x
<1> QED
  BY <1>3, <1>4, <1>5 DEF SavedWith

\* A part that was out, and is not any more, is not counted any more.
LEMMA NumberGone ==
  ASSUME NEW H \in SUBSET Parted, NEW x \in Parted, x \notin H, NEW G, G = H \cup {x},
         NEW n \in Nat, Numbers(G, x[1], x[2]) \subseteq 0 .. n - 1
  PROVE  /\ Numbers(H, x[1], x[2]) \subseteq 0 .. n - 1
         /\ Cardinality(Numbers(G, x[1], x[2])) - 1 = Cardinality(Numbers(H, x[1], x[2]))
         /\ Cardinality(Numbers(H, x[1], x[2])) \in Nat
<1> DEFINE A == Numbers(H, x[1], x[2])
           B == Numbers(G, x[1], x[2])
           k == x[3]
<1>1. B = A \cup {k}
  BY NumbersWith
<1>2. k \notin A
  <2> SUFFICES ASSUME NEW h \in H, h[1] = x[1], h[2] = x[2], h[3] = x[3]
               PROVE  FALSE
    BY DEF Numbers
  <2>1. h \in Parted
    OBVIOUS
  <2>2. h = <<h[1], h[2], h[3]>> /\ x = <<x[1], x[2], x[3]>>
    BY <2>1 DEF Parted
  <2> QED
    BY <2>2
<1>3. B \subseteq 0 .. n - 1
  OBVIOUS
<1> HIDE DEF A, B, k
<1>4. IsFiniteSet(0 .. n - 1)
  BY FS_Interval
<1>5. IsFiniteSet(A) /\ A \subseteq 0 .. n - 1
  BY <1>1, <1>3, <1>4, FS_Subset
<1>6. Cardinality(A) \in Nat /\ Cardinality(A \cup {k}) = Cardinality(A) + 1
  BY <1>2, <1>5, FS_AddElement, FS_CardinalityType
<1>7. Cardinality(B) - 1 = Cardinality(A)
  BY <1>1, <1>6
<1> QED
  BY <1>5, <1>6, <1>7 DEF A, B

\* Entries of which nothing is out with x.
LEMMA OtherEntryOK ==
  ASSUME NEW H, NEW x, NEW G, G = H \cup {x}, NEW e, e.item # x[1], EntryOK(e, G)
  PROVE  EntryOK(e, H)
<1>1. \A d : Numbers(G, e.item, d) = Numbers(H, e.item, d)
  BY NumbersOfOthers
<1> QED
  BY <1>1 DEF EntryOK

\* The entry e without the part r, which was answered.
OneLess(e, r) ==
  IF r.doc THEN [e EXCEPT !.docWaits = @ - 1] ELSE [e EXCEPT !.waits = @ - 1]

\* It counts what is out still.
LEMMA CountedIs ==
  ASSUME NEW H \in SUBSET Parted, NEW r \in Requests, Key(r) \notin H,
         NEW G, G = H \cup {Key(r)}, NEW e \in Entries, e.item = r.item, EntryOK(e, G),
         NEW f, f = OneLess(e, r)
  PROVE  /\ f \in Entries /\ f.item = e.item /\ f.docSent = e.docSent /\ f.sent = e.sent
         /\ EntryOK(f, H)
<1> DEFINE x == Key(r)
<1>1. x[1] = r.item /\ x[2] = r.doc /\ x \in Parted /\ r.doc \in BOOLEAN
  BY DEF Key, Parted, Requests
<1>2. /\ e.sent \in Nat /\ e.docSent \in Nat /\ e.waits \in Nat /\ e.docWaits \in Nat
      /\ e.item \in Items
  BY DEF Entries
<1> DEFINE N(J, d) == Numbers(J, e.item, d)
<1>3. /\ e.waits = Cardinality(N(G, FALSE)) /\ e.docWaits = Cardinality(N(G, TRUE))
      /\ N(G, FALSE) \subseteq 0 .. e.sent - 1 /\ N(G, TRUE) \subseteq 0 .. e.docSent - 1
      /\ e.sent <= Parts[e.item] /\ e.docSent <= DocParts[e.item]
  BY DEF EntryOK
<1> HIDE DEF x
<1>4. G = H \cup {x} /\ x \notin H
  BY DEF x
<1>5. \A d : d # x[2] => N(H, d) = N(G, d)
  BY <1>4, NumbersOfOthers
<1>6. CASE r.doc
  <2>1. x[2] = TRUE /\ x[1] = e.item
    BY <1>1, <1>6
  <2>2. Numbers(G, x[1], x[2]) \subseteq 0 .. e.docSent - 1
    BY <1>3, <2>1
  <2>3. /\ Numbers(H, x[1], x[2]) \subseteq 0 .. e.docSent - 1
        /\ Cardinality(Numbers(G, x[1], x[2])) - 1 = Cardinality(Numbers(H, x[1], x[2]))
        /\ Cardinality(Numbers(H, x[1], x[2])) \in Nat
    BY <1>1, <1>2, <1>4, <2>2, NumberGone
  <2>4. N(H, FALSE) = N(G, FALSE)
    BY <1>5, <2>1
  <2>5. /\ N(H, TRUE) \subseteq 0 .. e.docSent - 1 /\ e.docWaits - 1 \in Nat
        /\ e.docWaits - 1 = Cardinality(N(H, TRUE))
    BY <1>3, <2>1, <2>3
  <2> DEFINE c == e.docWaits - 1
  <2>6. f = [e EXCEPT !.docWaits = c]
    BY <1>6 DEF OneLess
  <2>7. c \in Nat /\ c = Cardinality(N(H, TRUE))
    BY <2>5
  <2> HIDE DEF c, N
  <2>8. /\ f \in Entries /\ f.item = e.item /\ f.docSent = e.docSent /\ f.sent = e.sent
        /\ f.waits = e.waits /\ f.docWaits = c
    BY <2>6, <2>7 DEF Entries
  <2>9. EntryOK(f, H)
    BY <1>3, <2>4, <2>5, <2>7, <2>8 DEF EntryOK, N
  <2> QED
    BY <2>8, <2>9
<1>7. CASE ~r.doc
  <2>1. x[2] = FALSE /\ x[1] = e.item
    BY <1>1, <1>7
  <2>2. Numbers(G, x[1], x[2]) \subseteq 0 .. e.sent - 1
    BY <1>3, <2>1
  <2>3. /\ Numbers(H, x[1], x[2]) \subseteq 0 .. e.sent - 1
        /\ Cardinality(Numbers(G, x[1], x[2])) - 1 = Cardinality(Numbers(H, x[1], x[2]))
        /\ Cardinality(Numbers(H, x[1], x[2])) \in Nat
    BY <1>1, <1>2, <1>4, <2>2, NumberGone
  <2>4. N(H, TRUE) = N(G, TRUE)
    BY <1>5, <2>1
  <2>5. /\ N(H, FALSE) \subseteq 0 .. e.sent - 1 /\ e.waits - 1 \in Nat
        /\ e.waits - 1 = Cardinality(N(H, FALSE))
    BY <1>3, <2>1, <2>3
  <2> DEFINE c == e.waits - 1
  <2>6. f = [e EXCEPT !.waits = c]
    BY <1>7 DEF OneLess
  <2>7. c \in Nat /\ c = Cardinality(N(H, FALSE))
    BY <2>5
  <2> HIDE DEF c, N
  <2>8. /\ f \in Entries /\ f.item = e.item /\ f.docSent = e.docSent /\ f.sent = e.sent
        /\ f.docWaits = e.docWaits /\ f.waits = c
    BY <2>6, <2>7 DEF Entries
  <2>9. EntryOK(f, H)
    BY <1>3, <2>4, <2>5, <2>7, <2>8 DEF EntryOK, N
  <2> QED
    BY <2>8, <2>9
<1> QED
  BY <1>6, <1>7

\* v is u with e as the entry at k.
Replaced(u, k, e, v) ==
  /\ v \in UploaderType /\ DOMAIN v.queue = DOMAIN u.queue /\ v.queue[k] = e
  /\ \A j \in DOMAIN u.queue : j # k => v.queue[j] = u.queue[j]
  /\ \A j \in DOMAIN u.queue : v.queue[j].item = u.queue[j].item
  /\ \A i : InQueue(v, i) <=> InQueue(u, i)
  /\ v.requests = u.requests /\ v.sent = u.sent /\ v.fast = u.fast
  /\ v.pending = u.pending /\ v.waiting = u.waiting /\ v.told = u.told

\* EntryChanged, of an object v.
LEMMA EntrySet ==
  ASSUME NEW u \in UploaderType, NEW k \in DOMAIN u.queue, NEW e \in Entries,
         e.item = u.queue[k].item, NEW v, v = [u EXCEPT !.queue[k] = e]
  PROVE  Replaced(u, k, e, v)
BY EntryChanged DEF Replaced

\* u when the entry at p does not wait for the part r any more.
Counted(u, p, r) ==
  IF r.doc THEN [u EXCEPT !.queue[p].docWaits = @ - 1]
  ELSE [u EXCEPT !.queue[p].waits = @ - 1]

\* A part that the server has is not out any more.
LEMMA PartCounted ==
  ASSUME NEW u \in UploaderType, NEW sv, NEW r \in Requests, UpOK(u, sv, {Key(r)}),
         NEW tv, SavedWith(sv, tv, r), NEW p, p = Place(u, r.item),
         NEW v, v = Counted(u, p, r)
  PROVE  v \in UploaderType /\ UpOK(v, tv, {})
<1> DEFINE x == Key(r)
           H == Held(u)
           G == H \cup {x}
           e == u.queue[p]
           f == OneLess(e, r)
<1>1. /\ AmountsOK(u) /\ PlacesOK(u, {x}) /\ QueueOK(u) /\ EntriesOK(u, G)
      /\ DocsOK(u, sv, G) /\ DoneOK(u, sv)
  BY DEF UpOK
<1>2. x \notin H /\ x[1] = r.item /\ H \in SUBSET Parted /\ H \cap {} = {}
  BY <1>1, HeldAre DEF PlacesOK, Key
<1>3. p \in DOMAIN u.queue /\ e.item = r.item
  <2>1. InQueue(u, r.item)
    BY <1>1, <1>2 DEF EntriesOK
  <2> QED
    BY <2>1, PlaceIs
<1>4. e \in Entries /\ EntryOK(e, G)
  <2>1. u.queue[p] \in Entries
    BY <1>3, FieldsAre
  <2> HIDE DEF G
  <2> QED
    BY <1>1, <1>3, <2>1 DEF EntriesOK
<1>5. v = [u EXCEPT !.queue[p] = f]
  BY DEF OneLess, Counted
<1> HIDE DEF x, H, e, f
<1>6. f \in Entries /\ f.item = e.item /\ f.docSent = e.docSent /\ EntryOK(f, H)
  <2>1. G = H \cup {Key(r)} /\ Key(r) \notin H /\ f = OneLess(e, r)
    BY <1>2 DEF x, f
  <2> HIDE DEF G
  <2> QED
    BY <1>2, <1>3, <1>4, <2>1, CountedIs
<1>7. /\ v \in UploaderType /\ DOMAIN v.queue = DOMAIN u.queue /\ v.queue[p] = f
      /\ \A j \in DOMAIN u.queue : j # p => v.queue[j] = u.queue[j]
      /\ \A j \in DOMAIN u.queue : v.queue[j].item = u.queue[j].item
      /\ \A i : InQueue(v, i) <=> InQueue(u, i)
      /\ v.requests = u.requests /\ v.sent = u.sent /\ v.fast = u.fast
      /\ v.pending = u.pending /\ v.waiting = u.waiting /\ v.told = u.told
  <2>1. p \in DOMAIN u.queue /\ f \in Entries /\ f.item = u.queue[p].item
    BY <1>3, <1>6 DEF e
  <2>2. Replaced(u, p, f, v)
    BY <1>5, <2>1, EntrySet
  <2> QED
    BY <2>2 DEF Replaced
<1>8. Held(v) = H /\ Held(v) \cup {} = H
  BY <1>7 DEF H, Held
<1>9. AmountsOK(v) /\ PlacesOK(v, {})
  BY <1>1, <1>7 DEF AmountsOK, PlacesOK
<1>10. QueueOK(v)
  BY <1>1, <1>7 DEF QueueOK
<1>11. EntriesOK(v, H)
  <2>1. ASSUME NEW k \in DOMAIN v.queue
        PROVE  EntryOK(v.queue[k], H)
    <3>1. CASE k = p
      BY <1>6, <1>7, <3>1
    <3>2. CASE k # p
      <4> DEFINE g == u.queue[k]
      <4>1. g.item # x[1]
        BY <1>1, <1>2, <1>3, <1>7, <3>2 DEF QueueOK, e
      <4>2. EntryOK(g, G) /\ v.queue[k] = g
        BY <1>1, <1>7, <3>2 DEF EntriesOK
      <4> HIDE DEF g
      <4> QED
        BY <4>1, <4>2, OtherEntryOK
    <3> QED
      BY <3>1, <3>2
  <2>2. \A h \in H : InQueue(v, h[1])
    BY <1>1, <1>7 DEF EntriesOK
  <2> QED
    BY <2>1, <2>2 DEF EntriesOK
<1>12. DocsOK(v, tv, H)
  <2>1. ASSUME NEW k \in DOMAIN v.queue, NEW n \in 0 .. v.queue[k].docSent - 1
        PROVE  <<v.queue[k].item, TRUE, n, n>> \in tv \/ <<v.queue[k].item, TRUE, n>> \in H
    <3> DEFINE i == u.queue[k].item
    <3>1. v.queue[k].item = i /\ v.queue[k].docSent = u.queue[k].docSent /\ k \in DOMAIN u.queue
      BY <1>6, <1>7 DEF e
    <3>2. i \in Items /\ u.queue[k].docSent \in Nat
      <4>1. u.queue[k] \in Entries
        BY <3>1, FieldsAre
      <4> QED
        BY <4>1 DEF Entries
    <3>3. n \in Nat /\ n \in 0 .. u.queue[k].docSent - 1
      BY <3>1, <3>2
    <3>4. <<i, TRUE, n, n>> \in sv \/ <<i, TRUE, n>> \in G
      BY <1>1, <3>1, <3>3 DEF DocsOK
    <3> HIDE DEF i
    <3>5. CASE <<i, TRUE, n, n>> \in sv
      BY <3>1, <3>2, <3>3, <3>5 DEF SavedWith
    <3>6. CASE <<i, TRUE, n>> \in H
      BY <3>1, <3>6
    <3>7. CASE <<i, TRUE, n>> = x
      <4>1. i = r.item /\ r.doc /\ n = r.no
        BY <3>7 DEF x, Key, Requests
      <4> QED
        BY <3>1, <4>1 DEF SavedWith
    <3> QED
      BY <3>4, <3>5, <3>6, <3>7
  <2>2. \A s \in ToSet(v.requests) : s.doc => s.filePart = s.no
    BY <1>1, <1>7 DEF DocsOK
  <2> QED
    BY <2>1, <2>2 DEF DocsOK
<1>13. DoneOK(v, tv)
  <2> SUFFICES ASSUME NEW i \in Items, v.told[i] = "ready" \/ i \in v.waiting,
                      NEW n \in 0 .. DocParts[i] - 1
               PROVE  <<i, TRUE, n, n>> \in tv
    BY DEF DoneOK
  <2>1. <<i, TRUE, n, n>> \in sv
    BY <1>1, <1>7 DEF DoneOK
  <2>2. n \in Nat
    BY UploaderAssumption
  <2> QED
    BY <2>1, <2>2 DEF SavedWith
<1> QED
  BY <1>7, <1>8, <1>9, <1>10, <1>11, <1>12, <1>13 DEF UpOK

-----------------------------------------------------------------------------
(* The actions keep the invariant. *)

\* The calls that need nothing to be there.
LEMMA PlainCalls ==
  ASSUME NEW u
  PROVE  /\ <<DoMaybeSend>> \in Seq(CallsOf(u)) /\ <<DoFront, DoMaybeSend>> \in Seq(CallsOf(u))
         /\ <<DoFailAll>> \in Seq(CallsOf(u)) /\ <<>> \in Seq(CallsOf(u))
<1> DEFINE S == CallsOf(u)
<1>1. DoMaybeSend \in S /\ DoFront \in S /\ DoFailAll \in S
  BY DEF CallsOf
<1> HIDE DEF S
<1>2. <<DoMaybeSend>> \in Seq(S) /\ <<DoFront, DoMaybeSend>> \in Seq(S)
  BY <1>1, ShortLists
<1>3. <<DoFailAll>> \in Seq(S) /\ <<>> \in Seq(S)
  BY <1>1, ShortLists
<1> QED
  BY <1>2, <1>3 DEF S

\* A change of the flags, followed by maybeSend(), keeps what is right.
LEMMA FlagsKeep ==
  ASSUME NEW u \in UploaderType, NEW sv, UpOK(u, sv, {}), NEW v, SameUploads(u, v)
  PROVE  UpOK(Do(v, <<DoMaybeSend>>), sv, {})
<1>1. v \in UploaderType /\ UpOK(v, sv, {})
  BY SameUploadsKeep DEF SameUploads
<1> QED
  BY <1>1, PlainCalls, DoKeeps

\* An answered part, with what its time changes and what is sent next.
LEMMA PartLoadedKeeps ==
  ASSUME TypeOK, UpOK(up, saved, {}), PartLoaded
  PROVE  UpOK(up', saved', {}) /\ saved' \in SUBSET (Items \X BOOLEAN \X Nat \X Nat)
<1>1. PICK r \in ToSet(up.requests) :
        /\ saved' = { p \in saved : <<p[1], p[2], p[3]>> # <<r.item, r.doc, r.filePart>> }
                      \cup {<<r.item, r.doc, r.filePart, r.no>>}
        /\ \E u \in Timed(Relieve(up, {r}), r) :
             LET p == Place(u, r.item)
                 v == IF r.doc THEN [u EXCEPT !.queue[p].docWaits = @ - 1]
                      ELSE [u EXCEPT !.queue[p].waits = @ - 1]
             IN up' = Do(v, IF p = 1 THEN <<DoFront, DoMaybeSend>> ELSE <<DoMaybeSend>>)
  BY DEF PartLoaded
<1> DEFINE w == Relieve(up, {r})
<1>2. PICK u \in Timed(w, r) :
        LET p == Place(u, r.item)
            v == IF r.doc THEN [u EXCEPT !.queue[p].docWaits = @ - 1]
                 ELSE [u EXCEPT !.queue[p].waits = @ - 1]
        IN up' = Do(v, IF p = 1 THEN <<DoFront, DoMaybeSend>> ELSE <<DoMaybeSend>>)
  BY <1>1
<1> DEFINE p == Place(u, r.item)
           v == IF r.doc THEN [u EXCEPT !.queue[p].docWaits = @ - 1]
                ELSE [u EXCEPT !.queue[p].waits = @ - 1]
           calls == IF p = 1 THEN <<DoFront, DoMaybeSend>> ELSE <<DoMaybeSend>>
<1>3. up' = Do(v, calls)
  BY <1>2
<1>4. up \in UploaderType /\ saved \in SUBSET (Items \X BOOLEAN \X Nat \X Nat)
  BY DEF TypeOK
<1>5. /\ w \in UploaderType /\ UpOK(w, saved, {Key(r)})
      /\ r \in Requests /\ r.session \in DOMAIN w.sent /\ (r.doc => r.filePart = r.no)
  <2>1. w = Relieve(up, {r})
    OBVIOUS
  <2> HIDE DEF w
  <2> QED
    BY <1>4, <2>1, RelieveKeeps
<1> HIDE DEF w
<1>6. u \in UploaderType /\ UpOK(u, saved, {Key(r)})
  <2> DEFINE L == {Key(r)}
  <2>1. UpOK(w, saved, L)
    BY <1>5
  <2> HIDE DEF L
  <2>2. u \in UploaderType /\ UpOK(u, saved, L)
    BY <1>5, <2>1, TimedKeeps
  <2> QED
    BY <2>2 DEF L
<1>7. SavedWith(saved, saved', r)
  BY <1>1, <1>4, <1>5, SavedIs
<1>8. v = Counted(u, p, r)
  BY DEF Counted
<1> HIDE DEF v
<1>9. p = Place(u, r.item)
  OBVIOUS
<1> HIDE DEF p
<1>10. v \in UploaderType /\ UpOK(v, saved', {})
  BY <1>5, <1>6, <1>7, <1>8, <1>9, PartCounted
<1>11. calls \in Seq(CallsOf(v))
  BY PlainCalls
<1> HIDE DEF calls
<1> QED
  BY <1>3, <1>7, <1>10, <1>11, DoKeeps DEF SavedWith

\* A part that the server refuses: the upload fails.
LEMMA PartRefusedKeeps ==
  ASSUME TypeOK, UpOK(up, saved, {}), PartRefused
  PROVE  UpOK(up', saved, {})
<1>1. PICK r \in ToSet(up.requests) : up' = Do(Relieve(up, {r}), <<DoFailed(r.item)>>)
  BY DEF PartRefused
<1> DEFINE w == Relieve(up, {r})
           L == {Key(r)}
           i == r.item
<1>2. /\ w \in UploaderType /\ UpOK(w, saved, L) /\ r \in Requests
  <2>1. w = Relieve(up, {r}) /\ up \in UploaderType
    BY DEF TypeOK
  <2> HIDE DEF w
  <2> QED
    BY <2>1, RelieveKeeps
<1>3. i \in Items /\ \A h \in L : h[1] = i
  BY <1>2 DEF Key, Requests
<1>4. up' = Do(w, <<DoFailed(i)>>)
  BY <1>1
<1> HIDE DEF w, L, i
<1> QED
  BY <1>2, <1>3, <1>4, DoFailedKeeps

\* The cover is there, and the video is said to be uploaded.
LEMMA CoverUploadedKeeps ==
  ASSUME TypeOK, UpOK(up, saved, {}), CoverUploaded
  PROVE  UpOK(up', saved, {})
<1>1. PICK c \in up.media :
        up' = [up EXCEPT !.media = @ \ {c},
                         !.waiting = @ \ { v \in up.waiting : CoverOf[v] = c },
                         !.told = [i \in Items |->
                            IF i \in { v \in up.waiting : CoverOf[v] = c } THEN "ready" ELSE @[i]]]
  BY DEF CoverUploaded
<1> DEFINE of == { v \in up.waiting : CoverOf[v] = c }
           media == up.media \ {c}
           waiting == up.waiting \ of
           told == [i \in Items |-> IF i \in of THEN "ready" ELSE up.told[i]]
<1>2. up' = [up EXCEPT !.media = media, !.waiting = waiting, !.told = told]
  BY <1>1
<1>3. /\ up \in UploaderType /\ up.waiting \in SUBSET Videos /\ up.media \in SUBSET Covers
      /\ up.told \in [Items -> {"no", "ready", "failed"}]
  <2>1. up \in UploaderType
    BY DEF TypeOK
  <2> QED
    BY <2>1, FieldsAre
<1>4. media \in SUBSET Covers /\ waiting \in SUBSET Videos
      /\ told \in [Items -> {"no", "ready", "failed"}]
  BY <1>3
<1>5. /\ \A i \in Items : told[i] = IF i \in of THEN "ready" ELSE up.told[i]
      /\ \A i : i \in waiting <=> i \in up.waiting /\ i \notin of
      /\ of \subseteq up.waiting
  OBVIOUS
<1> HIDE DEF of, media, waiting, told
<1>6. /\ up' \in UploaderType /\ up'.queue = up.queue /\ up'.requests = up.requests
      /\ up'.sent = up.sent /\ up'.fast = up.fast /\ up'.pending = up.pending
      /\ up'.waiting = waiting /\ up'.told = told
  BY <1>2, <1>3, <1>4 DEF UploaderType
<1>7. AmountsOK(up') /\ PlacesOK(up', {}) /\ Held(up') = Held(up)
  BY <1>6 DEF UpOK, AmountsOK, PlacesOK, Held
<1>8. EntriesOK(up', Held(up') \cup {}) /\ DocsOK(up', saved, Held(up') \cup {})
  BY <1>6, <1>7 DEF UpOK, EntriesOK, DocsOK, InQueue
<1>9. QueueOK(up')
  <2>1. QueueOK(up) /\ \A i : InQueue(up', i) <=> InQueue(up, i)
    BY <1>6 DEF UpOK, InQueue
  <2>2. \A i \in Items \ Covers : InQueue(up', i) => up'.told[i] = "no" /\ i \notin up'.waiting
    BY <1>5, <1>6, <2>1 DEF QueueOK
  <2>3. \A v \in Videos : InQueue(up', CoverOf[v]) => up'.told[v] # "no" \/ v \in up'.waiting
    <3>1. Videos \subseteq Items
      BY UploaderAssumption
    <3> QED
      BY <1>5, <1>6, <2>1, <3>1 DEF QueueOK
  <2> QED
    BY <1>6, <2>1, <2>2, <2>3 DEF QueueOK
<1>10. DoneOK(up', saved)
  BY <1>5, <1>6 DEF UpOK, DoneOK
<1> QED
  BY <1>6, <1>7, <1>8, <1>9, <1>10 DEF UpOK

\* A cover that is refused fails its video.
LEMMA CoverRefusedKeeps ==
  ASSUME TypeOK, UpOK(up, saved, {}), CoverRefused
  PROVE  UpOK(up', saved, {})
<1>1. PICK c \in up.media : up' = Do([up EXCEPT !.media = @ \ {c}], <<DoFailed(c)>>)
  BY DEF CoverRefused
<1> DEFINE media == up.media \ {c}
           v == [up EXCEPT !.media = media]
           L == {}
<1>2. up \in UploaderType /\ media \in SUBSET Covers /\ c \in Items
  <2>1. up \in UploaderType
    BY DEF TypeOK
  <2>2. up.media \in SUBSET Covers
    BY <2>1, FieldsAre
  <2> QED
    BY <2>1, <2>2, UploaderAssumption
<1> HIDE DEF media
<1>3. SameUploads(up, v)
  BY <1>2 DEF SameUploads, UploaderType
<1>4. up' = Do(v, <<DoFailed(c)>>)
  BY <1>1 DEF media
<1> HIDE DEF v
<1>5. v \in UploaderType /\ UpOK(v, saved, L)
  BY <1>2, <1>3, SameUploadsKeep DEF SameUploads
<1>6. \A h \in L : h[1] = c
  OBVIOUS
<1> HIDE DEF L
<1> QED
  BY <1>2, <1>4, <1>5, <1>6, DoFailedKeeps

\* A timer fires, a posted call runs or the user goes on: maybeSend().
LEMMA SendingKeeps ==
  ASSUME TypeOK, UpOK(up, saved, {}), NextTimer \/ PostedSend \/ Unpause
  PROVE  UpOK(up', saved, {})
<1>1. up \in UploaderType
  BY DEF TypeOK
<1>2. PICK v : SameUploads(up, v) /\ up' = Do(v, <<DoMaybeSend>>)
  <2>1. ASSUME NEW b \in BOOLEAN, NEW v,
               \/ v = [up EXCEPT !.nextTimer = b]
               \/ v = [up EXCEPT !.posted = b]
               \/ v = [up EXCEPT !.paused = b]
        PROVE  SameUploads(up, v)
    <3>1. CASE v = [up EXCEPT !.nextTimer = b]
      BY <1>1, <3>1 DEF SameUploads, UploaderType
    <3>2. CASE v = [up EXCEPT !.posted = b]
      BY <1>1, <3>2 DEF SameUploads, UploaderType
    <3>3. CASE v = [up EXCEPT !.paused = b]
      BY <1>1, <3>3 DEF SameUploads, UploaderType
    <3> QED
      BY <2>1, <3>1, <3>2, <3>3
  <2>2. CASE NextTimer
    <3> DEFINE v == [up EXCEPT !.nextTimer = FALSE]
    <3>1. up' = Do(v, <<DoMaybeSend>>)
      BY <2>2 DEF NextTimer
    <3> QED
      BY <2>1, <3>1
  <2>3. CASE PostedSend
    <3> DEFINE v == [up EXCEPT !.posted = FALSE]
    <3>1. up' = Do(v, <<DoMaybeSend>>)
      BY <2>3 DEF PostedSend
    <3> QED
      BY <2>1, <3>1
  <2>4. CASE Unpause
    <3> DEFINE v == [up EXCEPT !.paused = FALSE]
    <3>1. up' = Do(v, <<DoMaybeSend>>)
      BY <2>4 DEF Unpause
    <3> QED
      BY <2>1, <3>1
  <2> QED
    BY <2>2, <2>3, <2>4
<1> QED
  BY <1>1, <1>2, FlagsKeep

\* Sessions that carry nothing are stopped after a while.
LEMMA StopTimerKeeps ==
  ASSUME TypeOK, UpOK(up, saved, {}), StopTimer
  PROVE  UpOK(up', saved, {})
<1> DEFINE v == [up EXCEPT !.stopTimer = FALSE]
<1>1. up \in UploaderType /\ up' = StopSessions(v)
  BY DEF TypeOK, StopTimer
<1>2. SameUploads(up, v)
  BY <1>1 DEF SameUploads, UploaderType
<1> HIDE DEF v
<1>3. v \in UploaderType /\ UpOK(v, saved, {})
  BY <1>1, <1>2, SameUploadsKeep DEF SameUploads
<1> QED
  BY <1>1, <1>3, StopSessionsKeeps

\* An upload begins.
LEMMA UploadKeeps ==
  ASSUME TypeOK, UpOK(up, saved, {}), NEW i \in Items, Upload(i)
  PROVE  UpOK(up', saved, {})
<1> DEFINE m == Push(up, i)
           v == m.u
<1>1. up \in UploaderType /\ up' = Do(v, m.calls) /\ i \notin Covers /\ ~Known(i)
  BY DEF TypeOK, Upload
<1>2. up.told[i] = "no" /\ ~InQueue(up, i) /\ i \notin up.waiting
  BY <1>1, PlaceIs DEF Known
<1>3. \A w \in Videos : CoverOf[w] # i
  BY <1>1 DEF Covers
<1>4. /\ v \in UploaderType /\ UpOK(v, saved, {})
      /\ m.calls = <<>> \/ m.calls = <<DoMaybeSend>>
  <2>1. v = Push(up, i).u
    OBVIOUS
  <2>2. \A w \in Videos : CoverOf[w] = i => up.told[w] # "no" \/ w \in up.waiting
    BY <1>3
  <2> HIDE DEF v
  <2>3. /\ v \in UploaderType /\ UpOK(v, saved, {})
        /\ Push(up, i).calls = <<>> \/ Push(up, i).calls = <<DoMaybeSend>>
    BY <1>1, <1>2, <2>1, <2>2, PushIs
  <2> QED
    BY <2>3
<1> HIDE DEF v, m
<1>5. m.calls \in Seq(CallsOf(v))
  BY <1>4, PlainCalls
<1> QED
  BY <1>1, <1>4, <1>5, DoKeeps

\* An upload is cancelled.
LEMMA CancelKeeps ==
  ASSUME TypeOK, UpOK(up, saved, {}), NEW i \in Items, Cancel(i)
  PROVE  UpOK(up', saved, {})
<1> DEFINE L == {}
<1>1. up \in UploaderType /\ UpOK(up, saved, L) /\ \A h \in L : h[1] = i
  BY DEF TypeOK
<1>2. up' = Do(up, <<DoFailed(i)>>)
  BY DEF Cancel
<1> HIDE DEF L
<1> QED
  BY <1>1, <1>2, DoFailedKeeps

\* When the queue is empty, nothing is out and nothing is noted.
LEMMA EmptyQueue ==
  ASSUME NEW u \in UploaderType, NEW sv, UpOK(u, sv, {}), u.queue = <<>>
  PROVE  u.requests = <<>> /\ \A s \in DOMAIN u.sent : u.sent[s] = 0
<1>1. EntriesOK(u, Held(u) \cup {}) /\ AmountsOK(u) /\ u.requests \in Seq(Requests)
  BY FieldsAre DEF UpOK
<1>2. Held(u) = {}
  BY <1>1 DEF EntriesOK, InQueue
<1>3. Keys(u.requests) = {}
  BY <1>2 DEF Held
<1>4. DOMAIN u.requests = {}
  BY <1>3 DEF Keys
<1>5. u.requests = <<>>
  BY <1>1, <1>3, HeadAndTail
<1>6. ToSet(u.requests) = {}
  BY <1>4 DEF ToSet
<1>7. \A s : Carried({}, s) = 0
  <2>1. \A s, d : Cardinality({ r \in {} : r.session = s /\ r.doc = d }) = 0
    <3>1. \A s, d : { r \in {} : r.session = s /\ r.doc = d } = {}
      OBVIOUS
    <3> QED
      BY <3>1, FS_EmptySet
  <2> QED
    BY <2>1, SizesAre DEF Carried
<1> QED
  BY <1>1, <1>5, <1>6, <1>7 DEF AmountsOK

\* All uploads are cancelled.
LEMMA CancelAllKeeps ==
  ASSUME TypeOK, UpOK(up, saved, {}), CancelAll
  PROVE  UpOK(up', saved, {})
<1> DEFINE u == Do(up, <<DoFailAll>>)
           zero == [s \in DOMAIN u.sent |-> 0]
           none == <<>>
           c == [u EXCEPT !.requests = none, !.sent = zero]
           t == StopSessions(c)
           w == [t EXCEPT !.stopTimer = FALSE, !.paused = FALSE]
<1>1. up \in UploaderType /\ u.queue = <<>> /\ up' = Do(w, <<DoMaybeSend>>)
  BY DEF TypeOK, CancelAll
<1>2. UpOK(u, saved, {}) /\ u \in UploaderType
  <2>1. UpOK(u, saved, {})
    BY <1>1, PlainCalls, DoKeeps
  <2> QED
    BY <2>1 DEF UpOK
<1> HIDE DEF u
<1>3. u.requests = none /\ \A s \in DOMAIN u.sent : u.sent[s] = 0
  BY <1>1, <1>2, EmptyQueue
<1>4. u.sent = zero
  BY <1>2, <1>3 DEF UploaderType
<1>5. SameUploads(u, c)
  <2> HIDE DEF zero, none
  <2> QED
    BY <1>2, <1>3, <1>4 DEF SameUploads, UploaderType
<1> HIDE DEF c
<1>6. c \in UploaderType /\ UpOK(c, saved, {})
  BY <1>2, <1>5, SameUploadsKeep DEF SameUploads
<1>7. t \in UploaderType /\ UpOK(t, saved, {})
  BY <1>6, StopSessionsKeeps
<1> HIDE DEF t
<1>8. SameUploads(t, w)
  BY <1>7 DEF SameUploads, UploaderType
<1> HIDE DEF w
<1> QED
  BY <1>1, <1>7, <1>8, FlagsKeep

\* The uploads are paused.
LEMMA PauseKeeps ==
  ASSUME TypeOK, UpOK(up, saved, {}), Pause
  PROVE  UpOK(up', saved, {})
<1>1. up \in UploaderType /\ up' = [up EXCEPT !.paused = TRUE]
  BY DEF TypeOK, Pause
<1>2. SameUploads(up, up')
  BY <1>1 DEF SameUploads, UploaderType
<1> QED
  BY <1>1, <1>2, SameUploadsKeep

\* Each action keeps the object right, and the server's parts.
LEMMA NextKeeps ==
  ASSUME TypeOK, UpOK(up, saved, {}), Next
  PROVE  UpOK(up', saved', {}) /\ saved' \in SUBSET (Items \X BOOLEAN \X Nat \X Nat)
<1>1. CASE PartLoaded
  BY <1>1, PartLoadedKeeps
<1>2. ASSUME ~PartLoaded
      PROVE  saved' = saved
  BY <1>2 DEF Next, Answer, Timers, User, PartRefused, CoverUploaded, CoverRefused, NextTimer,
              StopTimer, PostedSend, Upload, Unread, Cancel, CancelAll, Pause, Unpause
<1>3. ASSUME ~PartLoaded
      PROVE  UpOK(up', saved, {})
  <2>1. CASE PartRefused
    BY <2>1, PartRefusedKeeps
  <2>2. CASE CoverUploaded
    BY <2>2, CoverUploadedKeeps
  <2>3. CASE CoverRefused
    BY <2>3, CoverRefusedKeeps
  <2>4. CASE NextTimer \/ PostedSend \/ Unpause
    BY <2>4, SendingKeeps
  <2>5. CASE StopTimer
    BY <2>5, StopTimerKeeps
  <2>6. ASSUME NEW i \in Items, Upload(i)
        PROVE  UpOK(up', saved, {})
    BY <2>6, UploadKeeps
  <2>7. ASSUME NEW i \in Items, Unread(i)
        PROVE  UpOK(up', saved, {})
    BY <2>7 DEF Unread
  <2>8. ASSUME NEW i \in Items, Cancel(i)
        PROVE  UpOK(up', saved, {})
    BY <2>8, CancelKeeps
  <2>9. CASE CancelAll
    BY <2>9, CancelAllKeeps
  <2>10. CASE Pause
    BY <2>10, PauseKeeps
  <2> QED
    BY <1>3, <2>1, <2>2, <2>3, <2>4, <2>5, <2>6, <2>7, <2>8, <2>9, <2>10
       DEF Next, Answer, Timers, User
<1>4. CASE ~PartLoaded
  BY <1>2, <1>3, <1>4 DEF TypeOK
<1> QED
  BY <1>1, <1>4

\* Nothing is out in the beginning.
LEMMA InitHolds ==
  ASSUME Init
  PROVE  IInv
<1> DEFINE none == <<>>
           no == {}
           told == [i \in Items |-> "no"]
<1>1. /\ up = [ queue |-> none, requests |-> none, sent |-> none, fast |-> no,
                pending |-> none, waiting |-> no, media |-> no,
                paused |-> FALSE, nextTimer |-> FALSE, stopTimer |-> FALSE,
                posted |-> FALSE, told |-> told ]
      /\ unread = {} /\ saved = {} /\ failures = 0 /\ byUser = 0
  BY DEF Init
<1>2. /\ none \in Seq(Entries) /\ none \in Seq(Requests) /\ none \in Seq(Nat)
      /\ no \in SUBSET Nat /\ no \in SUBSET Videos /\ no \in SUBSET Covers
      /\ told \in [Items -> {"no", "ready", "failed"}]
      /\ DOMAIN none = {} /\ ToSet(none) = {} /\ Keys(none) = {}
  BY DEF ToSet, Keys
<1>3. \A i \in Items : told[i] # "ready"
  OBVIOUS
<1> HIDE DEF none, no, told
<1>4. /\ up \in UploaderType /\ up.queue = none /\ up.requests = none /\ up.sent = none
      /\ up.fast = no /\ up.pending = none /\ up.waiting = no /\ up.told = told
  BY <1>1, <1>2 DEF UploaderType
<1>5. TypeOK
  BY <1>1, <1>4 DEF TypeOK
<1>6. AmountsOK(up)
  BY <1>2, <1>4 DEF AmountsOK, no
<1>7. PlacesOK(up, {}) /\ Held(up) = {}
  BY <1>2, <1>4 DEF PlacesOK, Distinct, Held
<1>8. \A i : ~InQueue(up, i)
  BY <1>2, <1>4 DEF InQueue
<1>9. QueueOK(up)
  BY <1>2, <1>4, <1>8 DEF QueueOK
<1>10. EntriesOK(up, Held(up) \cup {}) /\ DocsOK(up, saved, Held(up) \cup {})
  BY <1>2, <1>4, <1>7 DEF EntriesOK, DocsOK
<1>11. DoneOK(up, saved)
  BY <1>3, <1>4 DEF DoneOK, no
<1> QED
  BY <1>4, <1>5, <1>6, <1>7, <1>9, <1>10, <1>11 DEF IInv, UpOK

\* The invariant holds in every state: whatever answers come in whatever order
\* and at whatever speed, and whatever a handler starts again from within itself.
THEOREM InvariantHolds == Spec => []IInv
<1>1. Init => IInv
  BY InitHolds
<1>2. IInv /\ [Next]_vars => IInv'
  <2> SUFFICES ASSUME IInv, [Next]_vars
               PROVE  IInv'
    OBVIOUS
  <2>1. TypeOK /\ UpOK(up, saved, {})
    BY DEF IInv
  <2>2. CASE Next
    <3>1. UpOK(up', saved', {}) /\ saved' \in SUBSET (Items \X BOOLEAN \X Nat \X Nat)
      BY <2>1, <2>2, NextKeeps
    <3>2. unread' \subseteq Items
      BY <2>1, <2>2 DEF TypeOK, Next, Answer, Timers, User, PartLoaded, PartRefused,
            CoverUploaded, CoverRefused, NextTimer, StopTimer, PostedSend, Upload, Unread,
            Cancel, CancelAll, Pause, Unpause
    <3>3. failures' \in Nat /\ byUser' \in Nat
      <4>1. failures' = failures \/ Fail
        BY <2>2 DEF Next, Answer, Timers, User, PartLoaded, PartRefused,
              CoverUploaded, CoverRefused, NextTimer, StopTimer, PostedSend, Upload, Unread,
              Cancel, CancelAll, Pause, Unpause
      <4>2. byUser' = byUser \/ ByUser
        BY <2>2 DEF Next, Answer, Timers, User, PartLoaded, PartRefused,
              CoverUploaded, CoverRefused, NextTimer, StopTimer, PostedSend, Upload, Unread,
              Cancel, CancelAll, Pause, Unpause
      <4>3. failures \in Nat /\ byUser \in Nat
        BY <2>1 DEF TypeOK
      <4> QED
        BY <4>1, <4>2, <4>3 DEF Fail, ByUser
    <3>4. up' \in UploaderType
      BY <3>1 DEF UpOK
    <3>5. TypeOK'
      BY <3>1, <3>2, <3>3, <3>4 DEF TypeOK
    <3> QED
      BY <3>1, <3>5 DEF IInv, UpOK, AmountsOK, PlacesOK, QueueOK, EntriesOK, DocsOK, DoneOK
  <2>3. CASE UNCHANGED vars
    BY <2>3 DEF IInv, TypeOK, vars, UpOK, AmountsOK, PlacesOK, QueueOK, EntriesOK, DocsOK, DoneOK
  <2> QED
    BY <2>2, <2>3
<1> QED
  BY <1>1, <1>2, PTL DEF Spec

\* What each variable is made of.
THEOREM TypeCorrect == Spec => []TypeOK
<1>1. IInv => TypeOK
  BY DEF IInv
<1> QED
  BY <1>1, InvariantHolds, PTL

-----------------------------------------------------------------------------
(* What the runs check. *)

\* A session is noted to carry what its requests carry, whatever was taken
\* away from it, cancelled or moved to another one.
THEOREM BalancedHolds == Spec => []Balanced
<1>1. ASSUME IInv
      PROVE  Balanced
  <2>1. up \in UploaderType /\ AmountsOK(up) /\ PlacesOK(up, {})
    BY <1>1 DEF IInv, UpOK
  <2>2. up.requests \in Seq(Requests) /\ Distinct(up.requests)
    BY <2>1, FieldsAre DEF PlacesOK
  <2>3. \A k \in DOMAIN up.requests : up.requests[k].session \in DOMAIN up.sent
    BY <2>1 DEF AmountsOK, ToSet
  <2>4. ASSUME NEW s \in DOMAIN up.sent
        PROVE  up.sent[s]
                 = PartSize * Cardinality({ k \in DOMAIN up.requests :
                       up.requests[k].session = s /\ up.requests[k].doc = FALSE })
                   + DocPartSize * Cardinality({ k \in DOMAIN up.requests :
                       up.requests[k].session = s /\ up.requests[k].doc = TRUE })
    <3>1. up.sent[s] = Carried(ToSet(up.requests), s)
      BY <2>1 DEF AmountsOK
    <3> QED
      BY <2>2, <3>1, CarriedByPlace
  <2>5. up.fast \subseteq DOMAIN up.sent
    BY <2>1 DEF AmountsOK
  <2> QED
    BY <2>3, <2>4, <2>5 DEF Balanced
<1> QED
  BY <1>1, InvariantHolds, PTL

\* The numbers of the parts of an upload tell these parts from one another.
LEMMA CountNumbers ==
  ASSUME NEW all \in Seq(Requests), Distinct(all), NEW i, NEW doc
  PROVE  Cardinality({ k \in DOMAIN all : all[k].item = i /\ all[k].doc = doc })
           = Cardinality(Numbers(Keys(all), i, doc))
<1> DEFINE D == { k \in DOMAIN all : all[k].item = i /\ all[k].doc = doc }
           N == Numbers(Keys(all), i, doc)
           f == [k \in D |-> all[k].no]
<1>1. IsFiniteSet(D)
  <2>1. IsFiniteSet(DOMAIN all)
    BY FS_Interval
  <2> QED
    BY <2>1, FS_Subset
<1>2. \A k \in DOMAIN all : Key(all[k]) = <<all[k].item, all[k].doc, all[k].no>>
  BY DEF Key
<1>3. N = { all[k].no : k \in D }
  <2>1. N = { h[3] : h \in { x \in { Key(all[k]) : k \in DOMAIN all } : x[1] = i /\ x[2] = doc } }
    BY DEF Numbers, Keys
  <2>2. ASSUME NEW k \in D
        PROVE  all[k].no \in N
    <3> DEFINE h == Key(all[k])
    <3>1. h \in { Key(all[j]) : j \in DOMAIN all } /\ h[1] = i /\ h[2] = doc /\ h[3] = all[k].no
      BY <1>2
    <3> HIDE DEF h
    <3> QED
      BY <2>1, <3>1
  <2>3. ASSUME NEW n \in N
        PROVE  \E k \in D : all[k].no = n
    <3>1. PICK k \in DOMAIN all : Key(all[k])[1] = i /\ Key(all[k])[2] = doc /\ Key(all[k])[3] = n
      BY <2>1
    <3> QED
      BY <1>2, <3>1
  <2> HIDE DEF N, D
  <2> QED
    BY <2>2, <2>3
<1>4. f \in Bijection(D, N)
  <2>1. f \in [D -> N]
    BY <1>3
  <2>2. \A j, k \in D : f[j] = f[k] => j = k
    <3> SUFFICES ASSUME NEW j \in D, NEW k \in D, all[j].no = all[k].no
                 PROVE  j = k
      OBVIOUS
    <3>1. Key(all[j]) = Key(all[k])
      BY <1>2
    <3> QED
      BY <3>1 DEF Distinct
  <2>3. \A n \in N : \E k \in D : f[k] = n
    BY <1>3
  <2> HIDE DEF f, D, N
  <2> QED
    BY <2>1, <2>2, <2>3 DEF Bijection, Injection, Surjection, IsInjective
<1> HIDE DEF f, D, N
<1>5. ExistsBijection(D, N)
  BY <1>4 DEF ExistsBijection
<1>6. Cardinality(D) = Cardinality(N)
  BY <1>1, <1>5, FS_Bijection
<1> QED
  BY <1>6 DEF D, N

\* Each part that is out, or waits to be sent again, belongs to an upload of the
\* queue, which waits for as many answers as it has parts out.
THEOREM PartsAccountedHold == Spec => []PartsAccounted
<1>1. ASSUME IInv
      PROVE  PartsAccounted
  <2> DEFINE all == up.requests \o up.pending
             H == Held(up)
  <2>1. /\ up \in UploaderType /\ PlacesOK(up, {}) /\ EntriesOK(up, H \cup {})
        /\ up.requests \in Seq(Requests) /\ up.pending \in Seq(Requests)
    <3>1. up \in UploaderType /\ PlacesOK(up, {}) /\ EntriesOK(up, H \cup {})
      BY <1>1 DEF IInv, UpOK
    <3> QED
      BY <3>1, FieldsAre
  <2>2. all \in Seq(Requests) /\ ToSet(all) = ToSet(up.requests) \cup ToSet(up.pending)
    BY <2>1, ConcatIs
  <2>3. Distinct(all)
    BY <2>1, DistinctTogether DEF PlacesOK
  <2>4. Keys(all) = H
    <3>1. /\ Keys(all) = { Key(x) : x \in ToSet(all) }
          /\ Keys(up.requests) = { Key(x) : x \in ToSet(up.requests) }
          /\ Keys(up.pending) = { Key(x) : x \in ToSet(up.pending) }
      BY KeysAre
    <3> HIDE DEF all
    <3> QED
      BY <2>2, <3>1 DEF Held
  <2> HIDE DEF all, H
  <2>5. ASSUME NEW k \in DOMAIN all
        PROVE  Place(up, all[k].item) # 0
    <3>1. Key(all[k]) \in H /\ Key(all[k])[1] = all[k].item
      BY <2>4 DEF Keys, Key
    <3>2. InQueue(up, all[k].item)
      BY <2>1, <3>1 DEF EntriesOK
    <3> QED
      BY <2>1, <3>2, PlaceIs
  <2>6. ASSUME NEW k \in DOMAIN up.queue, NEW e, e = up.queue[k]
        PROVE  /\ e.waits = Cardinality({ j \in DOMAIN all :
                                all[j].item = e.item /\ all[j].doc = FALSE })
               /\ e.docWaits = Cardinality({ j \in DOMAIN all :
                                all[j].item = e.item /\ all[j].doc = TRUE })
    <3>1. EntryOK(e, H)
      BY <2>1, <2>6 DEF EntriesOK
    <3>2. \A d : Cardinality({ j \in DOMAIN all : all[j].item = e.item /\ all[j].doc = d })
                   = Cardinality(Numbers(H, e.item, d))
      BY <2>2, <2>3, <2>4, CountNumbers
    <3> QED
      BY <3>1, <3>2 DEF EntryOK
  <2> QED
    BY <2>5, <2>6 DEF PartsAccounted, all
<1> QED
  BY <1>1, InvariantHolds, PTL

\* A document that is said to be uploaded, or waits for its cover only, is on
\* the server, each part in its place.
THEOREM DocumentCompleteHolds == Spec => []DocumentComplete
<1>1. IInv => DocumentComplete
  BY DEF IInv, UpOK, DoneOK, DocumentComplete
<1> QED
  BY <1>1, InvariantHolds, PTL
=============================================================================
