----------------------------- MODULE LogProofs ------------------------------
(*****************************************************************************)
(* What the two logs that are kept in numbered files promise, for every      *)
(* value of their constants: the journal, with a file for each day, and the  *)
(* provenance log, with a new file when one is full. A reader of either      *)
(* joins the files in the order of their names; the first section is about   *)
(* that.                                                                     *)
(*****************************************************************************)
EXTENDS Journal, Provenance, WellFoundedInduction, TLAPS

-----------------------------------------------------------------------------
(*****************************************************************************)
(* Joined, for any files. It is computed by a loop over the numbers; what    *)
(* the loop reads up to a number is found by induction on it, in the form    *)
(* that every set of numbers has a least one.                                *)
(*****************************************************************************)

\* The step of the loop of Joined.
Reads(f, g, i) ==
    IF i = 0 THEN <<>>
    ELSE IF i \in DOMAIN f THEN g[i - 1] \o f[i] ELSE g[i - 1]

\* g is what the loop over the numbers up to n computes.
ReadsTo(f, g, n) == g = [i \in 0 .. n |-> Reads(f, g, i)]

\* Numbered files whose elements are in S.
FilesOf(f, S) == DOMAIN f \in SUBSET Nat /\ \A d \in DOMAIN f : f[d] \in Seq(S)

\* A set of numbers that is not empty has a least one.
LEMMA LeastNumber ==
    ASSUME NEW T \in SUBSET Nat, T # {}
    PROVE  \E x \in T : \A y \in T : ~(y < x)
  <1>1. IsWellFoundedOn(OpToRel(<, Nat), Nat)
    BY Zenon, NatLessThanWellFounded
  <1>2. PICK x \in T : \A y \in T : ~(<<y, x>> \in OpToRel(<, Nat))
    BY Zenon, <1>1, WFMin
  <1>3. \A y \in T : ~(y < x)
    BY Zenon, <1>2 DEF OpToRel
  <1> QED
    BY <1>3

\* The loop of Joined has a result.
LEMMA ReadsEnd ==
    ASSUME NEW f, NEW n \in Nat
    PROVE  \E g : ReadsTo(f, g, n)
  <1> DEFINE Bad == {k \in Nat : ~ \E g : ReadsTo(f, g, k)}
  <1> SUFFICES ASSUME Bad # {}
               PROVE  FALSE
    OBVIOUS
  <1>1. PICK k \in Bad : \A y \in Bad : ~(y < k)
    BY Zenon, LeastNumber
  <1>2. CASE k = 0
    <2> DEFINE g == [i \in 0 .. 0 |-> <<>>]
    <2>1. \A i \in 0 .. 0 : Reads(f, g, i) = <<>>
      BY DEF Reads
    <2>2. g = [i \in 0 .. 0 |-> Reads(f, g, i)]
      BY <2>1
    <2> QED
      BY <1>1, <1>2, <2>2 DEF ReadsTo
  <1>3. CASE k # 0
    <2>1. k - 1 \in Nat /\ k - 1 < k
      BY <1>1, <1>3
    <2>2. PICK h : ReadsTo(f, h, k - 1)
      BY <1>1, <2>1
    <2> DEFINE g == [i \in 0 .. k |-> IF i <= k - 1 THEN h[i] ELSE Reads(f, h, k)]
    <2>3. ASSUME NEW i \in 0 .. k
          PROVE  g[i] = Reads(f, g, i)
      <3>1. CASE i <= k - 1
        <4>1. i \in 0 .. k - 1
          BY <1>1, <3>1
        <4>2. g[i] = Reads(f, h, i)
          BY <2>2, <3>1, <4>1 DEF ReadsTo
        <4>3. i # 0 => g[i - 1] = h[i - 1]
          BY <1>1, <4>1
        <4> HIDE DEF g
        <4> QED
          BY <4>2, <4>3 DEF Reads
      <3>2. CASE i = k
        <4>1. g[i] = Reads(f, h, k)
          BY <1>1, <3>2
        <4>2. g[k - 1] = h[k - 1]
          BY <1>1, <2>1
        <4> HIDE DEF g
        <4> QED
          BY <1>3, <3>2, <4>1, <4>2 DEF Reads
      <3> QED
        BY <1>1, <3>1, <3>2
    <2>4. g = [i \in 0 .. k |-> Reads(f, g, i)]
      BY <2>3
    <2> HIDE DEF g
    <2> QED
      BY <1>1, <2>4 DEF ReadsTo
  <1> QED
    BY <1>2, <1>3

\* Joined is what the loop computes last.
LEMMA JoinedReads ==
    ASSUME NEW f, NEW n \in Nat
    PROVE  \E g : ReadsTo(f, g, n) /\ Joined(f, n) = g[n]
  <1> DEFINE g == CHOOSE g : ReadsTo(f, g, n)
  <1>1. Joined(f, n) = g[n]
    BY DEF Joined, ReadsTo, Reads
  <1>2. ReadsTo(f, g, n)
    BY Zenon, ReadsEnd
  <1> QED
    BY Zenon, <1>1, <1>2

\* The values the loop goes through.
LEMMA ReadsAt ==
    ASSUME NEW f, NEW g, NEW n \in Nat, ReadsTo(f, g, n), NEW i \in 0 .. n
    PROVE  g[i] = Reads(f, g, i)
  <1> DEFINE r(j) == Reads(f, g, j)
  <1>1. g = [j \in 0 .. n |-> r(j)]
    BY Zenon DEF ReadsTo
  <1> HIDE DEF r
  <1>2. g[i] = r(i)
    BY Zenon, <1>1
  <1> QED
    BY Zenon, <1>2 DEF r

\* Two directories hold the same files up to n.
SameTo(f, h, n) ==
    \A d \in 1 .. n : (d \in DOMAIN f <=> d \in DOMAIN h) /\ (d \in DOMAIN f => f[d] = h[d])

\* Loops over the same files go through the same values.
LEMMA ReadsSame ==
    ASSUME NEW f, NEW h, NEW n \in Nat, SameTo(f, h, n),
           NEW a, NEW m \in Nat, ReadsTo(f, a, m), n <= m,
           NEW b, NEW l \in Nat, ReadsTo(h, b, l), n <= l
    PROVE  a[n] = b[n]
  <1> DEFINE Bad == {k \in 0 .. n : a[k] # b[k]}
  <1> SUFFICES ASSUME Bad # {}
               PROVE  FALSE
    OBVIOUS
  <1>1. Bad \in SUBSET Nat
    OBVIOUS
  <1>2. PICK k \in Bad : \A y \in Bad : ~(y < k)
    BY Zenon, <1>1, LeastNumber
  <1>3. k \in 0 .. n /\ a[k] # b[k]
    BY Zenon, <1>2
  <1>0. k \in 0 .. m /\ k \in 0 .. l
    BY <1>3
  <1>4. a[k] = Reads(f, a, k) /\ b[k] = Reads(h, b, k)
    BY Zenon, <1>0, ReadsAt
  <1>5. k # 0
    BY <1>3, <1>4 DEF Reads
  <1>6. k - 1 \in 0 .. n /\ k - 1 < k /\ k \in 1 .. n
    BY <1>3, <1>5
  <1>7. a[k - 1] = b[k - 1]
    BY <1>2, <1>6
  <1> QED
    BY <1>3, <1>4, <1>5, <1>6, <1>7 DEF Reads, SameTo

\* A reader of the files up to n sees no other file.
LEMMA JoinedSame ==
    ASSUME NEW f, NEW h, NEW n \in Nat, SameTo(f, h, n)
    PROVE  Joined(f, n) = Joined(h, n)
  <1>1. PICK a : ReadsTo(f, a, n) /\ Joined(f, n) = a[n]
    BY Zenon, JoinedReads
  <1>2. PICK b : ReadsTo(h, b, n) /\ Joined(h, n) = b[n]
    BY Zenon, JoinedReads
  <1>3. n <= n
    OBVIOUS
  <1>4. a[n] = b[n]
    BY <1>1, <1>2, <1>3, ReadsSame
  <1> QED
    BY Zenon, <1>1, <1>2, <1>4

\* The recursion that Joined stands for.
LEMMA JoinedStep ==
    ASSUME NEW f, NEW n \in Nat
    PROVE  /\ n = 0 => Joined(f, n) = <<>>
           /\ n # 0 /\ n \in DOMAIN f => Joined(f, n) = Joined(f, n - 1) \o f[n]
           /\ n # 0 /\ n \notin DOMAIN f => Joined(f, n) = Joined(f, n - 1)
  <1>1. PICK a : ReadsTo(f, a, n) /\ Joined(f, n) = a[n]
    BY Zenon, JoinedReads
  <1>2. n \in 0 .. n /\ n <= n
    OBVIOUS
  <1>3. a[n] = Reads(f, a, n)
    BY Zenon, <1>1, <1>2, ReadsAt
  <1>4. CASE n = 0
    BY <1>1, <1>3, <1>4 DEF Reads
  <1>5. CASE n # 0
    <2>1. n - 1 \in Nat /\ n - 1 <= n - 1 /\ n - 1 <= n
      BY <1>5
    <2> DEFINE k == n - 1
    <2>2. PICK b : ReadsTo(f, b, k) /\ Joined(f, k) = b[k]
      BY Zenon, <2>1, JoinedReads
    <2>3. SameTo(f, f, k)
      BY DEF SameTo
    <2>4. a[k] = b[k]
      BY <1>1, <2>1, <2>2, <2>3, ReadsSame
    <2> QED
      BY Zenon, <1>1, <1>3, <1>5, <2>2, <2>4 DEF Reads
  <1> QED
    BY Zenon, <1>4, <1>5

\* A set with m, and with the successor of each of its numbers from m on, has
\* all of them.
LEMMA FromOn ==
    ASSUME NEW T, NEW m \in Nat, m \in T,
           \A k \in Nat : k >= m /\ k \in T => k + 1 \in T
    PROVE  \A k \in Nat : k >= m => k \in T
  <1> DEFINE Bad == {k \in Nat : k >= m /\ k \notin T}
  <1> SUFFICES ASSUME Bad # {}
               PROVE  FALSE
    OBVIOUS
  <1>1. Bad \in SUBSET Nat
    OBVIOUS
  <1>2. PICK k \in Bad : \A y \in Bad : ~(y < k)
    BY Zenon, <1>1, LeastNumber
  <1>3. k \in Nat /\ k >= m /\ k \notin T
    BY Zenon, <1>2
  <1>4. k # m
    BY Zenon, <1>3
  <1>5. k - 1 \in Nat /\ k - 1 >= m /\ k - 1 < k /\ (k - 1) + 1 = k
    BY <1>3, <1>4
  <1>6. k - 1 \in T
    BY <1>2, <1>5
  <1> QED
    BY <1>3, <1>5, <1>6

\* Nothing is read before the first file.
LEMMA JoinedNone ==
    ASSUME NEW f
    PROVE  Joined(f, 0) = <<>>
  <1>1. 0 \in Nat
    OBVIOUS
  <1> QED
    BY Zenon, <1>1, JoinedStep

\* What is read of files with elements in S is a sequence over S.
LEMMA JoinedType ==
    ASSUME NEW f, NEW S, FilesOf(f, S), NEW n \in Nat
    PROVE  Joined(f, n) \in Seq(S)
  <1> DEFINE T == {k \in Nat : Joined(f, k) \in Seq(S)}
  <1>0. <<>> \in Seq(S) /\ \A p, q \in Seq(S) : p \o q \in Seq(S)
    OBVIOUS
  <1>1. 0 \in T
    <2>1. Joined(f, 0) \in Seq(S) /\ 0 \in Nat
      BY Zenon, <1>0, JoinedNone
    <2> QED
      BY <2>1
  <1>2. ASSUME NEW k \in Nat, k \in T
        PROVE  k + 1 \in T
    <2>1. k + 1 \in Nat /\ k + 1 # 0 /\ (k + 1) - 1 = k
      OBVIOUS
    <2>2. \/ k + 1 \in DOMAIN f /\ Joined(f, k + 1) = Joined(f, k) \o f[k + 1]
          \/ Joined(f, k + 1) = Joined(f, k)
      BY Zenon, <2>1, JoinedStep
    <2>3. Joined(f, k) \in Seq(S)
      BY <1>2
    <2>4. CASE k + 1 \in DOMAIN f /\ Joined(f, k + 1) = Joined(f, k) \o f[k + 1]
      <3>1. f[k + 1] \in Seq(S)
        BY <2>4 DEF FilesOf
      <3>2. Joined(f, k + 1) \in Seq(S)
        BY Zenon, <1>0, <2>3, <2>4, <3>1
      <3> QED
        BY <2>1, <3>2
    <2>5. CASE Joined(f, k + 1) = Joined(f, k)
      BY <2>1, <2>3, <2>5
    <2> QED
      BY <2>2, <2>4, <2>5
  <1> HIDE DEF T
  <1>3. n >= 0 /\ 0 \in Nat
    OBVIOUS
  <1>4. n \in T
    BY <1>1, <1>2, <1>3, FromOn
  <1> QED
    BY <1>4 DEF T

\* Numbers without a file add nothing.
LEMMA JoinedStops ==
    ASSUME NEW f, NEW S, FilesOf(f, S), NEW m \in Nat, NEW n \in Nat, m <= n,
           \A d \in DOMAIN f : ~(m < d /\ d <= n)
    PROVE  Joined(f, n) = Joined(f, m)
  <1> DEFINE T == {k \in Nat : k <= n => Joined(f, k) = Joined(f, m)}
  <1>1. m \in T
    OBVIOUS
  <1>2. ASSUME NEW k \in Nat, k >= m, k \in T
        PROVE  k + 1 \in T
    <2>1. k + 1 \in Nat /\ k + 1 # 0 /\ (k + 1) - 1 = k /\ m < k + 1
      BY <1>2
    <2> SUFFICES ASSUME k + 1 <= n
                 PROVE  Joined(f, k + 1) = Joined(f, m)
      BY <2>1
    <2>2. k + 1 \notin DOMAIN f
      BY <2>1
    <2>3. Joined(f, k + 1) = Joined(f, k)
      BY Zenon, <2>1, <2>2, JoinedStep
    <2> QED
      BY <1>2, <2>3
  <1> HIDE DEF T
  <1>3. n \in T
    BY <1>1, <1>2, FromOn
  <1> QED
    BY <1>3 DEF T

\* What is read ends with the last file.
LEMMA JoinedAtLast ==
    ASSUME NEW f, NEW S, FilesOf(f, S), NEW m \in DOMAIN f, m # 0, NEW n \in Nat, m <= n,
           \A d \in DOMAIN f : d <= m
    PROVE  Joined(f, n) = Joined(f, m - 1) \o f[m]
  <1>0. m \in Nat
    BY DEF FilesOf
  <1>1. \A d \in DOMAIN f : ~(m < d /\ d <= n)
    BY <1>0 DEF FilesOf
  <1>2. Joined(f, n) = Joined(f, m)
    BY <1>0, <1>1, JoinedStops
  <1>3. Joined(f, m) = Joined(f, m - 1) \o f[m]
    BY Zenon, <1>0, JoinedStep
  <1> QED
    BY <1>2, <1>3

\* Everything that is read is in a file.
LEMMA JoinedFrom ==
    ASSUME NEW f, NEW S, FilesOf(f, S), NEW n \in Nat, NEW i \in DOMAIN Joined(f, n)
    PROVE  \E d \in DOMAIN f : \E j \in DOMAIN f[d] : Joined(f, n)[i] = f[d][j]
  <1> DEFINE In(e) == \E d \in DOMAIN f : \E j \in DOMAIN f[d] : e = f[d][j]
             T == {k \in Nat : \A p \in DOMAIN Joined(f, k) : In(Joined(f, k)[p])}
  <1>1. 0 \in T
    BY JoinedNone
  <1>2. ASSUME NEW k \in Nat, k \in T
        PROVE  k + 1 \in T
    <2> DEFINE a == Joined(f, k)
               b == Joined(f, k + 1)
    <2>1. k + 1 \in Nat /\ k + 1 # 0 /\ (k + 1) - 1 = k
      OBVIOUS
    <2>2. \/ k + 1 \in DOMAIN f /\ b = a \o f[k + 1]
          \/ b = a
      BY Zenon, <2>1, JoinedStep
    <2>3. \A p \in DOMAIN a : In(a[p])
      BY <1>2
    <2>4. a \in Seq(S)
      BY JoinedType
    <2> SUFFICES ASSUME NEW p \in DOMAIN b
                 PROVE  In(b[p])
      BY <2>1
    <2>5. CASE b = a
      BY Zenon, <2>3, <2>5
    <2>6. CASE k + 1 \in DOMAIN f /\ b = a \o f[k + 1]
      <3> DEFINE c == f[k + 1]
      <3>1. c \in Seq(S)
        BY <2>6 DEF FilesOf
      <3> HIDE DEF a, b, c, In
      <3>2. \/ p \in DOMAIN a /\ b[p] = a[p]
            \/ p - Len(a) \in DOMAIN c /\ b[p] = c[p - Len(a)]
        BY <2>4, <2>6, <3>1 DEF c
      <3>3. CASE p \in DOMAIN a /\ b[p] = a[p]
        BY <2>3, <3>3
      <3>4. CASE p - Len(a) \in DOMAIN c /\ b[p] = c[p - Len(a)]
        BY <2>6, <3>4 DEF In, c
      <3> QED
        BY <3>2, <3>3, <3>4
    <2> QED
      BY <2>2, <2>5, <2>6
  <1> HIDE DEF T
  <1>3. n >= 0 /\ 0 \in Nat
    OBVIOUS
  <1>4. n \in T
    BY <1>1, <1>2, <1>3, FromOn
  <1> QED
    BY <1>4 DEF T

\* g holds the files of f from number c on.
FromFile(f, g, c) ==
    /\ \A d \in DOMAIN f : d >= c <=> d \in DOMAIN g
    /\ \A d \in DOMAIN g : d \in DOMAIN f /\ g[d] = f[d]

\* Removing the first files removes the beginning of what is read.
LEMMA JoinedCut ==
    ASSUME NEW f, NEW S, FilesOf(f, S), NEW g, NEW c \in Nat, FromFile(f, g, c + 1),
           NEW n \in Nat, c <= n
    PROVE  Joined(f, n) = Joined(f, c) \o Joined(g, n)
  <1> DEFINE T == {k \in Nat : Joined(f, k) = Joined(f, c) \o Joined(g, k)}
  <1>0. FilesOf(g, S)
    BY DEF FilesOf, FromFile
  <1>1. c \in T
    <2>1. 0 \in Nat /\ 0 <= c
      OBVIOUS
    <2>2. \A d \in DOMAIN g : ~(0 < d /\ d <= c)
      BY <1>0 DEF FilesOf, FromFile
    <2>3. Joined(g, c) = Joined(g, 0)
      BY <1>0, <2>1, <2>2, JoinedStops
    <2>4. Joined(g, 0) = <<>>
      BY JoinedNone
    <2>5. Joined(f, c) \in Seq(S)
      BY JoinedType
    <2> QED
      BY <2>3, <2>4, <2>5
  <1>2. ASSUME NEW k \in Nat, k >= c, k \in T
        PROVE  k + 1 \in T
    <2>1. k + 1 \in Nat /\ k + 1 # 0 /\ (k + 1) - 1 = k /\ k + 1 >= c + 1
      BY <1>2
    <2>2. k + 1 \in DOMAIN f <=> k + 1 \in DOMAIN g
      BY <2>1 DEF FromFile
    <2>3. Joined(f, k) \in Seq(S) /\ Joined(g, k) \in Seq(S) /\ Joined(f, c) \in Seq(S)
      BY Zenon, <1>0, JoinedType
    <2>4. Joined(f, k) = Joined(f, c) \o Joined(g, k)
      BY <1>2
    <2>5. CASE k + 1 \in DOMAIN f
      <3>1. /\ Joined(f, k + 1) = Joined(f, k) \o f[k + 1]
            /\ Joined(g, k + 1) = Joined(g, k) \o f[k + 1]
        BY Zenon, <2>1, <2>2, <2>5, JoinedStep DEF FromFile
      <3>2. f[k + 1] \in Seq(S)
        BY <2>5 DEF FilesOf
      <3>3. \A p, q, r \in Seq(S) : (p \o q) \o r = p \o (q \o r)
        OBVIOUS
      <3>4. (Joined(f, c) \o Joined(g, k)) \o f[k + 1] = Joined(f, c) \o (Joined(g, k) \o f[k + 1])
        BY Zenon, <2>3, <3>2, <3>3
      <3>5. Joined(f, k + 1) = Joined(f, c) \o Joined(g, k + 1)
        BY Zenon, <2>4, <3>1, <3>4
      <3> QED
        BY <2>1, <3>5
    <2>6. CASE k + 1 \notin DOMAIN f
      BY Zenon, <2>1, <2>2, <2>4, <2>6, JoinedStep
    <2> QED
      BY <2>5, <2>6
  <1> HIDE DEF T
  <1>3. n \in T
    BY <1>1, <1>2, FromOn
  <1> QED
    BY <1>3 DEF T

\* The longer one reads, the longer what is read.
LEMMA JoinedGrows ==
    ASSUME NEW f, NEW S, FilesOf(f, S), NEW m \in Nat, NEW n \in Nat, m <= n
    PROVE  Len(Joined(f, m)) <= Len(Joined(f, n))
  <1> DEFINE g == [d \in {e \in DOMAIN f : e >= m + 1} |-> f[d]]
  <1>1. FromFile(f, g, m + 1) /\ FilesOf(g, S)
    BY DEF FromFile, FilesOf
  <1> HIDE DEF g
  <1>2. Joined(f, n) = Joined(f, m) \o Joined(g, n)
    BY <1>1, JoinedCut
  <1>3. Joined(f, m) \in Seq(S) /\ Joined(g, n) \in Seq(S)
    BY Zenon, <1>1, JoinedType
  <1> QED
    BY <1>2, <1>3

\* A set of positions that is not empty has a largest, which Max gives.
LEMMA MaxPosition ==
    ASSUME NEW n \in Nat, NEW T \in SUBSET (1 .. n), T # {}
    PROVE  Max(T) \in T /\ \A t \in T : t <= Max(T)
  <1> DEFINE D == {n - t : t \in T}
  <1>1. D \in SUBSET Nat /\ D # {}
    <2>1. \A t \in T : n - t \in Nat
      OBVIOUS
    <2> QED
      BY Zenon, <2>1
  <1>2. PICK x \in D : \A y \in D : ~(y < x)
    BY Zenon, <1>1, LeastNumber
  <1>3. PICK s \in T : x = n - s
    OBVIOUS
  <1>4. ASSUME NEW t \in T
        PROVE  s >= t
    <2>1. n - t \in D
      OBVIOUS
    <2>2. ~(n - t < n - s)
      BY Zenon, <1>2, <1>3, <2>1
    <2> QED
      BY <2>2
  <1>5. \E r \in T : \A t \in T : r >= t
    BY <1>4
  <1>6. Max(T) \in T /\ \A t \in T : Max(T) >= t
    BY Zenon, <1>5 DEF Max
  <1> QED
    BY <1>6

\* The elements of a sequence with one more.
LEMMA AppendElements ==
    ASSUME NEW S, NEW q \in Seq(S), NEW x \in S
    PROVE  /\ Append(q, x) # <<>> /\ Len(Append(q, x)) = Len(q) + 1
           /\ \A i \in DOMAIN Append(q, x) :
                  Append(q, x)[i] = x \/ (i \in DOMAIN q /\ Append(q, x)[i] = q[i])
  <1> DEFINE t == Append(q, x)
             n == Len(q)
  <1>1. /\ t # <<>> /\ Len(t) = n + 1 /\ DOMAIN t = 1 .. n + 1 /\ DOMAIN q = 1 .. n /\ n \in Nat
        /\ t[n + 1] = x
    OBVIOUS
  <1>2. \A i \in 1 .. n : t[i] = q[i]
    OBVIOUS
  <1> HIDE DEF t, n
  <1>3. ASSUME NEW i \in DOMAIN t
        PROVE  t[i] = x \/ (i \in DOMAIN q /\ t[i] = q[i])
    <2>1. i \in 1 .. n \/ i = n + 1
      BY <1>1
    <2>2. CASE i \in 1 .. n
      BY Zenon, <1>1, <1>2, <2>2
    <2>3. CASE i = n + 1
      BY Zenon, <1>1, <2>3
    <2> QED
      BY Zenon, <2>1, <2>2, <2>3
  <1>4. t # <<>> /\ Len(t) = Len(q) + 1
    BY Zenon, <1>1 DEF n
  <1> QED
    BY Zenon, <1>3, <1>4 DEF t

-----------------------------------------------------------------------------
(*****************************************************************************)
(* Journal. A follower forwards no record twice and none out of order. It    *)
(* knows files by name, and the name may pass from one inode to another      *)
(* while it reads. The invariant says that what lies behind its offset in    *)
(* the file it has open is newer than all it forwarded, and that a file      *)
(* that lost its name is older than the one that has it, and is written no   *)
(* more.                                                                     *)
(*****************************************************************************)

\* The types of the variables: every name stands for an inode.
JournalType ==
    /\ day \in 1 .. MaxDay /\ accepted \in Nat /\ accepted <= MaxRecords
    /\ inodes \in Seq(Seq(Nat))
    /\ DOMAIN dir \subseteq 1 .. MaxDay /\ dir \in [DOMAIN dir -> 1 .. Len(inodes)]
    /\ writer \in [today : Nat, file : 0 .. Len(inodes)]
    /\ follow \in [at : {"list", "stat", "open", "read", "returned"}, path : Nat, offset : Nat,
                   file : 0 .. Len(inodes)]
    /\ forwarded \in Seq(Nat)

\* Each inode holds records in the order they were written.
Ordered ==
    \A i \in 1 .. Len(inodes) : \A a \in 1 .. Len(inodes[i]) :
        /\ inodes[i][a] <= accepted
        /\ \A b \in 1 .. Len(inodes[i]) : a < b => inodes[i][a] < inodes[i][b]

\* The records of inode i after the offset are later than all that was forwarded.
Unread(i, offset) ==
    \A k \in 1 .. Len(inodes[i]) : k > offset => \A n \in 1 .. Len(forwarded) : forwarded[n] < inodes[i][k]

\* The records of inode i are older than those of inode j.
Precedes(i, j) ==
    \A a \in 1 .. Len(inodes[i]), b \in 1 .. Len(inodes[j]) : inodes[i][a] < inodes[j][b]

\* An inode has one name at most.
NamesDiffer == \A d, e \in DOMAIN dir : d # e => dir[d] # dir[e]

\* The follower reads the file its path names, or one that lost the name, is no
\* longer written and is older than the file that has the name now.
FollowsOn ==
    /\ follow.at \in {"list", "open"} /\ follow.path \in DOMAIN dir => Unread(dir[follow.path], follow.offset)
    /\ follow.at = "read" =>
         /\ follow.file # 0
         /\ Unread(follow.file, follow.offset)
         /\ \A d \in DOMAIN dir : dir[d] = follow.file => d = follow.path
         /\ follow.path \in DOMAIN dir /\ dir[follow.path] # follow.file =>
                /\ Unread(dir[follow.path], 0)
                /\ Precedes(follow.file, dir[follow.path])
                /\ writer.file # follow.file

\* What was forwarded ascends.
Forwards ==
    /\ \A i \in 1 .. Len(forwarded) : forwarded[i] <= accepted
    /\ \A i, j \in 1 .. Len(forwarded) : i < j => forwarded[i] < forwarded[j]

\* After Kill nothing newer was forwarded.
Silenced ==
    /\ killedAt \in Nat
    /\ killedAt # Never => stopped /\ \A i \in 1 .. Len(forwarded) : forwarded[i] <= killedAt

\* The inductive invariant of the journal and its follower.
JournalInv == JournalType /\ Ordered /\ NamesDiffer /\ FollowsOn /\ Forwards /\ Silenced

-----------------------------------------------------------------------------
\* Write appends the next record to one inode, the new one or one that the writer has
\* open or finds under the name of the day, and gives no other inode a name.
Appended(file, old) ==
    /\ file \in 1 .. Len(inodes) + 1
    /\ old \in Seq(Nat)
    /\ file <= Len(inodes) => old = inodes[file]
    /\ file = Len(inodes) + 1 => old = <<>>
    /\ inodes' \in Seq(Seq(Nat))
    /\ Len(inodes') = IF file = Len(inodes) + 1 THEN file ELSE Len(inodes)
    /\ inodes'[file] = Append(old, accepted + 1)
    /\ \A i \in 1 .. Len(inodes) : i # file => inodes'[i] = inodes[i]
    /\ writer' = [today |-> day, file |-> file]
    /\ DOMAIN dir' \subseteq DOMAIN dir \cup {day}
    /\ \A d \in DOMAIN dir' : dir'[d] = IF d \in DOMAIN dir THEN dir[d] ELSE file
    /\ dir' = [d \in DOMAIN dir' |-> dir'[d]]
    /\ file <= Len(inodes) =>
         /\ file = writer.file \/ (day \in DOMAIN dir /\ file = dir[day])
         /\ DOMAIN dir' \subseteq DOMAIN dir

\* The file that EnsureFile gives Write is the one that grows.
LEMMA WriteAppends ==
    ASSUME JournalType, Write
    PROVE  \E old : Appended(EnsureFile, old)
  <1> DEFINE n == Len(inodes)
             file == EnsureFile
             old == IF file \in DOMAIN inodes THEN inodes[file] ELSE <<>>
             open == writer.today = day /\ writer.file # 0
             gone == EnforceCap([d \in DOMAIN Named |-> inodes'[Named[d]]])
             m == IF file = n + 1 THEN file ELSE n
  <1>1. /\ n \in Nat /\ accepted + 1 \in Nat /\ writer.file \in 0 .. n
        /\ \A d \in DOMAIN dir : dir[d] \in 1 .. n
    BY JournalAssumption DEF JournalType
  <1>2. DOMAIN inodes = 1 .. n /\ \A i \in 1 .. n : inodes[i] \in Seq(Nat)
    BY DEF JournalType
  <1>3. /\ dir' = [d \in DOMAIN Named \ gone |-> Named[d]]
        /\ writer' = [today |-> day, file |-> file]
        /\ inodes' = [i \in DOMAIN inodes \cup {file} |->
                        IF i = file
                        THEN Append(IF i \in DOMAIN inodes THEN inodes[i] ELSE <<>>, accepted + 1)
                        ELSE inodes[i]]
    BY Zenon DEF Write
  <1>4. /\ open => file = writer.file /\ Named = dir
        /\ ~open /\ day \in DOMAIN dir => file = dir[day]
        /\ ~open /\ day \notin DOMAIN dir => file = n + 1
        /\ ~open => Named = [d \in DOMAIN dir \cup {day} |-> IF d = day THEN file ELSE dir[d]]
    BY Zenon DEF EnsureFile, Named
  <1> HIDE DEF gone, file, n
  <1>5. file \in 1 .. n + 1
    BY <1>1, <1>4
  <1>6. old \in Seq(Nat) /\ (file <= n => old = inodes[file]) /\ (file = n + 1 => old = <<>>)
    BY <1>1, <1>2, <1>5
  <1>7. inodes' = [i \in DOMAIN inodes \cup {file} |->
                     IF i = file THEN Append(old, accepted + 1) ELSE inodes[i]]
    BY Zenon, <1>3
  <1> HIDE DEF old
  <1>8. Append(old, accepted + 1) \in Seq(Nat)
    BY <1>1, <1>6
  <1>9. m \in Nat /\ DOMAIN inodes \cup {file} = 1 .. m
    BY <1>1, <1>2, <1>5
  <1>10. /\ inodes' \in [1 .. m -> Seq(Nat)]
         /\ inodes'[file] = Append(old, accepted + 1)
         /\ \A i \in 1 .. n : i # file => inodes'[i] = inodes[i]
    BY Zenon, <1>2, <1>7, <1>8, <1>9
  <1> HIDE DEF m
  <1>11. inodes' \in Seq(Seq(Nat)) /\ Len(inodes') = m
    BY <1>9, <1>10
  <1>12. /\ DOMAIN dir' \subseteq DOMAIN dir \cup {day}
         /\ dir' = [d \in DOMAIN dir' |-> dir'[d]]
         /\ \A d \in DOMAIN dir' : dir'[d] = IF d \in DOMAIN dir THEN dir[d] ELSE file
    BY Zenon, <1>3, <1>4
  <1>13. file <= n => /\ file = writer.file \/ (day \in DOMAIN dir /\ file = dir[day])
                      /\ DOMAIN dir' \subseteq DOMAIN dir
    <2>1. file <= n => file # n + 1
      BY <1>1, <1>5
    <2> QED
      BY Zenon, <1>3, <1>4, <2>1
  <1>14. Appended(file, old)
    BY Zenon, <1>3, <1>5, <1>6, <1>10, <1>11, <1>12, <1>13 DEF Appended, m, n
  <1> QED
    BY Zenon, <1>14 DEF file

\* What a written record does to what the follower has still to read: it is later
\* than all that was forwarded.
LEMMA WriteStep == JournalInv /\ Write => JournalInv'
  <1> SUFFICES ASSUME JournalInv, Write
               PROVE  JournalInv'
    OBVIOUS
  <1>0. JournalType /\ Ordered /\ NamesDiffer /\ FollowsOn /\ Forwards /\ Silenced
    BY DEF JournalInv
  <1> DEFINE file == EnsureFile
  <1> PICK old : Appended(file, old)
    BY Zenon, <1>0, WriteAppends
  <1> HIDE DEF file
  <1> DEFINE n == Len(inodes)
             m == Len(inodes')
             l == Len(old)
             r == accepted + 1
  <1>1. /\ n \in Nat /\ m \in Nat /\ n <= m /\ l \in Nat /\ file \in 1 .. m
        /\ m = IF file = n + 1 THEN file ELSE n
    <2>0. inodes \in Seq(Seq(Nat)) /\ old \in Seq(Nat)
      BY <1>0 DEF Appended, JournalType
    <2>1. n \in Nat /\ l \in Nat
      BY <2>0
    <2>2. file \in 1 .. n + 1 /\ m = IF file = n + 1 THEN file ELSE n
      BY Zenon DEF Appended
    <2> HIDE DEF n, m, l
    <2> QED
      BY <2>1, <2>2
  <1>2. /\ accepted' = r /\ r <= MaxRecords /\ r \in Nat
        /\ UNCHANGED <<day, follow, forwarded, killFile, stopped, cancelled, killedAt>>
    <2>1. /\ accepted' = r /\ accepted < MaxRecords
          /\ UNCHANGED <<day, follow, forwarded, killFile, stopped, cancelled, killedAt>>
      BY Zenon DEF Write, forwardVars
    <2>2. r <= MaxRecords /\ r \in Nat
      BY <1>0, <2>1, JournalAssumption DEF JournalType
    <2> QED
      BY Zenon, <2>1, <2>2
  <1>3. /\ Len(inodes'[file]) = l + 1 /\ inodes'[file][l + 1] = r
        /\ \A k \in 1 .. l : inodes'[file][k] = old[k]
    BY <1>2 DEF Appended
  <1>4. \A i \in 1 .. m : i = file \/ (i \in 1 .. n /\ inodes'[i] = inodes[i])
    BY <1>1 DEF Appended
  <1>5. \A k \in 1 .. l : file \in 1 .. n /\ k \in 1 .. Len(inodes[file]) /\ old[k] = inodes[file][k]
    <2> SUFFICES ASSUME NEW k \in 1 .. l
                 PROVE  file \in 1 .. n /\ old = inodes[file]
      BY Zenon
    <2>1. old # <<>>
      OBVIOUS
    <2>2. file # n + 1
      BY Zenon, <2>1 DEF Appended
    <2>3. file \in 1 .. n /\ file <= n
      BY <1>1, <2>2
    <2> QED
      BY Zenon, <2>3 DEF Appended
  <1>6. \A d \in DOMAIN dir' : \/ d \in DOMAIN dir /\ dir'[d] = dir[d]
                               \/ d \notin DOMAIN dir /\ d = day /\ dir'[d] = file /\ file = n + 1
    BY <1>1 DEF Appended
  <1>7. JournalType'
    <2>1. /\ day \in 1 .. MaxDay /\ day \in Nat
          /\ DOMAIN dir \subseteq 1 .. MaxDay /\ \A d \in DOMAIN dir : dir[d] \in 1 .. n
          /\ forwarded \in Seq(Nat)
          /\ follow \in [at : {"list", "stat", "open", "read", "returned"}, path : Nat,
                         offset : Nat, file : 0 .. n]
      BY <1>0, JournalAssumption DEF JournalType
    <2>2. DOMAIN dir' \subseteq 1 .. MaxDay /\ \A d \in DOMAIN dir' : dir'[d] \in 1 .. m
      BY <1>1, <1>6, <2>1
    <2>3. dir' = [d \in DOMAIN dir' |-> dir'[d]]
      BY DEF Appended
    <2>4. dir' \in [DOMAIN dir' -> 1 .. m]
      BY Zenon, <2>2, <2>3
    <2>5. writer' \in [today : Nat, file : 0 .. m]
      BY <1>1, <2>1 DEF Appended
    <2>6. follow' \in [at : {"list", "stat", "open", "read", "returned"}, path : Nat,
                       offset : Nat, file : 0 .. m]
      BY <1>1, <1>2, <2>1
    <2>7. inodes' \in Seq(Seq(Nat))
      BY DEF Appended
    <2> QED
      BY <1>2, <2>1, <2>2, <2>4, <2>5, <2>6, <2>7 DEF JournalType
  <1>t. /\ \A i \in 1 .. n : Len(inodes[i]) \in Nat /\ \A k \in 1 .. Len(inodes[i]) : inodes[i][k] \in Nat
        /\ \A i \in 1 .. Len(forwarded) : forwarded[i] \in Nat
        /\ accepted \in Nat
    <2>1. \A i \in 1 .. n : inodes[i] \in Seq(Nat)
      BY <1>0 DEF JournalType
    <2>2. forwarded \in Seq(Nat) /\ accepted \in Nat
      BY <1>0 DEF JournalType
    <2> QED
      BY <2>1, <2>2
  <1>8. \A i \in 1 .. n : \A k \in 1 .. Len(inodes[i]) : inodes[i][k] < r
    <2> SUFFICES ASSUME NEW i \in 1 .. n, NEW k \in 1 .. Len(inodes[i])
                 PROVE  inodes[i][k] < r
      OBVIOUS
    <2>1. inodes[i][k] <= accepted /\ inodes[i][k] \in Nat
      BY Zenon, <1>0, <1>t DEF Ordered
    <2> QED
      BY <1>t, <2>1
  <1>9. \A k \in 1 .. l : old[k] < r
    BY Zenon, <1>5, <1>8
  <1>10. Ordered'
    <2> SUFFICES ASSUME NEW i \in 1 .. m, NEW a \in 1 .. Len(inodes'[i])
                 PROVE  /\ inodes'[i][a] <= r
                        /\ \A b \in 1 .. Len(inodes'[i]) : a < b => inodes'[i][a] < inodes'[i][b]
      BY Zenon, <1>2 DEF Ordered
    <2>1. CASE i = file
      <3>1. a \in 1 .. l + 1
        BY Zenon, <1>3, <2>1
      <3>2. \A x \in 1 .. l, y \in 1 .. l : x < y => old[x] < old[y]
        BY Zenon, <1>0, <1>5 DEF Ordered
      <3>3. \A x \in 1 .. l : old[x] \in Nat
        BY Zenon, <1>5, <1>t
      <3>4. \A x \in 1 .. l + 1 : x \in 1 .. l \/ x = l + 1
        BY <1>1
      <3>5. inodes'[file][a] <= r
        BY SMTT(30), <1>2, <1>3, <1>9, <3>1, <3>3, <3>4
      <3>6. ASSUME NEW b \in 1 .. l + 1, a < b
            PROVE  inodes'[file][a] < inodes'[file][b]
        <4>1. a \in 1 .. l
          BY <1>1, <3>1, <3>6
        <4>2. CASE b = l + 1
          BY Zenon, <1>3, <1>9, <4>1, <4>2
        <4>3. CASE b \in 1 .. l
          BY Zenon, <1>3, <3>2, <3>6, <4>1, <4>3
        <4> QED
          BY Zenon, <3>4, <4>2, <4>3
      <3> QED
        BY <1>3, <2>1, <3>5, <3>6
    <2>2. CASE i # file
      <3>1. i \in 1 .. n /\ inodes'[i] = inodes[i]
        BY Zenon, <1>4, <2>2
      <3>2. inodes[i][a] <= accepted /\ inodes[i][a] \in Nat
        BY Zenon, <1>0, <1>t, <3>1 DEF Ordered
      <3> QED
        BY <1>0, <1>t, <3>1, <3>2 DEF Ordered
    <2> QED
      BY Zenon, <2>1, <2>2
  <1>11. NamesDiffer'
    <2>1. \A d \in DOMAIN dir : dir[d] \in 1 .. n
      BY Zenon, <1>0 DEF JournalType
    <2> QED
      BY <1>0, <1>1, <1>6, <2>1 DEF NamesDiffer
  <1>12. Forwards' /\ \A i \in 1 .. Len(forwarded) : forwarded[i] < r
    BY <1>0, <1>2, <1>t DEF Forwards
  <1>13. ASSUME NEW i \in 1 .. n, NEW o \in Nat, Unread(i, o)
         PROVE  /\ i \in 1 .. m
                /\ \A k \in 1 .. Len(inodes'[i]) :
                     k > o => \A j \in 1 .. Len(forwarded) : forwarded[j] < inodes'[i][k]
    <2>1. CASE i = file
      <3>1. \A k \in 1 .. l + 1 : k \in 1 .. l \/ k = l + 1
        BY <1>1
      <3> SUFFICES ASSUME NEW k \in 1 .. l + 1, k > o
                   PROVE  \A j \in 1 .. Len(forwarded) : forwarded[j] < inodes'[file][k]
        BY Zenon, <1>1, <1>3, <2>1
      <3>2. CASE k \in 1 .. l
        <4>1. k \in 1 .. Len(inodes[file]) /\ inodes'[file][k] = inodes[file][k]
          BY Zenon, <1>3, <1>5, <3>2
        <4> QED
          BY Zenon, <1>13, <2>1, <4>1 DEF Unread
      <3>3. CASE k = l + 1
        BY Zenon, <1>3, <1>12, <3>3
      <3> QED
        BY Zenon, <3>1, <3>2, <3>3
    <2>2. CASE i # file
      <3>1. inodes'[i] = inodes[i]
        BY Zenon, <2>2 DEF Appended
      <3>2. i \in 1 .. m
        BY <1>1
      <3> QED
        BY Zenon, <1>13, <3>1, <3>2 DEF Unread
    <2> QED
      BY Zenon, <2>1, <2>2
  <1>14. ASSUME file = n + 1
         PROVE  \A k \in 1 .. Len(inodes'[file]) : inodes'[file][k] = r
    <2>1. l = 0
      BY <1>14 DEF Appended
    <2> QED
      BY <1>3, <2>1
  <1>15. FollowsOn'
    <2>p. /\ follow.path \in Nat /\ follow.offset \in Nat /\ follow.file \in 0 .. n
          /\ \A d \in DOMAIN dir : dir[d] \in 1 .. n
          /\ writer'.file = file
      BY Zenon, <1>0 DEF JournalType, Appended
    <2>1. ASSUME follow.at \in {"list", "open"}, follow.path \in DOMAIN dir'
          PROVE  Unread(dir[follow.path], follow.offset)'
      <3>1. CASE follow.path \in DOMAIN dir
        <4>1. dir'[follow.path] = dir[follow.path] /\ dir[follow.path] \in 1 .. n
          BY Zenon, <1>6, <2>1, <2>p, <3>1
        <4>2. Unread(dir[follow.path], follow.offset)
          BY Zenon, <1>0, <2>1, <3>1 DEF FollowsOn
        <4> QED
          BY Zenon, <1>2, <1>13, <2>p, <4>1, <4>2 DEF Unread
      <3>2. CASE follow.path \notin DOMAIN dir
        <4>1. dir'[follow.path] = file /\ file = n + 1
          BY Zenon, <1>6, <2>1, <3>2
        <4> QED
          BY Zenon, <1>2, <1>12, <1>14, <4>1 DEF Unread
      <3> QED
        BY Zenon, <3>1, <3>2
    <2>2. ASSUME follow.at = "read"
          PROVE  /\ follow.file # 0
                 /\ Unread(follow.file, follow.offset)'
                 /\ \A d \in DOMAIN dir' : dir'[d] = follow.file => d = follow.path
      <3>1. follow.file \in 1 .. n /\ Unread(follow.file, follow.offset)
        BY <1>0, <2>2, <2>p DEF FollowsOn
      <3>2. Unread(follow.file, follow.offset)'
        BY Zenon, <1>2, <1>13, <2>p, <3>1 DEF Unread
      <3> QED
        BY <1>0, <1>1, <1>6, <2>2, <3>1, <3>2 DEF FollowsOn
    <2>3. ASSUME follow.at = "read", follow.path \in DOMAIN dir', dir'[follow.path] # follow.file
          PROVE  /\ Unread(dir[follow.path], 0)'
                 /\ Precedes(follow.file, dir[follow.path])'
                 /\ file # follow.file
      <3>0. follow.file \in 1 .. n
        BY <1>0, <2>3, <2>p DEF FollowsOn
      <3>1. CASE follow.path \in DOMAIN dir
        <4> DEFINE q == dir[follow.path]
        <4>1. dir'[follow.path] = q /\ q \in 1 .. n /\ q # follow.file
          BY <1>6, <2>3, <2>p, <3>1
        <4>2. Unread(q, 0) /\ Precedes(follow.file, q) /\ writer.file # follow.file
          BY SMTT(30), <1>0, <2>3, <3>1, <4>1 DEF FollowsOn
        <4>3. file # follow.file
          <5>1. day \in DOMAIN dir /\ dir[day] = follow.file => FALSE
            BY Zenon, <1>0, <2>3, <4>1 DEF FollowsOn
          <5> QED
            BY <1>1, <3>0, <4>2, <5>1 DEF Appended
        <4> HIDE DEF q
        <4>4. inodes'[follow.file] = inodes[follow.file]
          BY SMTT(30), <3>0, <4>3 DEF Appended
        <4>5. ASSUME NEW a \in 1 .. Len(inodes[follow.file]), NEW b \in 1 .. Len(inodes'[q])
              PROVE  inodes[follow.file][a] < inodes'[q][b]
          <5>1. CASE q = file
            <6>1. b \in 1 .. l \/ b = l + 1
              BY <1>1, <1>3, <5>1
            <6>2. inodes[follow.file][a] < r
              BY Zenon, <1>8, <3>0
            <6> QED
              BY Zenon, <1>3, <1>5, <4>2, <5>1, <6>1, <6>2 DEF Precedes
          <5>2. CASE q # file
            BY Zenon, <4>1, <4>2, <5>2 DEF Precedes, Appended
          <5> QED
            BY Zenon, <5>1, <5>2
        <4>6. Unread(dir[follow.path], 0)'
          BY Zenon, <1>2, <1>13, <4>1, <4>2 DEF Unread
        <4>7. Precedes(follow.file, dir[follow.path])'
          BY SMTT(30), <1>2, <4>1, <4>4, <4>5 DEF Precedes
        <4> QED
          BY Zenon, <4>3, <4>6, <4>7
      <3>2. CASE follow.path \notin DOMAIN dir
        <4>1. dir'[follow.path] = file /\ file = n + 1
          BY Zenon, <1>6, <2>3, <3>2
        <4>2. file # follow.file
          BY <1>1, <3>0, <4>1
        <4>3. Unread(dir[follow.path], 0)'
          BY SMTT(30), <1>2, <1>12, <1>14, <4>1 DEF Unread
        <4>4. inodes'[follow.file] = inodes[follow.file]
          BY <3>0, <4>2 DEF Appended
        <4>5. Precedes(follow.file, dir[follow.path])'
          BY SMTT(30), <1>2, <1>8, <1>14, <3>0, <4>1, <4>4 DEF Precedes
        <4> QED
          BY <4>2, <4>3, <4>5
      <3> QED
        BY Zenon, <3>1, <3>2
    <2> QED
      BY SMTT(30), <1>2, <2>p, <2>1, <2>2, <2>3 DEF FollowsOn
  <1>16. Silenced'
    BY Zenon, <1>0, <1>2 DEF Silenced, Never
  <1> QED
    BY Zenon, <1>7, <1>10, <1>11, <1>12, <1>15, <1>16 DEF JournalInv

\* The steps of the follower: what it forwards is the first record it has not read.
LEMMA FollowStepKeeps == JournalInv /\ FollowStep => JournalInv'
  <1> SUFFICES ASSUME JournalInv, FollowStep
               PROVE  JournalInv'
    OBVIOUS
  <1>0. JournalType /\ Ordered /\ NamesDiffer /\ FollowsOn /\ Forwards /\ Silenced
    BY DEF JournalInv
  <1> DEFINE Stages == {"list", "stat", "open", "read", "returned"}
             Follows == [at : Stages, path : Nat, offset : Nat, file : 0 .. Len(inodes)]
  <1>t. /\ follow \in Follows /\ DOMAIN dir \subseteq 1 .. MaxDay
        /\ \A d \in DOMAIN dir : dir[d] \in 1 .. Len(inodes)
        /\ Len(inodes) \in Nat /\ \A i \in 1 .. Len(inodes) : inodes[i] \in Seq(Nat)
        /\ forwarded \in Seq(Nat)
    BY <1>0 DEF JournalType
  <1>w. UNCHANGED <<day, dir, inodes, writer, accepted, killedAt>>
    BY DEF FollowStep, FollowList, FollowStat, FollowOpen, FollowLine, FollowEnd,
       FollowReturns, writerVars
  <1>1. ASSUME UNCHANGED <<forwarded, stopped>>, follow' \in Follows, FollowsOn'
        PROVE  JournalInv'
    BY Zenon, <1>0, <1>1, <1>w
       DEF JournalInv, JournalType, Ordered, NamesDiffer, Forwards, Silenced
  <1>2. CASE FollowList
    <2> DEFINE latest == Max(DOMAIN dir)
    <2>1. /\ UNCHANGED <<forwarded, stopped>> /\ follow.at = "list" /\ DOMAIN dir # {}
          /\ follow' = IF latest = follow.path THEN [follow EXCEPT !.at = "open"]
                       ELSE [follow EXCEPT !.at = "stat", !.path = latest]
      BY Zenon, <1>2 DEF FollowList
    <2>2. latest \in Nat
      <3>1. MaxDay \in Nat /\ DOMAIN dir \in SUBSET (1 .. MaxDay)
        BY <1>t, JournalAssumption
      <3>2. latest \in DOMAIN dir
        BY Zenon, <2>1, <3>1, MaxPosition
      <3> QED
        BY <3>1, <3>2
    <2> HIDE DEF latest
    <2>3. follow' \in Follows
      BY Zenon, <1>t, <2>1, <2>2
    <2>4. FollowsOn'
      <3>1. CASE latest = follow.path
        BY <1>0, <1>t, <1>w, <2>1, <3>1 DEF FollowsOn, Unread
      <3>2. CASE latest # follow.path
        BY Zenon, <1>t, <2>1, <3>2 DEF FollowsOn
      <3> QED
        BY Zenon, <3>1, <3>2
    <2> QED
      BY Zenon, <1>1, <2>1, <2>3, <2>4
  <1>3. CASE FollowStat
    <2> DEFINE size == IF follow.path \in DOMAIN dir THEN Size(follow.path) ELSE 0
    <2>1. /\ UNCHANGED <<forwarded, stopped>>
          /\ follow' = [follow EXCEPT !.at = "open", !.offset = size]
      BY Zenon, <1>3 DEF FollowStat
    <2>2. size \in Nat /\ (follow.path \in DOMAIN dir => size = Len(inodes[dir[follow.path]]))
      BY <1>t DEF Size
    <2> HIDE DEF size
    <2>3. follow' \in Follows /\ follow'.at = "open" /\ follow'.offset = size /\ follow'.path = follow.path
      BY Zenon, <1>t, <2>1, <2>2
    <2>4. FollowsOn'
      BY <1>w, <2>2, <2>3 DEF FollowsOn, Unread
    <2> QED
      BY <1>1, <2>1, <2>3, <2>4
  <1>4. CASE FollowOpen
    <2>1. /\ UNCHANGED <<forwarded, stopped>> /\ follow.at = "open"
          /\ follow' = IF follow.path \in DOMAIN dir
                       THEN [follow EXCEPT !.at = "read", !.file = dir[follow.path]]
                       ELSE [follow EXCEPT !.at = "list"]
      BY Zenon, <1>4 DEF FollowOpen
    <2>2. CASE follow.path \in DOMAIN dir
      <3>1. /\ follow' \in Follows /\ follow'.at = "read" /\ follow'.file = dir[follow.path]
            /\ follow'.path = follow.path /\ follow'.offset = follow.offset
        <4>1. follow' = [follow EXCEPT !.at = "read", !.file = dir[follow.path]]
          BY Zenon, <2>1, <2>2
        <4>2. dir[follow.path] \in 0 .. Len(inodes)
          BY <1>t, <2>2
        <4>3. follow' \in Follows
          BY Zenon, <1>t, <4>1, <4>2
        <4> QED
          BY Zenon, <1>t, <4>1, <4>3
      <3>2. Unread(dir[follow.path], follow.offset)
        BY Zenon, <1>0, <2>1, <2>2 DEF FollowsOn
      <3>3. FollowsOn'
        BY <1>0, <1>t, <1>w, <2>1, <2>2, <3>1, <3>2 DEF FollowsOn, Unread, NamesDiffer
      <3> QED
        BY Zenon, <1>1, <2>1, <3>1, <3>3
    <2>3. CASE follow.path \notin DOMAIN dir
      <3>1. follow' \in Follows /\ follow'.at = "list" /\ follow'.path = follow.path
        BY Zenon, <1>t, <2>1, <2>3
      <3>2. FollowsOn'
        BY Zenon, <1>w, <2>3, <3>1 DEF FollowsOn
      <3> QED
        BY Zenon, <1>1, <2>1, <3>1, <3>2
    <2> QED
      BY Zenon, <2>2, <2>3
  <1>5. CASE FollowLine
    <2> DEFINE f == follow.file
               o == follow.offset
               r == inodes[f][o + 1]
    <2>1. /\ follow.at = "read" /\ o < Len(inodes[f])
          /\ follow' = [follow EXCEPT !.offset = @ + 1]
          /\ stopped' = (stopped \/ killFile)
          /\ forwarded' = IF stopped \/ killFile THEN forwarded ELSE Append(forwarded, r)
      BY <1>5 DEF FollowLine, OnRecord
    <2>2. f \in 1 .. Len(inodes) /\ o \in Nat /\ o + 1 \in Nat
      BY <1>0, <1>t, <2>1 DEF FollowsOn
    <2>3. inodes[f] \in Seq(Nat) /\ o + 1 \in 1 .. Len(inodes[f])
      BY <1>t, <2>1, <2>2
    <2>4. r \in Nat /\ r <= accepted
      BY <1>0, <2>2, <2>3 DEF Ordered
    <2>5. /\ follow' \in Follows /\ follow'.at = "read" /\ follow'.path = follow.path
          /\ follow'.file = f /\ follow'.offset = o + 1
      BY Zenon, <1>t, <2>1, <2>2
    <2>6. \A n \in 1 .. Len(forwarded) : forwarded[n] < r
      <3>1. Unread(f, o)
        BY Zenon, <1>0, <2>1 DEF FollowsOn
      <3>2. o + 1 > o
        BY <2>2
      <3> QED
        BY Zenon, <2>3, <3>1, <3>2 DEF Unread
    <2>7. \A k \in 1 .. Len(inodes[f]) : k > o + 1 => r < inodes[f][k]
      BY Zenon, <1>0, <2>2, <2>3 DEF Ordered
    <2>8. ASSUME follow.path \in DOMAIN dir, dir[follow.path] # f
          PROVE  \A k \in 1 .. Len(inodes[dir[follow.path]]) : r < inodes[dir[follow.path]][k]
      BY Zenon, <1>0, <2>1, <2>3, <2>8 DEF FollowsOn, Precedes
    <2> HIDE DEF r
    <2>9. /\ forwarded' \in Seq(Nat)
          /\ \A n \in 1 .. Len(forwarded') :
                 forwarded'[n] = r \/ \E p \in 1 .. Len(forwarded) : forwarded'[n] = forwarded[p]
          /\ Forwards'
      <3>1. CASE stopped \/ killFile
        BY <1>0, <1>t, <1>w, <2>1, <3>1 DEF Forwards
      <3>2. CASE ~(stopped \/ killFile)
        <4>1. forwarded' = Append(forwarded, r)
          BY Zenon, <2>1, <3>2
        <4>2. /\ forwarded' \in Seq(Nat) /\ Len(forwarded') = Len(forwarded) + 1
              /\ Len(forwarded) \in Nat
              /\ \A n \in 1 .. Len(forwarded) : forwarded'[n] = forwarded[n]
              /\ forwarded'[Len(forwarded) + 1] = r
          BY <1>t, <2>4, <4>1
        <4>3. \A n \in 1 .. Len(forwarded) + 1 : n \in 1 .. Len(forwarded) \/ n = Len(forwarded) + 1
          BY <4>2
        <4>4. \A n \in 1 .. Len(forwarded') : forwarded'[n] <= accepted
          BY Zenon, <1>0, <2>4, <4>2, <4>3 DEF Forwards
        <4>5. ASSUME NEW i \in 1 .. Len(forwarded'), NEW j \in 1 .. Len(forwarded'), i < j
              PROVE  forwarded'[i] < forwarded'[j]
          <5>1. i \in 1 .. Len(forwarded)
            BY <4>2, <4>5
          <5> QED
            BY Zenon, <1>0, <2>6, <4>2, <4>3, <4>5, <5>1 DEF Forwards
        <4> QED
          BY <1>w, <4>2, <4>3, <4>4, <4>5 DEF Forwards
      <3> QED
        BY Zenon, <3>1, <3>2
    <2>10. FollowsOn'
      <3>0. ASSUME NEW x, \A n \in 1 .. Len(forwarded) : forwarded[n] < x, r < x
            PROVE  \A n \in 1 .. Len(forwarded') : forwarded'[n] < x
        BY Zenon, <2>9, <3>0
      <3>1. ASSUME NEW k \in 1 .. Len(inodes[f]), k > o + 1
            PROVE  \A n \in 1 .. Len(forwarded') : forwarded'[n] < inodes[f][k]
        <4>1. Unread(f, o)
          BY Zenon, <1>0, <2>1 DEF FollowsOn
        <4>2. k > o
          BY <2>2, <2>3, <3>1
        <4>3. \A n \in 1 .. Len(forwarded) : forwarded[n] < inodes[f][k]
          BY Zenon, <4>1, <4>2 DEF Unread
        <4> QED
          BY <2>7, <3>0, <3>1, <4>3
      <3>2. ASSUME follow.path \in DOMAIN dir, dir[follow.path] # f
            PROVE  \A k \in 1 .. Len(inodes[dir[follow.path]]) : k > 0 =>
                      \A n \in 1 .. Len(forwarded') : forwarded'[n] < inodes[dir[follow.path]][k]
        <4>1. Unread(dir[follow.path], 0)
          BY Zenon, <1>0, <2>1, <3>2 DEF FollowsOn
        <4> QED
          BY <2>8, <3>0, <3>2, <4>1 DEF Unread
      <3>3. Unread(follow.file, follow.offset)'
        BY Zenon, <1>w, <2>5, <3>1 DEF Unread
      <3>4. ASSUME follow.path \in DOMAIN dir, dir[follow.path] # f
            PROVE  /\ Unread(dir[follow.path], 0)'
                   /\ Precedes(follow.file, dir[follow.path])'
                   /\ writer.file # follow.file
        <4>1. Unread(dir[follow.path], 0)'
          BY <1>w, <2>5, <3>2, <3>4 DEF Unread
        <4>2. Precedes(f, dir[follow.path]) /\ writer.file # f
          BY Zenon, <1>0, <2>1, <3>4 DEF FollowsOn
        <4> QED
          BY <1>w, <2>5, <4>1, <4>2 DEF Precedes
      <3>5. f # 0 /\ \A d \in DOMAIN dir : dir[d] = f => d = follow.path
        BY Zenon, <1>0, <2>1 DEF FollowsOn
      <3> QED
        BY <1>w, <2>5, <3>3, <3>4, <3>5 DEF FollowsOn
    <2>11. Silenced'
      <3>1. killedAt # Never => stopped
        BY <1>0 DEF Silenced
      <3>2. killedAt # Never => forwarded' = forwarded /\ stopped'
        BY Zenon, <2>1, <3>1
      <3> QED
        BY Zenon, <1>0, <1>w, <3>2 DEF Silenced
    <2> QED
      BY <1>0, <1>w, <2>5, <2>9, <2>10, <2>11
         DEF JournalInv, JournalType, Ordered, NamesDiffer
  <1>6. CASE FollowEnd
    <2>1. /\ UNCHANGED <<forwarded, stopped>> /\ follow.at = "read"
          /\ follow' = [follow EXCEPT !.at = "list", !.file = 0]
      BY <1>6 DEF FollowEnd
    <2>2. /\ follow' \in Follows /\ follow'.at = "list" /\ follow'.path = follow.path
          /\ follow'.offset = follow.offset
      <3>1. 0 \in 0 .. Len(inodes)
        BY <1>t
      <3>2. follow' \in Follows
        BY Zenon, <1>t, <2>1, <3>1
      <3> QED
        BY Zenon, <1>t, <2>1, <3>2
    <2>3. follow.path \in DOMAIN dir => Unread(dir[follow.path], follow.offset)
      <3>1. Unread(follow.file, follow.offset)
        BY Zenon, <1>0, <2>1 DEF FollowsOn
      <3>2. ASSUME follow.path \in DOMAIN dir, dir[follow.path] # follow.file
            PROVE  Unread(dir[follow.path], follow.offset)
        <4>1. Unread(dir[follow.path], 0)
          BY Zenon, <1>0, <2>1, <3>2 DEF FollowsOn
        <4>2. follow.offset \in Nat
          BY Zenon, <1>t
        <4> QED
          BY <4>1, <4>2 DEF Unread
      <3> QED
        BY Zenon, <3>1, <3>2
    <2>4. FollowsOn'
      BY Zenon, <1>w, <2>1, <2>2, <2>3 DEF FollowsOn, Unread
    <2> QED
      BY Zenon, <1>1, <2>1, <2>2, <2>4
  <1>7. CASE FollowReturns
    <2>1. /\ UNCHANGED <<forwarded, stopped>>
          /\ follow' = [follow EXCEPT !.at = "returned"]
      BY <1>7 DEF FollowReturns
    <2>2. follow' \in Follows /\ follow'.at = "returned"
      BY Zenon, <1>t, <2>1
    <2> QED
      BY Zenon, <1>1, <2>1, <2>2 DEF FollowsOn
  <1> QED
    BY <1>2, <1>3, <1>4, <1>5, <1>6, <1>7 DEF FollowStep

\* Every step keeps what the follower relies on.
LEMMA JournalStep == JournalInv /\ [JournalNext]_journalVars => JournalInv'
  <1> SUFFICES ASSUME JournalInv, [JournalNext]_journalVars
               PROVE  JournalInv'
    OBVIOUS
  <1>0. JournalType /\ Ordered /\ NamesDiffer /\ FollowsOn /\ Forwards /\ Silenced
    BY Zenon DEF JournalInv
  <1>1. CASE WindowEnds \/ DayPasses \/ ClockSetBack \/ CreateKillFile \/ Cancel \/ UNCHANGED journalVars
    <2>1. /\ UNCHANGED <<dir, inodes, writer, accepted, follow, forwarded, stopped, killedAt>>
          /\ day' \in 1 .. MaxDay
      <3>1. /\ UNCHANGED <<dir, inodes, writer, accepted, follow, forwarded, stopped, killedAt>>
            /\ day' = day \/ (day < MaxDay /\ day' = day + 1) \/ (day > 1 /\ day' = day - 1)
        BY Zenon, <1>1
           DEF WindowEnds, DayPasses, ClockSetBack,
           CreateKillFile, Cancel, writerVars, forwardVars, journalVars
      <3>2. day \in 1 .. MaxDay
        BY Zenon, <1>0 DEF JournalType
      <3>3. day' \in 1 .. MaxDay
        BY <3>1, <3>2, JournalAssumption
      <3> QED
        BY Zenon, <3>1, <3>3
    <2> QED
      BY Zenon, <1>0, <2>1
         DEF JournalInv, JournalType, Ordered, NamesDiffer, FollowsOn,
         Forwards, Silenced, Unread, Precedes
  <1>2. CASE CloseWriter
    <2>1. /\ UNCHANGED <<day, dir, inodes, accepted, follow, forwarded, stopped, killedAt>>
          /\ writer' = [writer EXCEPT !.file = 0]
      BY <1>2 DEF CloseWriter, forwardVars
    <2>2. writer' \in [today : Nat, file : 0 .. Len(inodes)] /\ writer'.file = 0
      BY SMTT(30), <1>0, <2>1 DEF JournalType
    <2>3. FollowsOn'
      <3>1. follow.at = "read" => writer'.file # follow.file
        BY Zenon, <1>0, <2>2 DEF FollowsOn
      <3> QED
        BY Zenon, <1>0, <2>1, <3>1 DEF FollowsOn, Unread, Precedes
    <2> QED
      BY Zenon, <1>0, <2>1, <2>2, <2>3
         DEF JournalInv, JournalType, Ordered, NamesDiffer,
         Forwards, Silenced
  <1>3. CASE Kill
    <2>1. /\ UNCHANGED <<day, dir, inodes, writer, accepted, follow, forwarded>>
          /\ stopped' /\ killedAt' = accepted
      BY Zenon, <1>3 DEF Kill, writerVars
    <2>2. Silenced'
      BY Zenon, <1>0, <2>1 DEF Silenced, Forwards, JournalType
    <2> QED
      BY <1>0, <2>1, <2>2
         DEF JournalInv, JournalType, Ordered, NamesDiffer, FollowsOn,
         Forwards, Unread, Precedes
  <1> QED
    BY Zenon, <1>1, <1>2, <1>3, WriteStep, FollowStepKeeps DEF JournalNext

\* What the follower relies on is all that its two promises need.
LEMMA JournalPromises == JournalInv => ForwardedOnce /\ SilentAfterKill
  <1> SUFFICES ASSUME JournalInv
               PROVE  ForwardedOnce /\ SilentAfterKill
    OBVIOUS
  <1>0. /\ forwarded \in Seq(Nat) /\ accepted \in Nat /\ accepted <= MaxRecords
        /\ Forwards /\ Silenced
    BY DEF JournalInv, JournalType
  <1>1. ForwardedOnce
    BY <1>0 DEF Forwards, ForwardedOnce
  <1>2. \A i \in DOMAIN forwarded : i \in 1 .. Len(forwarded) /\ forwarded[i] \in Nat
    BY <1>0
  <1>3. SilentAfterKill
    BY <1>0, <1>2, JournalAssumption DEF Forwards, Silenced, SilentAfterKill, Never
  <1> QED
    BY Zenon, <1>1, <1>3

-----------------------------------------------------------------------------
\* As long as the clock is not set back, the file of today is the last one, the one
\* being written has that name unless no file is left, and a query ends with the
\* record written last.
Queried ==
    ~stepped =>
        /\ writer.today <= day /\ \A d \in DOMAIN dir : d <= day
        /\ writer.today = day /\ writer.file # 0 /\ DOMAIN dir # {} =>
               day \in DOMAIN dir /\ dir[day] = writer.file
        /\ \A i \in 1 .. Len(Query) - 1 : Query[i + 1] = Query[i] + 1
        /\ DOMAIN dir # {} => Query # <<>> /\ Query[Len(Query)] = accepted

\* The cap takes the files up to some day.
LEMMA CapTakesFirst ==
    ASSUME NEW f, NEW S, FilesOf(f, S), DOMAIN f \subseteq 1 .. MaxDay
    PROVE  \E c \in 0 .. MaxDay : \A d \in DOMAIN f : d \in EnforceCap(f) <=> d <= c
  <1> DEFINE size(d) == Len(Joined(f, d))
             Kept == DOMAIN f \ EnforceCap(f)
  <1>a. MaxDay \in Nat /\ MaxSize \in Nat
    BY JournalAssumption
  <1>1. ASSUME NEW d \in DOMAIN f, NEW e \in DOMAIN f, e <= d, d \in EnforceCap(f)
        PROVE  e \in EnforceCap(f)
    <2>1. d - 1 \in Nat /\ e - 1 \in Nat /\ e - 1 <= d - 1
      BY <1>1
    <2>2. size(e - 1) <= size(d - 1)
      BY <2>1, JoinedGrows
    <2>3. size(e - 1) \in Nat /\ size(d - 1) \in Nat /\ size(MaxDay) \in Nat
      <3>1. \A k \in Nat : Joined(f, k) \in Seq(S)
        BY JoinedType
      <3>2. \A q \in Seq(S) : Len(q) \in Nat
        OBVIOUS
      <3> QED
        BY Zenon, <1>a, <2>1, <3>1, <3>2
    <2>4. size(MaxDay) - size(d - 1) > MaxSize
      BY Zenon, <1>1 DEF EnforceCap
    <2> HIDE DEF size
    <2>5. size(MaxDay) - size(e - 1) > MaxSize
      BY <1>a, <2>2, <2>3, <2>4
    <2> QED
      BY Zenon, <2>5 DEF EnforceCap, size
  <1>2. CASE Kept = {}
    <2>1. MaxDay \in 0 .. MaxDay /\ \A d \in DOMAIN f : d <= MaxDay
      BY <1>a
    <2> QED
      BY Zenon, <1>2, <2>1
  <1>3. CASE Kept # {}
    <2>1. Kept \in SUBSET Nat
      BY DEF FilesOf
    <2>2. PICK x \in Kept : \A y \in Kept : ~(y < x)
      BY Zenon, <1>3, <2>1, LeastNumber
    <2>3. x \in 1 .. MaxDay
      BY <2>2
    <2>4. x - 1 \in 0 .. MaxDay /\ \A d \in DOMAIN f : d <= x - 1 <=> d < x
      BY <1>a, <2>3
    <2>5. ASSUME NEW d \in DOMAIN f
          PROVE  d \in EnforceCap(f) <=> d < x
      <3>1. CASE d < x
        BY Zenon, <2>2, <3>1
      <3>2. CASE ~(d < x)
        <4>1. x <= d
          BY <2>3, <3>2
        <4> QED
          BY Zenon, <1>1, <2>2, <3>2, <4>1
      <3> QED
        BY Zenon, <3>1, <3>2
    <2> QED
      BY Zenon, <2>4, <2>5
  <1> QED
    BY Zenon, <1>2, <1>3

\* A record with the next number, behind records without a gap.
LEMMA NextInLine ==
    ASSUME NEW q \in Seq(Nat), NEW r \in Nat,
           \A i \in 1 .. Len(q) - 1 : q[i + 1] = q[i] + 1,
           q # <<>> => q[Len(q)] = r
    PROVE  \A i \in 1 .. Len(Append(q, r + 1)) - 1 :
               Append(q, r + 1)[i + 1] = Append(q, r + 1)[i] + 1
  <1> DEFINE p == Append(q, r + 1)
             n == Len(q)
  <1>1. /\ n \in Nat /\ Len(p) = n + 1 /\ \A i \in 1 .. n : p[i] = q[i]
        /\ p[n + 1] = r + 1 /\ (n # 0 => q # <<>>)
    OBVIOUS
  <1>0. Len(p) - 1 = n
    BY <1>1
  <1> SUFFICES ASSUME NEW i \in 1 .. n
               PROVE  p[i + 1] = p[i] + 1
    BY Zenon, <1>0
  <1> HIDE DEF p, n
  <1>2. CASE i = n
    BY <1>1, <1>2 DEF n
  <1>3. CASE i # n
    <2>1. i \in 1 .. n - 1 /\ i + 1 \in 1 .. n
      BY <1>1, <1>3
    <2> QED
      <3>1. p[i] = q[i] /\ p[i + 1] = q[i + 1]
        BY Zenon, <1>1, <2>1
      <3>2. q[i + 1] = q[i] + 1
        BY Zenon, <2>1 DEF n
      <3> QED
        BY Zenon, <3>1, <3>2
  <1> QED
    BY <1>2, <1>3

\* An end of what has no gap has none.
LEMMA EndHasNoGap ==
    ASSUME NEW a \in Seq(Nat), NEW b \in Seq(Nat),
           \A i \in 1 .. Len(a \o b) - 1 : (a \o b)[i + 1] = (a \o b)[i] + 1
    PROVE  \A i \in 1 .. Len(b) - 1 : b[i + 1] = b[i] + 1
  <1> DEFINE p == a \o b
             n == Len(a)
  <1>1. /\ n \in Nat /\ Len(b) \in Nat /\ Len(p) = n + Len(b)
        /\ \A i \in 1 .. Len(b) : p[n + i] = b[i]
    OBVIOUS
  <1> SUFFICES ASSUME NEW i \in 1 .. Len(b) - 1
               PROVE  b[i + 1] = b[i] + 1
    OBVIOUS
  <1> HIDE DEF n
  <1>2. /\ n + i \in 1 .. Len(p) - 1 /\ i \in 1 .. Len(b) /\ i + 1 \in 1 .. Len(b)
        /\ (n + i) + 1 = n + (i + 1)
    BY <1>1
  <1>3. p[(n + i) + 1] = p[n + i] + 1
    BY Zenon, <1>2
  <1> HIDE DEF p
  <1> QED
    BY <1>1, <1>2, <1>3

\* Write adds the record to the end of what a query returns, unless the file being
\* written was removed with all others, and the cap takes away from its beginning.
LEMMA WriteQuery ==
    ASSUME JournalInv, Queried, Write
    PROVE  Queried'
  <1> DEFINE file == EnsureFile
             open == writer.today = day /\ writer.file # 0
             all == [d \in DOMAIN Named |-> inodes'[Named[d]]]
             gone == EnforceCap(all)
             r == accepted + 1
  <1>1. /\ dir' = [d \in DOMAIN Named \ gone |-> Named[d]]
        /\ writer' = [today |-> day, file |-> file] /\ accepted' = r
        /\ UNCHANGED <<day, stepped>>
    BY Zenon DEF Write
  <1> SUFFICES ASSUME ~stepped
               PROVE  Queried'
    BY Zenon, <1>1 DEF Queried
  <1>2. JournalType /\ NamesDiffer
    BY DEF JournalInv
  <1>3. PICK old : Appended(file, old)
    BY Zenon, <1>2, WriteAppends
  <1>4. /\ day \in 1 .. MaxDay /\ DOMAIN dir \subseteq 1 .. MaxDay /\ MaxDay \in Nat
        /\ accepted \in Nat /\ r \in Nat
        /\ \A d \in DOMAIN dir : dir[d] \in 1 .. Len(inodes)
    <2>1. /\ day \in 1 .. MaxDay /\ DOMAIN dir \subseteq 1 .. MaxDay /\ accepted \in Nat
          /\ \A d \in DOMAIN dir : dir[d] \in 1 .. Len(inodes)
      BY Zenon, <1>2 DEF JournalType
    <2>2. MaxDay \in Nat
      BY JournalAssumption
    <2>3. r \in Nat
      BY <2>1
    <2> QED
      BY Zenon, <2>1, <2>2, <2>3
  <1>5. \A i \in 1 .. Len(inodes) : inodes[i] \in Seq(Nat) /\ inodes'[i] \in Seq(Nat)
    <2>1. inodes \in Seq(Seq(Nat)) /\ inodes' \in Seq(Seq(Nat))
      BY Zenon, <1>2, <1>3 DEF Appended, JournalType
    <2>2. file \in 1 .. Len(inodes) + 1 /\ Len(inodes') = IF file = Len(inodes) + 1 THEN file ELSE Len(inodes)
      BY Zenon, <1>3 DEF Appended
    <2> HIDE DEF file
    <2>3. \A i \in 1 .. Len(inodes) : i \in 1 .. Len(inodes')
      BY <2>1, <2>2
    <2> QED
      BY <2>1, <2>3
  <1>6. \A d \in DOMAIN dir : d <= day
    BY DEF Queried
  <1>7. FilesOf(DayFiles, Nat) /\ DOMAIN DayFiles = DOMAIN dir
    BY <1>4, <1>5 DEF FilesOf, DayFiles
  <1>8. Query \in Seq(Nat)
    BY <1>4, <1>7, JoinedType DEF Query
  <1>9. CASE open /\ DOMAIN dir = {}
    <2>0. Named = dir
      BY Zenon, <1>9 DEF Named
    <2>1. DOMAIN dir' = {}
      BY Zenon, <1>1, <1>9, <2>0
    <2>2. DOMAIN DayFiles' = {} /\ FilesOf(DayFiles', Nat)
      BY <2>1 DEF DayFiles, FilesOf
    <2>3. Joined(DayFiles', MaxDay) = Joined(DayFiles', 0)
      BY <1>4, <2>2, JoinedStops
    <2>4. Query' = <<>>
      BY Zenon, <2>3, JoinedNone DEF Query
    <2>5. Len(Query') = 0
      BY <2>4
    <2> QED
      BY <1>1, <1>4, <2>1, <2>5 DEF Queried
  <1>10. CASE ~(open /\ DOMAIN dir = {})
    <2>1. /\ DOMAIN Named = DOMAIN dir \cup {day} /\ Named[day] = file
          /\ \A d \in DOMAIN dir : d # day => Named[d] = dir[d]
          /\ day \in DOMAIN dir => dir[day] = file
          /\ day \notin DOMAIN dir => file = Len(inodes) + 1
      <3>1. CASE open
        <4>1. Named = dir /\ file = writer.file
          BY Zenon, <3>1 DEF Named, EnsureFile
        <4>2. day \in DOMAIN dir /\ dir[day] = writer.file
          BY Zenon, <1>10, <3>1 DEF Queried
        <4> QED
          BY Zenon, <4>1, <4>2
      <3>2. CASE ~open
        BY Zenon, <3>2 DEF Named, EnsureFile
      <3> QED
        BY Zenon, <3>1, <3>2
    <2> HIDE DEF file, gone, r
    <2>2. ASSUME NEW d \in DOMAIN dir, d # day
          PROVE  all[d] = DayFiles[d]
      <3>1. dir[d] # file
        <4>1. CASE day \in DOMAIN dir
          BY Zenon, <1>2, <2>1, <2>2, <4>1 DEF NamesDiffer
        <4>2. CASE day \notin DOMAIN dir
          BY <1>4, <2>1, <2>2, <4>2
        <4> QED
          BY Zenon, <4>1, <4>2
      <3>2. inodes'[dir[d]] = inodes[dir[d]]
        BY Zenon, <1>3, <1>4, <3>1 DEF Appended
      <3>3. all[d] = inodes'[dir[d]]
        BY Zenon, <2>1, <2>2
      <3> QED
        BY Zenon, <3>2, <3>3 DEF DayFiles
    <2>3. all[day] = Append(old, r)
      BY Zenon, <1>3, <2>1 DEF Appended, r
    <2>4. old \in Seq(Nat) /\ (day \in DOMAIN dir => old = DayFiles[day]) /\ (day \notin DOMAIN dir => old = <<>>)
      <3>1. file <= Len(inodes) => old = inodes[file]
        BY Zenon, <1>3 DEF Appended
      <3>2. file = Len(inodes) + 1 => old = <<>>
        BY Zenon, <1>3 DEF Appended
      <3>3. day \in DOMAIN dir => file <= Len(inodes)
        BY <1>4, <2>1
      <3> QED
        BY Zenon, <1>3, <2>1, <3>1, <3>2, <3>3 DEF Appended, DayFiles
    <2>5. DOMAIN all = DOMAIN dir \cup {day} /\ DOMAIN all \subseteq 1 .. MaxDay /\ \A d \in DOMAIN all : d <= day
      BY <1>4, <1>6, <2>1
    <2>6. Append(old, r) \in Seq(Nat)
      BY <1>4, <2>4
    <2> HIDE DEF all
    <2>7. FilesOf(all, Nat)
      <3>1. \A d \in DOMAIN all : all[d] \in Seq(Nat)
        BY Zenon, <1>7, <2>2, <2>3, <2>5, <2>6 DEF FilesOf
      <3>2. DOMAIN all \in SUBSET Nat
        BY <2>5
      <3> QED
        BY Zenon, <3>1, <3>2 DEF FilesOf
    <2> DEFINE before == Joined(DayFiles, day - 1)
    <2>8. day - 1 \in Nat /\ day \in Nat /\ day # 0 /\ day <= MaxDay /\ day - 1 <= MaxDay
      BY <1>4
    <2>9. before \in Seq(Nat)
      BY <1>7, <2>8, JoinedType
    <2>10. Query = before \o old
      <3>1. CASE day \in DOMAIN dir
        BY Zenon, <1>4, <1>6, <1>7, <2>4, <2>8, <3>1, JoinedAtLast DEF Query
      <3>2. CASE day \notin DOMAIN dir
        <4>1. \A d \in DOMAIN DayFiles : ~(day - 1 < d /\ d <= MaxDay)
          BY <1>4, <1>6, <1>7, <3>2
        <4>2. Query = before
          BY <1>4, <1>7, <2>8, <4>1, JoinedStops DEF Query
        <4> QED
          BY <2>4, <2>9, <3>2, <4>2
      <3> QED
        BY Zenon, <3>1, <3>2
    <2>11. Joined(all, MaxDay) = Append(Query, r)
      <3>1. Joined(all, MaxDay) = Joined(all, day - 1) \o all[day]
        BY Zenon, <1>4, <2>5, <2>7, <2>8, JoinedAtLast
      <3>2. SameTo(all, DayFiles, day - 1)
        <4> SUFFICES ASSUME NEW d \in 1 .. day - 1
                     PROVE  /\ d \in DOMAIN all <=> d \in DOMAIN DayFiles
                            /\ d \in DOMAIN all => all[d] = DayFiles[d]
          BY Zenon DEF SameTo
        <4>1. d # day
          BY <2>8
        <4> QED
          BY Zenon, <1>7, <2>2, <2>5, <4>1
      <3>3. Joined(all, day - 1) = before
        BY Zenon, <2>8, <3>2, JoinedSame
      <3> HIDE DEF before
      <3>4. \A a, b \in Seq(Nat), x \in Nat : a \o Append(b, x) = Append(a \o b, x)
        OBVIOUS
      <3>5. before \o Append(old, r) = Append(before \o old, r)
        BY Zenon, <1>4, <2>4, <2>9, <3>4
      <3> QED
        BY Zenon, <2>3, <2>10, <3>1, <3>3, <3>5
    <2>12. PICK c \in 0 .. MaxDay : \A d \in DOMAIN all : d \in gone <=> d <= c
      BY Zenon, <2>5, <2>7, CapTakesFirst DEF gone
    <2>13. /\ DOMAIN DayFiles' = DOMAIN all \ gone
           /\ \A d \in DOMAIN DayFiles' : DayFiles'[d] = all[d] /\ dir'[d] = Named[d]
           /\ DOMAIN dir' = DOMAIN DayFiles'
      BY Zenon, <1>1 DEF DayFiles, all
    <2>14. c \in Nat /\ c <= MaxDay /\ \A d \in DOMAIN all : d \in Nat /\ (d >= c + 1 <=> ~(d <= c))
      BY <1>4, <2>5
    <2>15. FromFile(all, DayFiles', c + 1) /\ FilesOf(DayFiles', Nat)
      BY Zenon, <2>7, <2>12, <2>13, <2>14 DEF FromFile, FilesOf
    <2>16. Append(Query, r) = Joined(all, c) \o Query'
      <3>1. Joined(all, MaxDay) = Joined(all, c) \o Joined(DayFiles', MaxDay)
        BY SMTT(30), <1>4, <2>7, <2>14, <2>15, JoinedCut
      <3> QED
        BY Zenon, <2>11, <3>1 DEF Query
    <2>17. Joined(all, c) \in Seq(Nat) /\ Query' \in Seq(Nat)
      BY Zenon, <1>4, <2>7, <2>14, <2>15, JoinedType DEF Query
    <2>18. Query # <<>> => Query[Len(Query)] = accepted
      <3>1. CASE DOMAIN dir = {}
        <4>1. \A d \in DOMAIN DayFiles : ~(0 < d /\ d <= MaxDay)
          BY Zenon, <1>7, <3>1
        <4>2. 0 \in Nat /\ 0 <= MaxDay
          BY <1>4
        <4>3. Joined(DayFiles, MaxDay) = Joined(DayFiles, 0)
          BY Zenon, <1>4, <1>7, <4>1, <4>2, JoinedStops
        <4> QED
          BY Zenon, <4>3, JoinedNone DEF Query
      <3>2. CASE DOMAIN dir # {}
        BY Zenon, <3>2 DEF Queried
      <3> QED
        BY Zenon, <3>1, <3>2
    <2>19. \A i \in 1 .. Len(Append(Query, r)) - 1 : Append(Query, r)[i + 1] = Append(Query, r)[i] + 1
      BY Zenon, <1>4, <1>8, <2>18, NextInLine DEF Queried, r
    <2>20. \A i \in 1 .. Len(Query') - 1 : Query'[i + 1] = Query'[i] + 1
      <3> DEFINE a == Joined(all, c)
                 b == Query'
      <3>1. a \in Seq(Nat) /\ b \in Seq(Nat) /\ Append(Query, r) = a \o b
        BY Zenon, <2>16, <2>17
      <3> HIDE DEF a, b
      <3>2. \A i \in 1 .. Len(a \o b) - 1 : (a \o b)[i + 1] = (a \o b)[i] + 1
        BY Zenon, <2>19, <3>1
      <3>3. \A i \in 1 .. Len(b) - 1 : b[i + 1] = b[i] + 1
        BY Zenon, <3>1, <3>2, EndHasNoGap
      <3> QED
        BY Zenon, <3>3 DEF b
    <2>21. ASSUME DOMAIN dir' # {}
           PROVE  day \in DOMAIN dir' /\ dir'[day] = file
      <3>1. PICK d \in DOMAIN all : ~(d <= c)
        BY Zenon, <2>12, <2>13, <2>21
      <3>2. ~(day <= c)
        BY <2>5, <2>8, <2>14, <3>1
      <3> QED
        BY Zenon, <2>1, <2>5, <2>12, <2>13, <3>2
    <2>22. ASSUME DOMAIN dir' # {}
           PROVE  Query' # <<>> /\ Query'[Len(Query')] = r
      <3>1. day \in DOMAIN DayFiles' /\ DayFiles'[day] = Append(old, r) /\ \A d \in DOMAIN DayFiles' : d <= day
        BY Zenon, <2>3, <2>5, <2>13, <2>21, <2>22
      <3> DEFINE a == Joined(DayFiles', day - 1)
      <3>2. Query' = a \o Append(old, r)
        <4>1. Joined(DayFiles', MaxDay) = a \o DayFiles'[day]
          BY Zenon, <1>4, <2>8, <2>15, <3>1, JoinedAtLast
        <4> QED
          BY Zenon, <3>1, <4>1 DEF Query
      <3>3. a \in Seq(Nat)
        BY Zenon, <2>8, <2>15, JoinedType
      <3> HIDE DEF a
      <3>4. a \o Append(old, r) # <<>> /\ (a \o Append(old, r))[Len(a \o Append(old, r))] = r
        <4>1. \A p, q \in Seq(Nat), x \in Nat :
                  p \o Append(q, x) # <<>> /\ (p \o Append(q, x))[Len(p \o Append(q, x))] = x
          OBVIOUS
        <4> QED
          BY Zenon, <1>4, <2>4, <3>3, <4>1
      <3> QED
        BY Zenon, <3>2, <3>4
    <2>23. \A d \in DOMAIN dir' : d <= day
      BY Zenon, <2>5, <2>13
    <2>24. day <= day
      BY <2>8
    <2> QED
      BY Zenon, <1>1, <2>20, <2>21, <2>22, <2>23, <2>24 DEF Queried
  <1> QED
    BY Zenon, <1>9, <1>10

\* No other step changes what a query returns while the clock is not set back.
LEMMA QueryStep == JournalInv /\ Queried /\ [JournalNext]_journalVars => Queried'
  <1> SUFFICES ASSUME JournalInv, Queried, [JournalNext]_journalVars
               PROVE  Queried'
    OBVIOUS
  <1>1. CASE Write
    BY Zenon, <1>1, WriteQuery
  <1>2. CASE DayPasses
    <2>1. /\ UNCHANGED <<dir, inodes, writer, accepted, stepped>> /\ day' = day + 1
      BY Zenon, <1>2 DEF DayPasses, writerVars
    <2>2. Query' = Query
      BY Zenon, <2>1 DEF Query, DayFiles
    <2>3. day \in Nat /\ writer.today \in Nat /\ DOMAIN dir \subseteq Nat
      BY DEF JournalInv, JournalType
    <2> QED
      BY <2>1, <2>2, <2>3 DEF Queried
  <1>3. CASE ClockSetBack
    BY Zenon, <1>3 DEF ClockSetBack, Queried
  <1>4. CASE CloseWriter
    <2>1. /\ UNCHANGED <<day, dir, inodes, accepted, stepped>> /\ writer' = [writer EXCEPT !.file = 0]
      BY Zenon, <1>4 DEF CloseWriter
    <2>2. writer'.today = writer.today /\ writer'.file = 0
      BY <2>1 DEF JournalInv, JournalType
    <2>3. Query' = Query
      BY Zenon, <2>1 DEF Query, DayFiles
    <2> QED
      BY Zenon, <2>1, <2>2, <2>3 DEF Queried
  <1>5. CASE WindowEnds \/ FollowStep \/ Kill \/ CreateKillFile \/ Cancel \/ UNCHANGED journalVars
    <2>1. UNCHANGED <<day, dir, inodes, writer, accepted, stepped>>
      BY Zenon, <1>5
         DEF WindowEnds, FollowStep, FollowList, FollowStat, FollowOpen, FollowLine,
         FollowEnd, FollowReturns, Kill, CreateKillFile, Cancel, writerVars, journalVars
    <2> QED
      BY Zenon, <2>1 DEF Queried, Query, DayFiles
  <1> QED
    BY Zenon, <1>1, <1>2, <1>3, <1>4, <1>5 DEF JournalNext

\* What readers get is the journal: a query has no gap as long as the clock is not set
\* back; the forwarder sends no record twice and none out of order, over day changes,
\* clocks set back, removals and files that are opened again; and nothing that was
\* written after Kill is sent.
THEOREM ReadsExactly == JournalSpec => []ReadersAreExact
  <1>1. JournalInit => JournalInv
    BY JournalAssumption DEF JournalInit, JournalInv, JournalType, Ordered, NamesDiffer,
       FollowsOn, Unread, Forwards, Silenced, Never
  <1>2. JournalInit => Queried
    <2> SUFFICES ASSUME JournalInit
                 PROVE  Queried
      OBVIOUS
    <2>1. DOMAIN dir = {} /\ writer.today = 0 /\ day = 1
      BY DEF JournalInit
    <2>2. DOMAIN DayFiles = {} /\ FilesOf(DayFiles, Nat)
      BY <2>1 DEF DayFiles, FilesOf
    <2>3. MaxDay \in Nat /\ 0 \in Nat /\ 0 <= MaxDay
      BY JournalAssumption
    <2>4. Joined(DayFiles, MaxDay) = Joined(DayFiles, 0)
      BY <2>2, <2>3, JoinedStops
    <2>5. Query = <<>>
      BY Zenon, <2>4, JoinedNone DEF Query
    <2>6. Len(Query) = 0
      BY <2>5
    <2> QED
      BY <2>1, <2>6 DEF Queried
  <1>3. Queried => QueryIsContiguous
    BY Zenon DEF Queried, QueryIsContiguous
  <1> QED
    BY <1>1, <1>2, <1>3, JournalStep, JournalPromises, QueryStep, PTL
       DEF JournalSpec, ReadersAreExact

-----------------------------------------------------------------------------
(*****************************************************************************)
(* Provenance. What verify_chain accepts depends on what happened to the     *)
(* files, and the invariant has a part for each history. As long as no file  *)
(* was removed, the files are numbered 1, 2, ... in the order in which they  *)
(* were written, and a log that is accepted holds what was acknowledged. As  *)
(* long as nothing happened at all, it is exactly that, and the writer       *)
(* stands at its end. Once the oldest files are gone, no line is numbered 1  *)
(* again.                                                                    *)
(*****************************************************************************)

\* Hashes, the lines of a file, and the states of the writer.

Chains == Seq(Nat \X Nat)
Lines == [seq : Nat, content : Nat, prev : Chains, hash : Chains, nl : BOOLEAN]
Writers == [up : BOOLEAN, file : Nat, linked : BOOLEAN, seq : Nat, last : Chains, size : Nat,
            rotated : BOOLEAN]

\* The types of the variables; a file that is open has a name or had one, and right
\* after a rotation nothing was counted yet.
LogType ==
    /\ FilesOf(disk, Lines) /\ DOMAIN disk \subseteq 1 .. MaxFiles
    /\ mtimes \in Seq(Nat) /\ calls \in Nat /\ acked \in Seq(Nat)
    /\ w \in Writers
    /\ w.linked => w.up /\ w.file \in DOMAIN disk
    /\ w.rotated => w.up /\ w.size = 0

-----------------------------------------------------------------------------
\* The lines that append tries to write, and what is left of them.
LEMMA LineTypes ==
    ASSUME NEW prev \in Chains, NEW seq \in Nat, NEW content \in Nat
    PROVE  LineOf(prev, seq, content) \in Lines /\ Torn(LineOf(prev, seq, content)) \subseteq Lines
  <1> DEFINE e == LineOf(prev, seq, content)
  <1>1. Hash(prev, seq, content) \in Chains
    BY DEF Hash, Chains
  <1>2. e \in Lines
    BY Zenon, <1>1 DEF LineOf, Lines
  <1>3. Genesis \in Chains
    BY DEF Genesis, Chains
  <1>4. Garbage \in Lines
    BY <1>3 DEF Garbage, Lines
  <1> HIDE DEF e
  <1>5. \A x \in Lines : [x EXCEPT !.nl = FALSE] \in Lines
    BY Zenon DEF Lines
  <1>6. Torn(e) \subseteq Lines
    BY Zenon, <1>2, <1>4, <1>5 DEF Torn
  <1> QED
    BY Zenon, <1>2, <1>6 DEF e

\* Behind a line without a newline, a line spoils both.
Spoiled(lines, after) ==
    /\ lines # <<>> /\ Len(after) = Len(lines)
    /\ after[Len(lines)].seq = 0

\* What a write does to the lines of a file.
LEMMA WrittenCases ==
    ASSUME NEW lines \in Seq(Lines), NEW line \in Lines
    PROVE  /\ Written(lines, line) \in Seq(Lines)
           /\ Written(lines, line) # <<>>
           /\ \/ Written(lines, line) = Append(lines, line)
              \/ /\ lines # <<>> /\ ~lines[Len(lines)].nl
                 /\ Spoiled(lines, Written(lines, line))
                 /\ \A i \in 1 .. Len(lines) : i # Len(lines) => Written(lines, line)[i] = lines[i]
                 /\ Written(lines, line)[Len(lines)].content = 0
  <1> DEFINE n == Len(lines)
             g == [Garbage EXCEPT !.nl = line.nl]
  <1>1. g \in Lines /\ g.seq = 0 /\ g.content = 0
    <2>1. line.nl \in BOOLEAN /\ Genesis \in Chains
      BY DEF Lines, Genesis, Chains
    <2> QED
      BY Zenon, <2>1 DEF Garbage, Lines
  <1> HIDE DEF g
  <1>2. CASE lines # <<>> /\ ~lines[n].nl
    <2>1. Written(lines, line) = [lines EXCEPT ![n] = g]
      BY Zenon, <1>2 DEF Written, g
    <2>2. n \in 1 .. n /\ n \in Nat
      BY <1>2
    <2>3. /\ [lines EXCEPT ![n] = g] \in Seq(Lines) /\ Len([lines EXCEPT ![n] = g]) = n
          /\ [lines EXCEPT ![n] = g][n] = g
          /\ \A i \in 1 .. n : i # n => [lines EXCEPT ![n] = g][i] = lines[i]
      BY <1>1, <2>2
    <2>4. Written(lines, line) # <<>>
      BY <2>1, <2>2, <2>3
    <2> QED
      BY Zenon, <1>1, <1>2, <2>1, <2>3, <2>4 DEF Spoiled
  <1>3. CASE ~(lines # <<>> /\ ~lines[n].nl)
    <2>1. Written(lines, line) = Append(lines, line)
      BY Zenon, <1>3 DEF Written
    <2> DEFINE a == Append(lines, line)
    <2>2. a \in Seq(Lines) /\ Len(a) = Len(lines) + 1 /\ Len(lines) \in Nat
      OBVIOUS
    <2> HIDE DEF a
    <2>3. a # <<>>
      BY <2>2
    <2> QED
      BY Zenon, <2>1, <2>2, <2>3 DEF a
  <1> QED
    BY Zenon, <1>2, <1>3

\* The order of modification stays a sequence of numbers of the same length.
LEMMA TouchedType ==
    ASSUME mtimes \in Seq(Nat), NEW file \in Nat
    PROVE  Touched(file) \in Seq(Nat) /\ Len(Touched(file)) = Len(mtimes)
  <1> DEFINE n == Len(mtimes)
             at == CHOOSE i \in DOMAIN mtimes : mtimes[i] = file
             t == [i \in 1 .. n |-> IF i = n THEN file ELSE IF i < at THEN mtimes[i] ELSE mtimes[i + 1]]
  <1>1. n \in Nat /\ DOMAIN mtimes = 1 .. n /\ \A i \in 1 .. n : mtimes[i] \in Nat
    OBVIOUS
  <1>2. Touched(file) = t
    BY Zenon, <1>1 DEF Touched
  <1> HIDE DEF at, n
  <1>3. \A i \in 1 .. n : i # n => i + 1 \in 1 .. n
    BY <1>1
  <1>4. t \in [1 .. n -> Nat]
    BY <1>1, <1>3
  <1> HIDE DEF t
  <1>5. t \in Seq(Nat) /\ Len(t) = n
    BY <1>1, <1>4
  <1> QED
    BY Zenon, <1>2, <1>5 DEF n

\* What the log is read from after a write.
LEMMA PutLineFacts ==
    ASSUME LogType, NEW line \in Lines, PutLine(line)
    PROVE  /\ FilesOf(disk', Lines) /\ DOMAIN disk' = DOMAIN disk
           /\ mtimes' \in Seq(Nat) /\ Len(mtimes') = Len(mtimes)
           /\ \A f \in DOMAIN disk : f # w.file \/ ~w.linked => disk'[f] = disk[f]
           /\ w.linked => disk'[w.file] = Written(disk[w.file], line)
  <1>1. /\ FilesOf(disk, Lines) /\ mtimes \in Seq(Nat) /\ w.file \in Nat
        /\ w.linked => w.file \in DOMAIN disk
    BY Zenon DEF LogType, Writers
  <1>2. CASE w.linked
    <2>1. disk' = [disk EXCEPT ![w.file] = Written(disk[w.file], line)] /\ mtimes' = Touched(w.file)
      BY Zenon, <1>2 DEF PutLine
    <2>2. disk[w.file] \in Seq(Lines)
      BY Zenon, <1>1, <1>2 DEF FilesOf
    <2>3. Written(disk[w.file], line) \in Seq(Lines)
      BY Zenon, <2>2, WrittenCases
    <2>4. /\ DOMAIN disk' = DOMAIN disk /\ disk'[w.file] = Written(disk[w.file], line)
          /\ \A f \in DOMAIN disk : f # w.file => disk'[f] = disk[f]
      BY Zenon, <1>1, <1>2, <2>1
    <2>5. FilesOf(disk', Lines)
      BY Zenon, <1>1, <2>3, <2>4 DEF FilesOf
    <2>6. mtimes' \in Seq(Nat) /\ Len(mtimes') = Len(mtimes)
      BY Zenon, <1>1, <2>1, TouchedType
    <2> QED
      BY Zenon, <1>2, <2>4, <2>5, <2>6
  <1>3. CASE ~w.linked
    BY Zenon, <1>1, <1>3 DEF PutLine
  <1> QED
    BY Zenon, <1>2, <1>3

\* Where open finds the end of the chain.
LEMMA ScanFacts ==
    ASSUME NEW lines \in Seq(Lines)
    PROVE  /\ ScanOf(lines)[1] \in Nat /\ ScanOf(lines)[2] \in Chains
           /\ lines = <<>> => ScanOf(lines) = <<0, Genesis>>
           /\ lines # <<>> /\ (\A i \in 1 .. Len(lines) : lines[i].seq > 0) =>
                  ScanOf(lines) = <<lines[Len(lines)].seq, lines[Len(lines)].hash>>
  <1> DEFINE good == {i \in DOMAIN lines : Parses(lines[i])}
             n == Len(lines)
             m == Max(good)
  <1>1. n \in Nat /\ DOMAIN lines = 1 .. n /\ (lines = <<>> => n = 0) /\ (lines # <<>> => n # 0)
    OBVIOUS
  <1>2. \A i \in 1 .. n : lines[i] \in Lines
    OBVIOUS
  <1> HIDE DEF n
  <1>3. good \in SUBSET (1 .. n)
    BY Zenon, <1>1
  <1>4. good # {} => m \in good /\ \A i \in good : i <= m
    BY Zenon, <1>1, <1>3, MaxPosition
  <1>5. ScanOf(lines) = IF good = {} THEN <<0, Genesis>> ELSE <<lines[m].seq, lines[m].hash>>
    BY Zenon DEF ScanOf
  <1>6. CASE good = {}
    <2>1. ScanOf(lines) = <<0, Genesis>>
      BY Zenon, <1>5, <1>6
    <2>2. ~(lines # <<>> /\ \A i \in 1 .. n : lines[i].seq > 0)
      <3> SUFFICES ASSUME n # 0, \A i \in 1 .. n : lines[i].seq > 0
                   PROVE  FALSE
        BY Zenon, <1>1
      <3>1. 1 \in 1 .. n
        BY <1>1
      <3>2. 1 \in good
        BY Zenon, <1>1, <3>1 DEF Parses
      <3> QED
        BY Zenon, <1>6, <3>2
    <2>3. Genesis \in Chains
      BY DEF Genesis, Chains
    <2> QED
      BY <2>1, <2>2, <2>3 DEF n
  <1>7. CASE good # {}
    <2>1. ScanOf(lines) = <<lines[m].seq, lines[m].hash>>
      BY Zenon, <1>5, <1>7
    <2>2. m \in 1 .. n /\ lines[m] \in Lines /\ \A i \in good : i <= m
      BY Zenon, <1>2, <1>3, <1>4, <1>7
    <2> HIDE DEF m
    <2>3. lines[m].seq \in Nat /\ lines[m].hash \in Chains
      BY Zenon, <2>2 DEF Lines
    <2>4. lines # <<>>
      BY <1>1, <2>2
    <2>5. (\A i \in 1 .. n : lines[i].seq > 0) => m = n
      <3> SUFFICES ASSUME \A i \in 1 .. n : lines[i].seq > 0
                   PROVE  m = n
        OBVIOUS
      <3>1. n \in 1 .. n
        BY <1>1, <2>2
      <3>2. n \in good
        BY Zenon, <1>1, <3>1 DEF Parses
      <3>3. n <= m
        BY Zenon, <2>2, <3>2
      <3> QED
        BY <1>1, <2>2, <3>3
    <2> QED
      BY <2>1, <2>3, <2>4, <2>5 DEF n
  <1> QED
    BY Zenon, <1>6, <1>7

\* What Open finds.
LEMMA OpenFacts ==
    ASSUME LogType, Open
    PROVE  \E file \in 1 .. MaxFiles :
             /\ DOMAIN disk = {} => /\ file = 1 /\ DOMAIN disk' = {1} /\ disk'[1] = <<>>
                                    /\ mtimes' = <<1>> /\ w'.seq = 0 /\ w'.last = Genesis
             /\ DOMAIN disk # {} =>
                    /\ file \in DOMAIN disk /\ (\A f \in DOMAIN disk : f <= file)
                    /\ DOMAIN disk' = DOMAIN disk /\ (\A f \in DOMAIN disk : disk'[f] = disk[f])
                    /\ mtimes' = mtimes
                    /\ w'.seq = ScanOf(disk[file])[1] /\ w'.last = ScanOf(disk[file])[2]
             /\ w' \in Writers /\ w'.up /\ w'.linked /\ ~w'.rotated /\ w'.file = file
             /\ file \in DOMAIN disk' /\ w'.size = Len(disk'[file])
  <1> DEFINE new == DOMAIN disk = {}
             file == IF new THEN 1 ELSE Max(DOMAIN disk)
             lines == IF new THEN <<>> ELSE disk[file]
             at == ScanOf(lines)
  <1>1. /\ disk' = [f \in DOMAIN disk \union {file} |-> IF f = file THEN lines ELSE disk[f]]
        /\ mtimes' = IF new THEN <<file>> ELSE mtimes
        /\ w' = [up |-> TRUE, file |-> file, linked |-> TRUE, seq |-> at[1],
                 last |-> at[2], size |-> Len(lines), rotated |-> FALSE]
    BY Zenon DEF Open
  <1>2. MaxFiles \in Nat /\ DOMAIN disk \in SUBSET (1 .. MaxFiles) /\ 1 \in 1 .. MaxFiles
    BY ProvenanceAssumption DEF LogType
  <1>3. ~new => Max(DOMAIN disk) \in DOMAIN disk /\ \A f \in DOMAIN disk : f <= Max(DOMAIN disk)
    BY Zenon, <1>2, MaxPosition
  <1>4. /\ file \in 1 .. MaxFiles
        /\ new => file = 1 /\ lines = <<>>
        /\ ~new => file \in DOMAIN disk /\ lines = disk[file] /\ \A f \in DOMAIN disk : f <= file
    BY Zenon, <1>2, <1>3
  <1> HIDE DEF file, lines
  <1>5. lines \in Seq(Lines)
    <2>1. <<>> \in Seq(Lines)
      OBVIOUS
    <2> QED
      BY Zenon, <1>4, <2>1 DEF LogType, FilesOf
  <1>6. at[1] \in Nat /\ at[2] \in Chains /\ (new => at[1] = 0 /\ at[2] = Genesis)
    <2>1. at[1] \in Nat /\ at[2] \in Chains
      BY Zenon, <1>5, ScanFacts
    <2>2. new => at = <<0, Genesis>>
      BY Zenon, <1>4, <1>5, ScanFacts
    <2> HIDE DEF at
    <2> QED
      BY <2>1, <2>2
  <1>7. Len(lines) \in Nat /\ file \in Nat
    BY <1>2, <1>4, <1>5
  <1>8. /\ w'.up /\ w'.linked /\ ~w'.rotated /\ w'.file = file /\ w'.seq = at[1] /\ w'.last = at[2]
        /\ w'.size = Len(lines)
    BY Zenon, <1>1
  <1>9. w' \in Writers
    BY Zenon, <1>1, <1>6, <1>7 DEF Writers
  <1> HIDE DEF at
  <1>10. disk'[file] = lines /\ file \in DOMAIN disk'
    BY Zenon, <1>1
  <1>11. CASE new
    <2>1. DOMAIN disk' = {1} /\ disk'[1] = <<>> /\ mtimes' = <<1>>
      BY Zenon, <1>1, <1>4, <1>11
    <2> QED
      BY Zenon, <1>4, <1>6, <1>8, <1>9, <1>10, <1>11, <2>1
  <1>12. CASE ~new
    <2>1. DOMAIN disk' = DOMAIN disk /\ (\A f \in DOMAIN disk : disk'[f] = disk[f]) /\ mtimes' = mtimes
      BY Zenon, <1>1, <1>4, <1>12
    <2> QED
      BY Zenon, <1>4, <1>8, <1>9, <1>10, <1>12, <2>1 DEF at
  <1> QED
    BY Zenon, <1>11, <1>12

-----------------------------------------------------------------------------
\* What rotate leaves.
LEMMA RotateFacts ==
    ASSUME LogType, Rotate, NEW n, n = Len(mtimes) + 1
    PROVE  /\ n \in 1 .. MaxFiles
           /\ DOMAIN disk' = DOMAIN disk \cup {n} /\ \A f \in DOMAIN disk : disk'[f] = disk[f]
           /\ n \notin DOMAIN disk => disk'[n] = <<>> /\ mtimes' = Append(mtimes, n)
           /\ n \in DOMAIN disk => mtimes' = mtimes
           /\ w' \in Writers /\ w'.up /\ w'.linked /\ w'.rotated
           /\ w'.file = n /\ w'.size = 0 /\ w'.seq = w.seq /\ w'.last = w.last
           /\ w.up /\ w.size >= MaxLines
  <1>1. /\ w.up /\ w.size >= MaxLines /\ n <= MaxFiles
        /\ disk' = [f \in DOMAIN disk \union {n} |-> IF f \in DOMAIN disk THEN disk[f] ELSE <<>>]
        /\ mtimes' = IF n \in DOMAIN disk THEN mtimes ELSE Append(mtimes, n)
        /\ w' = [w EXCEPT !.file = n, !.linked = TRUE, !.size = 0, !.rotated = TRUE]
    BY Zenon DEF Rotate
  <1>2. n \in 1 .. MaxFiles /\ n \in Nat
    BY <1>1, ProvenanceAssumption DEF LogType
  <1>3. w \in Writers /\ 0 \in Nat
    BY Zenon DEF LogType
  <1>4. w' \in Writers
    BY Zenon, <1>1, <1>2, <1>3 DEF Writers
  <1>5. w'.up /\ w'.linked /\ w'.rotated /\ w'.file = n /\ w'.size = 0 /\ w'.seq = w.seq /\ w'.last = w.last
    BY Zenon, <1>1, <1>3 DEF Writers
  <1> QED
    BY Zenon, <1>1, <1>2, <1>4, <1>5

\* What the writer keeps when files are removed.
LEMMA RemoveFacts ==
    ASSUME LogType, NEW k \in 1 .. Len(mtimes), RemoveOldest(k)
    PROVE  /\ DOMAIN disk' = DOMAIN disk \ Oldest(k) /\ \A f \in DOMAIN disk' : disk'[f] = disk[f]
           /\ mtimes' \in Seq(Nat) /\ mtimes[1] \in Oldest(k)
           /\ w' \in Writers /\ w'.up = w.up /\ w'.seq = w.seq /\ w'.size = w.size
           /\ w'.rotated = w.rotated /\ w'.file = w.file
           /\ w'.linked <=> w.linked /\ w.file \notin Oldest(k)
  <1>1. /\ disk' = [f \in DOMAIN disk \ Oldest(k) |-> disk[f]]
        /\ mtimes' = SubSeq(mtimes, k + 1, Len(mtimes))
        /\ w' = [w EXCEPT !.linked = w.linked /\ w.file \notin Oldest(k)]
    BY Zenon DEF RemoveOldest
  <1>2. w \in Writers /\ mtimes \in Seq(Nat)
    BY Zenon DEF LogType
  <1>3. mtimes' \in Seq(Nat)
    BY <1>1, <1>2
  <1>4. 1 \in 1 .. k
    BY <1>2
  <1>5. mtimes[1] \in Oldest(k)
    BY Zenon, <1>4 DEF Oldest
  <1>6. (w.linked /\ w.file \notin Oldest(k)) \in BOOLEAN
    BY Zenon
  <1>7. w' \in Writers
    BY Zenon, <1>1, <1>2, <1>6 DEF Writers
  <1>8. /\ w'.up = w.up /\ w'.seq = w.seq /\ w'.size = w.size
        /\ w'.rotated = w.rotated /\ w'.file = w.file
        /\ w'.linked <=> w.linked /\ w.file \notin Oldest(k)
    BY Zenon, <1>1, <1>2 DEF Writers
  <1> QED
    BY Zenon, <1>1, <1>3, <1>5, <1>7, <1>8

\* The writer that is not running.
LEMMA ClosedFacts == Closed \in Writers /\ ~Closed.up /\ ~Closed.linked /\ ~Closed.rotated
  <1>1. 0 \in Nat /\ Genesis \in Chains
    BY DEF Genesis, Chains
  <1> QED
    BY Zenon, <1>1 DEF Closed, Writers

\* The entry that append writes next, and the state it may write in.
LEMMA NextLineFacts ==
    ASSUME LogType
    PROVE  /\ NextLine \in Lines /\ Torn(NextLine) \subseteq Lines
           /\ NextLine.seq = w.seq + 1 /\ NextLine.content = calls + 1 /\ NextLine.nl
           /\ NextLine.prev = w.last /\ NextLine.hash = Hash(w.last, w.seq + 1, calls + 1)
           /\ NextLine.hash \in Chains
  <1>1. w.last \in Chains /\ w.seq + 1 \in Nat /\ calls + 1 \in Nat
    BY DEF LogType, Writers
  <1>2. NextLine \in Lines /\ Torn(NextLine) \subseteq Lines
    BY Zenon, <1>1, LineTypes DEF NextLine
  <1>3. /\ NextLine.seq = w.seq + 1 /\ NextLine.content = calls + 1 /\ NextLine.nl
        /\ NextLine.prev = w.last /\ NextLine.hash = Hash(w.last, w.seq + 1, calls + 1)
    BY Zenon DEF NextLine, LineOf
  <1>4. NextLine.hash \in Chains
    BY Zenon, <1>2 DEF Lines
  <1> QED
    BY Zenon, <1>2, <1>3, <1>4

\* The writer after an append, and after one that failed.
LEMMA AppendFacts ==
    ASSUME LogType, AppendOk
    PROVE  /\ PutLine(NextLine) /\ acked' = Append(acked, calls + 1) /\ harm' = harm
           /\ w.up /\ w.size < MaxLines
           /\ w' \in Writers /\ w'.up = w.up /\ w'.linked = w.linked /\ w'.file = w.file
           /\ ~w'.rotated /\ w'.seq = w.seq + 1 /\ w'.last = NextLine.hash /\ w'.size = w.size + 1
           /\ calls' = calls + 1
  <1>1. /\ PutLine(NextLine) /\ acked' = Append(acked, calls + 1) /\ harm' = harm
        /\ w.up /\ w.size < MaxLines /\ calls' = calls + 1
        /\ w' = [w EXCEPT !.seq = w.seq + 1, !.size = w.size + 1, !.last = NextLine.hash, !.rotated = FALSE]
    BY Zenon DEF AppendOk, Put
  <1>2. w \in Writers /\ w.seq + 1 \in Nat /\ w.size + 1 \in Nat /\ NextLine.hash \in Chains
    BY NextLineFacts DEF LogType, Writers
  <1>3. w' \in Writers
    BY Zenon, <1>1, <1>2 DEF Writers
  <1>4. /\ w'.up = w.up /\ w'.linked = w.linked /\ w'.file = w.file
        /\ ~w'.rotated /\ w'.seq = w.seq + 1 /\ w'.last = NextLine.hash /\ w'.size = w.size + 1
    BY Zenon, <1>1, <1>2 DEF Writers
  <1> QED
    BY Zenon, <1>1, <1>3, <1>4

\* What an append that fails leaves.
LEMMA FailFacts ==
    ASSUME LogType, AppendFails
    PROVE  /\ (\E line \in Torn(NextLine) : PutLine(line)) \/ UNCHANGED <<disk, mtimes>>
           /\ acked' = acked /\ harm' = harm \cup {"refuse"} /\ w.up /\ calls' = calls + 1
           /\ w' \in Writers /\ w'.up = w.up /\ w'.linked = w.linked /\ w'.file = w.file /\ ~w'.rotated
  <1>1. /\ (\E line \in Torn(NextLine) : PutLine(line)) \/ UNCHANGED <<disk, mtimes>>
        /\ acked' = acked /\ harm' = harm \cup {"refuse"} /\ w.up /\ calls' = calls + 1
        /\ w' = [w EXCEPT !.seq = w.seq + 1, !.rotated = FALSE]
    BY Zenon DEF AppendFails, Put
  <1>2. w \in Writers /\ w.seq + 1 \in Nat
    BY DEF LogType, Writers
  <1>3. w' \in Writers
    BY Zenon, <1>1, <1>2 DEF Writers
  <1>4. w'.up = w.up /\ w'.linked = w.linked /\ w'.file = w.file /\ ~w'.rotated
    BY Zenon, <1>1, <1>2 DEF Writers
  <1> QED
    BY Zenon, <1>1, <1>3, <1>4

\* The types are kept.
LEMMA LogTypeStep == LogType /\ [ProvenanceNext]_provenanceVars => LogType'
  <1> SUFFICES ASSUME LogType, [ProvenanceNext]_provenanceVars
               PROVE  LogType'
    OBVIOUS
  <1>0. /\ FilesOf(disk, Lines) /\ DOMAIN disk \subseteq 1 .. MaxFiles
        /\ mtimes \in Seq(Nat) /\ calls \in Nat /\ acked \in Seq(Nat)
        /\ w \in Writers /\ (w.linked => w.up /\ w.file \in DOMAIN disk)
        /\ (w.rotated => w.up /\ w.size = 0)
    BY Zenon DEF LogType
  <1>1. CASE Open
    <2>1. PICK file \in 1 .. MaxFiles :
             /\ DOMAIN disk = {} => /\ file = 1 /\ DOMAIN disk' = {1} /\ disk'[1] = <<>>
                                    /\ mtimes' = <<1>>
             /\ DOMAIN disk # {} =>
                    /\ DOMAIN disk' = DOMAIN disk /\ (\A f \in DOMAIN disk : disk'[f] = disk[f])
                    /\ mtimes' = mtimes
             /\ w' \in Writers /\ w'.up /\ ~w'.rotated /\ w'.file = file /\ file \in DOMAIN disk'
      BY Zenon, <1>1, OpenFacts
    <2>2. UNCHANGED <<calls, acked>>
      BY Zenon, <1>1 DEF Open
    <2>3. CASE DOMAIN disk = {}
      <3>1. DOMAIN disk' = {1} /\ disk'[1] = <<>> /\ mtimes' = <<1>> /\ 1 \in 1 .. MaxFiles
        BY Zenon, <2>1, <2>3
      <3>2. <<>> \in Seq(Lines) /\ <<1>> \in Seq(Nat) /\ 1 \in Nat
        OBVIOUS
      <3>3. FilesOf(disk', Lines)
        BY Zenon, <3>1, <3>2 DEF FilesOf
      <3> QED
        BY Zenon, <1>0, <2>1, <2>2, <3>1, <3>2, <3>3 DEF LogType
    <2>4. CASE DOMAIN disk # {}
      BY Zenon, <1>0, <2>1, <2>2, <2>4 DEF LogType, FilesOf
    <2> QED
      BY Zenon, <2>3, <2>4
  <1>2. CASE Rotate
    <2> DEFINE n == Len(mtimes) + 1
    <2>1. /\ n \in 1 .. MaxFiles
          /\ DOMAIN disk' = DOMAIN disk \cup {n} /\ \A f \in DOMAIN disk : disk'[f] = disk[f]
          /\ n \notin DOMAIN disk => disk'[n] = <<>> /\ mtimes' = Append(mtimes, n)
          /\ n \in DOMAIN disk => mtimes' = mtimes
          /\ w' \in Writers /\ w'.up /\ w'.linked /\ w'.rotated /\ w'.file = n /\ w'.size = 0
      BY Zenon, <1>2, RotateFacts
    <2>2. UNCHANGED <<calls, acked>>
      BY Zenon, <1>2 DEF Rotate
    <2>3. <<>> \in Seq(Lines) /\ n \in Nat /\ Append(mtimes, n) \in Seq(Nat)
      BY <1>0
    <2> HIDE DEF n
    <2>4. FilesOf(disk', Lines)
      BY Zenon, <1>0, <2>1, <2>3 DEF FilesOf
    <2> QED
      BY Zenon, <1>0, <2>1, <2>2, <2>3, <2>4 DEF LogType
  <1>3. CASE AppendOk
    <2>1. /\ PutLine(NextLine) /\ acked' = Append(acked, calls + 1) /\ calls' = calls + 1
          /\ w' \in Writers /\ w'.up = w.up /\ w'.linked = w.linked /\ w'.file = w.file /\ ~w'.rotated
      BY Zenon, <1>3, AppendFacts
    <2>2. FilesOf(disk', Lines) /\ DOMAIN disk' = DOMAIN disk /\ mtimes' \in Seq(Nat)
      BY Zenon, <2>1, NextLineFacts, PutLineFacts
    <2>3. acked' \in Seq(Nat) /\ calls' \in Nat
      BY <1>0, <2>1
    <2> QED
      BY Zenon, <1>0, <2>1, <2>2, <2>3 DEF LogType
  <1>4. CASE AppendFails
    <2>1. /\ (\E line \in Torn(NextLine) : PutLine(line)) \/ UNCHANGED <<disk, mtimes>>
          /\ acked' = acked /\ calls' = calls + 1
          /\ w' \in Writers /\ w'.up = w.up /\ w'.linked = w.linked /\ w'.file = w.file /\ ~w'.rotated
      BY Zenon, <1>4, FailFacts
    <2>2. FilesOf(disk', Lines) /\ DOMAIN disk' = DOMAIN disk /\ mtimes' \in Seq(Nat)
      BY Zenon, <1>0, <2>1, NextLineFacts, PutLineFacts
    <2>3. calls' \in Nat
      BY <1>0, <2>1
    <2> QED
      BY Zenon, <1>0, <2>1, <2>2, <2>3 DEF LogType
  <1>5. CASE Crash
    <2>1. w' = Closed /\ UNCHANGED <<disk, mtimes, calls, acked>>
      BY Zenon, <1>5 DEF Crash
    <2> QED
      BY Zenon, <1>0, <2>1, ClosedFacts DEF LogType
  <1>6. CASE CrashInWrite
    <2>1. (\E line \in Torn(NextLine) : PutLine(line)) /\ w' = Closed /\ acked' = acked /\ calls' = calls + 1
      BY Zenon, <1>6 DEF CrashInWrite, Put
    <2>2. FilesOf(disk', Lines) /\ DOMAIN disk' = DOMAIN disk /\ mtimes' \in Seq(Nat)
      BY Zenon, <2>1, NextLineFacts, PutLineFacts
    <2>3. calls' \in Nat
      BY <1>0, <2>1
    <2> QED
      BY Zenon, <1>0, <2>1, <2>2, <2>3, ClosedFacts DEF LogType
  <1>7. CASE Reclaim \/ Expire
    <2>1. PICK k \in 1 .. Len(mtimes) : RemoveOldest(k)
      BY Zenon, <1>7 DEF Reclaim, Expire
    <2>2. UNCHANGED <<calls, acked>>
      BY Zenon, <1>7 DEF Reclaim, Expire
    <2>3. /\ DOMAIN disk' = DOMAIN disk \ Oldest(k) /\ \A f \in DOMAIN disk' : disk'[f] = disk[f]
          /\ mtimes' \in Seq(Nat)
          /\ w' \in Writers /\ w'.up = w.up /\ w'.size = w.size
          /\ w'.rotated = w.rotated /\ w'.file = w.file
          /\ w'.linked <=> w.linked /\ w.file \notin Oldest(k)
      BY Zenon, <2>1, RemoveFacts
    <2>4. FilesOf(disk', Lines) /\ DOMAIN disk' \subseteq 1 .. MaxFiles
      BY Zenon, <1>0, <2>3 DEF FilesOf
    <2> QED
      BY Zenon, <1>0, <2>2, <2>3, <2>4 DEF LogType
  <1>8. CASE Done \/ UNCHANGED provenanceVars
    BY Zenon, <1>0, <1>8 DEF Done, provenanceVars, LogType
  <1> QED
    BY Zenon, <1>1, <1>2, <1>3, <1>4, <1>5, <1>6, <1>7, <1>8 DEF ProvenanceNext

-----------------------------------------------------------------------------
\* The lines of the log are a sequence.
LEMMA WalkedFacts ==
    ASSUME LogType
    PROVE  Walked \in Seq(Lines) /\ Len(Walked) \in Nat /\ DOMAIN Walked = 1 .. Len(Walked)
  <1>1. MaxFiles \in Nat
    BY ProvenanceAssumption
  <1>2. Walked \in Seq(Lines)
    BY Zenon, <1>1, JoinedType DEF Walked, LogType
  <1> QED
    BY <1>2

\* The same files read the same.
LEMMA WalkedSame ==
    ASSUME DOMAIN disk' = DOMAIN disk, \A f \in DOMAIN disk : disk'[f] = disk[f]
    PROVE  Walked' = Walked
  <1>1. MaxFiles \in Nat
    BY ProvenanceAssumption
  <1>2. SameTo(disk', disk, MaxFiles)
    BY Zenon DEF SameTo
  <1>3. Joined(disk', MaxFiles) = Joined(disk, MaxFiles)
    BY Zenon, <1>1, <1>2, JoinedSame
  <1> QED
    BY Zenon, <1>3 DEF Walked

\* An empty file behind the others is not seen.
LEMMA WalkedNewFile ==
    ASSUME LogType, LogType', NEW n \in 1 .. MaxFiles, DOMAIN disk = 1 .. n - 1,
           DOMAIN disk' = DOMAIN disk \cup {n}, \A f \in DOMAIN disk : disk'[f] = disk[f],
           disk'[n] = <<>>
    PROVE  Walked' = Walked
  <1>1. /\ MaxFiles \in Nat /\ n \in Nat /\ n - 1 \in Nat /\ n # 0 /\ n <= MaxFiles /\ n - 1 <= MaxFiles
        /\ \A f \in DOMAIN disk : ~(n - 1 < f /\ f <= MaxFiles)
        /\ n \in DOMAIN disk' /\ \A f \in DOMAIN disk' : f <= n
    BY ProvenanceAssumption
  <1>2. FilesOf(disk, Lines) /\ FilesOf(disk', Lines)
    BY Zenon DEF LogType
  <1>3. Joined(disk', MaxFiles) = Joined(disk', n - 1) \o <<>>
    BY Zenon, <1>1, <1>2, JoinedAtLast
  <1>4. Joined(disk, MaxFiles) = Joined(disk, n - 1)
    BY Zenon, <1>1, <1>2, JoinedStops
  <1>5. SameTo(disk', disk, n - 1)
    <2> SUFFICES ASSUME NEW d \in 1 .. n - 1
                 PROVE  d \in DOMAIN disk' /\ d \in DOMAIN disk /\ disk'[d] = disk[d]
      BY Zenon DEF SameTo
    <2> QED
      BY Zenon
  <1>6. Joined(disk', n - 1) = Joined(disk, n - 1)
    BY Zenon, <1>1, <1>5, JoinedSame
  <1>7. Joined(disk, n - 1) \in Seq(Lines)
    BY Zenon, <1>1, <1>2, JoinedType
  <1>8. \A q \in Seq(Lines) : q \o <<>> = q
    OBVIOUS
  <1>9. Joined(disk, n - 1) \o <<>> = Joined(disk, n - 1)
    BY Zenon, <1>7, <1>8
  <1>10. Joined(disk', MaxFiles) = Joined(disk, MaxFiles)
    BY Zenon, <1>3, <1>4, <1>6, <1>9
  <1> QED
    BY Zenon, <1>10 DEF Walked

\* A write to the last file comes last, or spoils the line that was last.
LEMMA WalkedPut ==
    ASSUME LogType, DOMAIN disk = 1 .. Len(mtimes), w.linked, w.file = Len(mtimes),
           NEW line \in Lines, PutLine(line)
    PROVE  /\ \/ Walked' = Append(Walked, line)
              \/ /\ Spoiled(Walked, Walked')
                 /\ \A i \in 1 .. Len(Walked) : Walked'[i] = Walked[i] \/ Walked'[i].content = 0
           /\ (\A i \in DOMAIN disk[w.file] : disk[w.file][i].nl) => Walked' = Append(Walked, line)
  <1> DEFINE m == Len(mtimes)
             a == Joined(disk, m - 1)
             old == disk[m]
             new == Written(old, line)
  <1>1. FilesOf(disk, Lines) /\ m \in DOMAIN disk /\ m \in Nat /\ DOMAIN disk \subseteq 1 .. MaxFiles
    BY DEF LogType
  <1>2. /\ FilesOf(disk', Lines) /\ DOMAIN disk' = DOMAIN disk
        /\ (\A f \in DOMAIN disk : f # m => disk'[f] = disk[f]) /\ disk'[m] = new
    BY Zenon, PutLineFacts
  <1>3. /\ MaxFiles \in Nat /\ m - 1 \in Nat /\ m # 0 /\ m <= MaxFiles
        /\ \A f \in DOMAIN disk : f <= m
    BY <1>1, ProvenanceAssumption
  <1> HIDE DEF m
  <1>4. Walked = a \o old
    BY Zenon, <1>1, <1>3, JoinedAtLast DEF Walked
  <1>5. Walked' = Joined(disk', m - 1) \o new
    <2>1. \A f \in DOMAIN disk' : f <= m
      BY Zenon, <1>2, <1>3
    <2>2. Joined(disk', MaxFiles) = Joined(disk', m - 1) \o disk'[m]
      BY Zenon, <1>1, <1>2, <1>3, <2>1, JoinedAtLast
    <2> QED
      BY Zenon, <1>2, <2>2 DEF Walked
  <1>6. SameTo(disk', disk, m - 1)
    <2> SUFFICES ASSUME NEW d \in 1 .. m - 1
                 PROVE  (d \in DOMAIN disk' <=> d \in DOMAIN disk) /\ (d \in DOMAIN disk' => disk'[d] = disk[d])
      BY Zenon DEF SameTo
    <2>1. d # m
      BY <1>1
    <2> QED
      BY Zenon, <1>2, <2>1
  <1>7. Joined(disk', m - 1) = a
    BY Zenon, <1>3, <1>6, JoinedSame
  <1>8. a \in Seq(Lines) /\ old \in Seq(Lines)
    BY Zenon, <1>1, <1>3, JoinedType DEF FilesOf
  <1> DEFINE Kept(i) == new[i] = old[i] \/ new[i].content = 0
  <1>9. /\ new \in Seq(Lines)
        /\ \/ new = Append(old, line)
           \/ old # <<>> /\ ~old[Len(old)].nl /\ Spoiled(old, new) /\ \A i \in 1 .. Len(old) : Kept(i)
    <2> HIDE DEF old
    <2>1. /\ new \in Seq(Lines) /\ new # <<>>
          /\ \/ new = Append(old, line)
             \/ /\ old # <<>> /\ ~old[Len(old)].nl /\ Spoiled(old, new)
                /\ \A i \in 1 .. Len(old) : i # Len(old) => new[i] = old[i]
                /\ new[Len(old)].content = 0
      <3>1. old \in Seq(Lines)
        BY Zenon, <1>8
      <3> QED
        BY Zenon, <3>1, WrittenCases
    <2> HIDE DEF new
    <2> QED
      BY Zenon, <2>1
  <1>10. Walked' = a \o new
    BY Zenon, <1>5, <1>7
  <1> HIDE DEF a, old, new
  <1>11. ASSUME new = Append(old, line)
         PROVE  Walked' = Append(Walked, line)
    <2>1. \A p, q \in Seq(Lines), x \in Lines : p \o Append(q, x) = Append(p \o q, x)
      OBVIOUS
    <2>2. a \o Append(old, line) = Append(a \o old, line)
      BY Zenon, <1>8, <2>1
    <2> QED
      BY Zenon, <1>4, <1>10, <1>11, <2>2
  <1>12. ASSUME old # <<>>, Spoiled(old, new), \A i \in 1 .. Len(old) : Kept(i)
         PROVE  /\ Spoiled(Walked, Walked')
                /\ \A i \in 1 .. Len(Walked) : Walked'[i] = Walked[i] \/ Walked'[i].content = 0
    <2> DEFINE x == a \o old
               y == a \o new
    <2>1. Len(old) \in Nat /\ Len(old) # 0 /\ Len(new) = Len(old) /\ new[Len(old)].seq = 0 /\ Len(a) \in Nat
      BY <1>8, <1>12 DEF Spoiled
    <2>2. /\ Len(x) = Len(a) + Len(old) /\ Len(y) = Len(a) + Len(old)
          /\ \A i \in 1 .. Len(a) : x[i] = a[i] /\ y[i] = a[i]
          /\ \A i \in 1 .. Len(old) : x[Len(a) + i] = old[i] /\ y[Len(a) + i] = new[i]
      <3>1. \A p, q \in Seq(Lines) :
                /\ Len(p \o q) = Len(p) + Len(q)
                /\ \A i \in 1 .. Len(p) : (p \o q)[i] = p[i]
                /\ \A i \in 1 .. Len(q) : (p \o q)[Len(p) + i] = q[i]
        OBVIOUS
      <3>2. new \in Seq(Lines)
        BY Zenon, <1>9
      <3>3. /\ Len(x) = Len(a) + Len(old)
            /\ \A i \in 1 .. Len(a) : x[i] = a[i]
            /\ \A i \in 1 .. Len(old) : x[Len(a) + i] = old[i]
        BY Zenon, <1>8, <3>1
      <3>4. /\ Len(y) = Len(a) + Len(new)
            /\ \A i \in 1 .. Len(a) : y[i] = a[i]
            /\ \A i \in 1 .. Len(new) : y[Len(a) + i] = new[i]
        BY Zenon, <1>8, <3>1, <3>2
      <3> HIDE DEF x, y
      <3> QED
        BY Zenon, <2>1, <3>3, <3>4
    <2> HIDE DEF x, y
    <2>3. ASSUME NEW i \in 1 .. Len(x)
          PROVE  y[i] = x[i] \/ y[i].content = 0
      <3>1. CASE i \in 1 .. Len(a)
        BY Zenon, <2>2, <3>1
      <3>2. CASE i \notin 1 .. Len(a)
        <4>1. i - Len(a) \in 1 .. Len(old) /\ Len(a) + (i - Len(a)) = i
          BY <2>1, <2>2, <3>2
        <4>2. x[Len(a) + (i - Len(a))] = old[i - Len(a)] /\ y[Len(a) + (i - Len(a))] = new[i - Len(a)]
          BY Zenon, <2>2, <4>1
        <4>3. x[i] = old[i - Len(a)] /\ y[i] = new[i - Len(a)]
          BY Zenon, <4>1, <4>2
        <4>4. Kept(i - Len(a))
          BY Zenon, <1>12, <4>1
        <4> QED
          BY Zenon, <4>3, <4>4
      <3> QED
        BY Zenon, <3>1, <3>2
    <2>4. y[Len(x)].seq = 0 /\ Len(x) # 0
      <3>1. Len(old) \in 1 .. Len(old) /\ Len(x) # 0
        BY <2>1, <2>2
      <3>2. y[Len(a) + Len(old)] = new[Len(old)]
        BY Zenon, <2>2, <3>1
      <3> QED
        BY Zenon, <2>1, <2>2, <3>1, <3>2
    <2>5. x # <<>>
      BY <2>4
    <2>6. Walked = x /\ Walked' = y
      BY Zenon, <1>4, <1>10 DEF x, y
    <2> QED
      BY Zenon, <2>2, <2>3, <2>4, <2>5, <2>6 DEF Spoiled
  <1>13. old # <<>> => Len(old) \in DOMAIN old
    BY <1>8
  <1>14. (\A i \in DOMAIN disk[w.file] : disk[w.file][i].nl) => new = Append(old, line)
    BY Zenon, <1>9, <1>13 DEF old, m
  <1> QED
    BY Zenon, <1>9, <1>11, <1>12, <1>14

-----------------------------------------------------------------------------
\* The condition on one position.
Links(lines, i) ==
    LET e == lines[i]
    IN /\ Parses(e)
       /\ e.seq = i
       /\ e.prev = IF i = 1 THEN Genesis ELSE lines[i - 1].hash
       /\ e.hash = Hash(e.prev, e.seq, e.content)

\* The chain up to a position does not depend on what follows it.
LEMMA VerifiesAppend ==
    ASSUME NEW lines \in Seq(Lines), NEW e \in Lines
    PROVE  /\ Verifies(Append(lines, e)) => Verifies(lines)
           /\ /\ Verifies(lines) /\ e.seq = Len(lines) + 1
              /\ e.prev = IF lines = <<>> THEN Genesis ELSE lines[Len(lines)].hash
              /\ e.hash = Hash(e.prev, e.seq, e.content)
              => Verifies(Append(lines, e))
  <1> DEFINE n == Len(lines)
             t == Append(lines, e)
  <1>1. /\ n \in Nat /\ DOMAIN lines = 1 .. n /\ DOMAIN t = 1 .. n + 1
        /\ (\A i \in 1 .. n : t[i] = lines[i]) /\ t[n + 1] = e /\ (n = 0 <=> lines = <<>>)
    OBVIOUS
  <1>2. Verifies(lines) <=> \A i \in 1 .. n : Links(lines, i)
    BY Zenon, <1>1 DEF Verifies, Links
  <1>3. Verifies(t) <=> \A i \in 1 .. n + 1 : Links(t, i)
    BY Zenon, <1>1 DEF Verifies, Links
  <1> HIDE DEF n, t
  <1>4. \A i \in 1 .. n : i \in 1 .. n + 1 /\ (i # 1 => i - 1 \in 1 .. n)
    BY <1>1
  <1>5. \A i \in 1 .. n : Links(t, i) <=> Links(lines, i)
    BY Zenon, <1>1, <1>4 DEF Links
  <1>6. \A i \in 1 .. n + 1 : i \in 1 .. n \/ i = n + 1
    BY <1>1
  <1>7. ASSUME e.seq = n + 1, e.prev = IF lines = <<>> THEN Genesis ELSE lines[n].hash,
               e.hash = Hash(e.prev, e.seq, e.content)
        PROVE  Links(t, n + 1)
    <2>1. (n + 1 = 1 <=> n = 0) /\ (n + 1) - 1 = n /\ n + 1 > 0 /\ (n # 0 => n \in 1 .. n)
      BY <1>1
    <2>2. Parses(t[n + 1])
      BY Zenon, <1>1, <1>7, <2>1 DEF Parses
    <2> QED
      BY Zenon, <1>1, <1>7, <2>1, <2>2 DEF Links
  <1> QED
    BY Zenon, <1>2, <1>3, <1>4, <1>5, <1>6, <1>7 DEF n, t

\* A spoiled line is found.
LEMMA SpoiledIsFound ==
    ASSUME NEW lines \in Seq(Lines), NEW after \in Seq(Lines), Spoiled(lines, after)
    PROVE  ~Verifies(after)
  <1>1. Len(lines) \in DOMAIN after
    BY DEF Spoiled
  <1>2. ~(0 > 0)
    OBVIOUS
  <1> QED
    BY Zenon, <1>1, <1>2 DEF Spoiled, Verifies, Parses

-----------------------------------------------------------------------------
\* No file was ever removed: the files are numbered in the order in which they were
\* last written, and the writer has the last one open.
LogShape ==
    /\ DOMAIN disk = 1 .. Len(mtimes) /\ \A i \in DOMAIN mtimes : mtimes[i] = i
    /\ w.up => w.linked /\ w.file = Len(mtimes)

\* What a log with these lines shows of these acknowledgements.
NoLoss(lines, acks) ==
    Verifies(lines) =>
        /\ \A i, j \in DOMAIN lines : i < j => lines[i].content < lines[j].content
        /\ \A a \in DOMAIN acks : \E i \in DOMAIN lines : lines[i].content = acks[a]

\* No line carries the number of a later call.
Within(lines, n) == \A i \in DOMAIN lines : lines[i].content <= n

\* Writes may have been refused or torn: a log that is accepted has lost nothing.
LogWhole ==
    harm \subseteq {"refuse", "tear"} =>
        LogShape /\ Within(Walked, calls) /\ NoLoss(Walked, acked)

\* Opening the log again shows the same lines.
LEMMA OpenShape ==
    ASSUME LogType, LogType', LogShape, Open
    PROVE  LogShape' /\ Walked' = Walked
  <1>1. PICK file \in 1 .. MaxFiles :
             /\ DOMAIN disk = {} => file = 1 /\ DOMAIN disk' = {1} /\ disk'[1] = <<>> /\ mtimes' = <<1>>
             /\ DOMAIN disk # {} =>
                    /\ file \in DOMAIN disk /\ (\A f \in DOMAIN disk : f <= file)
                    /\ DOMAIN disk' = DOMAIN disk /\ (\A f \in DOMAIN disk : disk'[f] = disk[f])
                    /\ mtimes' = mtimes
             /\ w'.linked /\ w'.file = file
    BY Zenon, OpenFacts
  <1>2. Len(mtimes) \in Nat /\ DOMAIN disk = 1 .. Len(mtimes)
    BY DEF LogType, LogShape
  <1>3. CASE DOMAIN disk = {}
    <2>1. 1 \in 1 .. MaxFiles /\ DOMAIN disk = 1 .. 1 - 1 /\ DOMAIN disk' = DOMAIN disk \cup {1}
      BY <1>1, <1>3
    <2>2. (\A f \in DOMAIN disk : disk'[f] = disk[f]) /\ disk'[1] = <<>>
      BY Zenon, <1>1, <1>3
    <2>3. Walked' = Walked
      BY Zenon, <2>1, <2>2, WalkedNewFile
    <2>4. /\ DOMAIN disk' = 1 .. Len(mtimes') /\ (\A i \in DOMAIN mtimes' : mtimes'[i] = i)
          /\ w'.file = Len(mtimes')
      <3>1. Len(<<1>>) = 1 /\ 1 .. 1 = {1} /\ \A i \in DOMAIN <<1>> : <<1>>[i] = i
        OBVIOUS
      <3> QED
        BY Zenon, <1>1, <1>3, <3>1
    <2> QED
      BY Zenon, <1>1, <2>3, <2>4 DEF LogShape
  <1>4. CASE DOMAIN disk # {}
    <2>1. Walked' = Walked
      BY Zenon, <1>1, <1>4, WalkedSame
    <2>2. file = Len(mtimes)
      <3>1. file \in 1 .. Len(mtimes) /\ \A f \in 1 .. Len(mtimes) : f <= file
        BY Zenon, <1>1, <1>2, <1>4
      <3> QED
        BY <1>2, <3>1
    <2> QED
      BY Zenon, <1>1, <1>4, <2>1, <2>2 DEF LogShape
  <1> QED
    BY Zenon, <1>3, <1>4

\* Rotating it does, too: the new file is the last one.
LEMMA RotateShape ==
    ASSUME LogType, LogType', LogShape, Rotate
    PROVE  /\ LogShape' /\ Walked' = Walked
           /\ Len(mtimes) + 1 \notin DOMAIN disk /\ Len(mtimes') = Len(mtimes) + 1
  <1> DEFINE n == Len(mtimes) + 1
  <1>1. /\ n \in 1 .. MaxFiles
        /\ DOMAIN disk' = DOMAIN disk \cup {n} /\ (\A f \in DOMAIN disk : disk'[f] = disk[f])
        /\ n \notin DOMAIN disk => disk'[n] = <<>> /\ mtimes' = Append(mtimes, n)
        /\ w'.linked /\ w'.file = n
    BY Zenon, RotateFacts
  <1>2. mtimes \in Seq(Nat) /\ DOMAIN disk = 1 .. Len(mtimes) /\ \A i \in DOMAIN mtimes : mtimes[i] = i
    BY Zenon DEF LogType, LogShape
  <1>3. n \notin DOMAIN disk /\ DOMAIN disk = 1 .. n - 1 /\ DOMAIN disk \cup {n} = 1 .. n
    BY <1>2
  <1>4. mtimes' = Append(mtimes, n) /\ disk'[n] = <<>>
    BY Zenon, <1>1, <1>3
  <1>5. Len(mtimes') = n /\ \A i \in DOMAIN mtimes' : mtimes'[i] = i
    BY <1>2, <1>4
  <1> HIDE DEF n
  <1>6. Walked' = Walked
    BY Zenon, <1>1, <1>3, <1>4, WalkedNewFile
  <1>7. LogShape'
    BY Zenon, <1>1, <1>3, <1>5 DEF LogShape
  <1> QED
    BY Zenon, <1>3, <1>5, <1>6, <1>7 DEF n

\* A write keeps the order of the files: it goes to the last one.
LEMMA PutShape ==
    ASSUME LogType, LogShape, w.up, NEW line \in Lines, PutLine(line)
    PROVE  /\ DOMAIN disk' = 1 .. Len(mtimes') /\ \A i \in DOMAIN mtimes' : mtimes'[i] = i
           /\ Len(mtimes') = Len(mtimes) /\ Len(mtimes) \in DOMAIN disk
  <1>1. /\ mtimes \in Seq(Nat) /\ DOMAIN disk = 1 .. Len(mtimes) /\ (\A i \in DOMAIN mtimes : mtimes[i] = i)
        /\ w.linked /\ w.file = Len(mtimes) /\ w.file \in DOMAIN disk
    BY Zenon DEF LogType, LogShape
  <1>2. mtimes' = Touched(w.file)
    BY Zenon, <1>1 DEF PutLine
  <1>3. DOMAIN disk' = DOMAIN disk /\ Len(mtimes') = Len(mtimes)
    BY Zenon, PutLineFacts
  <1> DEFINE at == CHOOSE i \in DOMAIN mtimes : mtimes[i] = w.file
  <1>4. at = Len(mtimes)
    <2>1. Len(mtimes) \in DOMAIN mtimes
      BY <1>1
    <2>2. at \in DOMAIN mtimes /\ mtimes[at] = w.file
      BY Zenon, <1>1, <2>1
    <2> QED
      BY Zenon, <1>1, <2>2
  <1>5. Touched(w.file) = [i \in DOMAIN mtimes |-> IF i = Len(mtimes) THEN w.file
                                                   ELSE IF i < at THEN mtimes[i] ELSE mtimes[i + 1]]
    BY Zenon DEF Touched
  <1> HIDE DEF at
  <1>6. \A i \in DOMAIN mtimes : i = Len(mtimes) \/ i < at
    BY <1>1, <1>4
  <1>7. \A i \in DOMAIN mtimes' : mtimes'[i] = i
    <2> SUFFICES ASSUME NEW i \in DOMAIN Touched(w.file)
                 PROVE  Touched(w.file)[i] = i
      BY Zenon, <1>2
    <2>1. i \in DOMAIN mtimes
      BY Zenon, <1>5
    <2> QED
      BY Zenon, <1>1, <1>5, <1>6, <2>1
  <1> QED
    BY Zenon, <1>1, <1>3, <1>7

-----------------------------------------------------------------------------
\* The numbers of a line.
LEMMA LineNumbers == \A e \in Lines : e.seq \in Nat /\ e.content \in Nat
  BY DEF Lines

\* A further line with the number of the call in it, or one that does not parse,
\* hides no loss.
LEMMA NoLossAppend ==
    ASSUME NEW lines \in Seq(Lines), NEW e \in Lines, NEW c \in Nat, NEW acks \in Seq(Nat),
           Within(lines, c), NoLoss(lines, acks), (e.seq = 0 /\ e.content = 0) \/ e.content = c + 1
    PROVE  /\ Within(Append(lines, e), c + 1) /\ NoLoss(Append(lines, e), acks)
           /\ e.content = c + 1 => NoLoss(Append(lines, e), Append(acks, c + 1))
  <1> DEFINE n == Len(lines)
             t == Append(lines, e)
             b == Append(acks, c + 1)
  <1>1. /\ n \in Nat /\ DOMAIN lines = 1 .. n /\ DOMAIN t = 1 .. n + 1
        /\ (\A i \in 1 .. n : t[i] = lines[i] /\ lines[i].content \in Nat) /\ t[n + 1] = e
    <2>1. /\ n \in Nat /\ DOMAIN lines = 1 .. n /\ DOMAIN t = 1 .. n + 1
          /\ (\A i \in 1 .. n : t[i] = lines[i] /\ lines[i] \in Lines) /\ t[n + 1] = e
      OBVIOUS
    <2> HIDE DEF n, t
    <2> QED
      BY Zenon, <2>1, LineNumbers
  <1>2. /\ DOMAIN b = 1 .. Len(acks) + 1 /\ b[Len(acks) + 1] = c + 1 /\ Len(acks) \in Nat
        /\ DOMAIN acks = 1 .. Len(acks) /\ \A a \in DOMAIN acks : b[a] = acks[a]
    OBVIOUS
  <1>3. Verifies(t) => Verifies(lines) /\ e.content = c + 1
    <2>1. Verifies(t) => Verifies(lines)
      BY Zenon, VerifiesAppend
    <2>2. Verifies(t) => e.seq > 0
      <3>1. n + 1 \in DOMAIN t
        BY <1>1
      <3> QED
        BY Zenon, <1>1, <3>1 DEF Verifies, Parses
    <2>3. Verifies(t) => e.seq # 0
      BY <2>2
    <2> QED
      BY Zenon, <2>1, <2>3
  <1> HIDE DEF n, t, b
  <1>4. Within(t, c + 1)
    <2> SUFFICES ASSUME NEW i \in 1 .. n + 1
                 PROVE  t[i].content <= c + 1
      BY Zenon, <1>1 DEF Within
    <2>1. CASE i \in 1 .. n
      <3>1. lines[i].content <= c /\ lines[i].content \in Nat /\ t[i] = lines[i]
        BY Zenon, <1>1, <2>1 DEF Within
      <3> QED
        BY <3>1
    <2>2. CASE i = n + 1
      <3>1. t[i].content = 0 \/ t[i].content = c + 1
        BY Zenon, <1>1, <2>2
      <3> QED
        BY <3>1
    <2> QED
      BY <1>1, <2>1, <2>2
  <1>5. ASSUME Verifies(t), NEW i \in DOMAIN t, NEW j \in DOMAIN t, i < j
        PROVE  t[i].content < t[j].content
    <2>1. i \in 1 .. n /\ (j \in 1 .. n \/ j = n + 1)
      BY <1>1, <1>5
    <2>2. CASE j \in 1 .. n
      BY Zenon, <1>1, <1>3, <1>5, <2>1, <2>2 DEF NoLoss
    <2>3. CASE j = n + 1
      <3>1. lines[i].content <= c /\ lines[i].content \in Nat /\ t[i] = lines[i]
        BY Zenon, <1>1, <2>1 DEF Within
      <3>2. t[j].content = c + 1
        BY Zenon, <1>1, <1>3, <1>5, <2>3
      <3> QED
        BY <3>1, <3>2
    <2> QED
      BY Zenon, <2>1, <2>2, <2>3
  <1>6. ASSUME Verifies(t), NEW a \in DOMAIN acks
        PROVE  \E i \in DOMAIN t : t[i].content = acks[a]
    <2>1. PICK i \in DOMAIN lines : lines[i].content = acks[a]
      BY Zenon, <1>3, <1>6 DEF NoLoss
    <2>2. i \in DOMAIN t /\ i \in 1 .. n
      BY <1>1
    <2> QED
      BY Zenon, <1>1, <2>1, <2>2
  <1>7. ASSUME Verifies(t), NEW a \in DOMAIN b
        PROVE  \E i \in DOMAIN t : t[i].content = b[a]
    <2>1. a \in DOMAIN acks \/ a = Len(acks) + 1
      BY <1>2
    <2>2. CASE a \in DOMAIN acks
      BY Zenon, <1>2, <1>6, <1>7, <2>2
    <2>3. CASE a = Len(acks) + 1
      <3>1. n + 1 \in DOMAIN t
        BY <1>1
      <3> QED
        BY Zenon, <1>1, <1>2, <1>3, <1>7, <2>3, <3>1
    <2> QED
      BY Zenon, <2>1, <2>2, <2>3
  <1> QED
    BY Zenon, <1>4, <1>5, <1>6, <1>7 DEF NoLoss, t, b

\* The same for a write that may have run into the line before it.
LEMMA NoLossPut ==
    ASSUME LogType, LogType', LogShape, w.up, Within(Walked, calls), NoLoss(Walked, acked),
           NEW line \in Lines, PutLine(line),
           (line.seq = 0 /\ line.content = 0) \/ line.content = calls + 1
    PROVE  /\ Within(Walked', calls + 1) /\ NoLoss(Walked', acked)
           /\ line.content = calls + 1 => NoLoss(Walked', Append(acked, calls + 1))
  <1>1. calls \in Nat /\ acked \in Seq(Nat) /\ w.linked /\ w.file = Len(mtimes) /\ DOMAIN disk = 1 .. Len(mtimes)
    BY Zenon DEF LogType, LogShape
  <1>2. Walked \in Seq(Lines) /\ DOMAIN Walked = 1 .. Len(Walked) /\ Len(Walked) \in Nat
    BY Zenon, WalkedFacts
  <1>3. Walked' \in Seq(Lines)
    <2>1. MaxFiles \in Nat
      BY ProvenanceAssumption
    <2>2. FilesOf(disk', Lines)
      BY Zenon DEF LogType
    <2> QED
      BY Zenon, <2>1, <2>2, JoinedType DEF Walked
  <1>4. CASE Walked' = Append(Walked, line)
    BY <1>1, <1>2, <1>4, NoLossAppend
  <1>5. CASE /\ Spoiled(Walked, Walked')
             /\ \A i \in 1 .. Len(Walked) : Walked'[i] = Walked[i] \/ Walked'[i].content = 0
    <2>1. ~Verifies(Walked')
      BY Zenon, <1>2, <1>3, <1>5, SpoiledIsFound
    <2>2. DOMAIN Walked' = DOMAIN Walked
      BY <1>2, <1>3, <1>5 DEF Spoiled
    <2>3. ASSUME NEW i \in DOMAIN Walked
          PROVE  Walked'[i].content <= calls + 1
      <3>1. Walked[i].content <= calls /\ (Walked'[i] = Walked[i] \/ Walked'[i].content = 0)
        BY Zenon, <1>2, <1>5, <2>3 DEF Within
      <3>2. Walked[i].content \in Nat
        <4>1. Walked[i] \in Lines
          BY <1>2
        <4> QED
          BY Zenon, <4>1, LineNumbers
      <3>3. Walked'[i].content = Walked[i].content \/ Walked'[i].content = 0
        BY Zenon, <3>1
      <3> QED
        BY <1>1, <3>1, <3>2, <3>3
    <2> QED
      BY Zenon, <2>1, <2>2, <2>3 DEF NoLoss, Within
  <1> QED
    BY Zenon, <1>1, <1>4, <1>5, WalkedPut

-----------------------------------------------------------------------------
\* A torn line does not parse, or carries the number of the call.
LEMMA TornFacts ==
    ASSUME LogType, NEW line \in Torn(NextLine)
    PROVE  line \in Lines /\ ((line.seq = 0 /\ line.content = 0) \/ line.content = calls + 1)
  <1>1. NextLine \in Lines /\ NextLine.content = calls + 1 /\ line \in Lines
    BY Zenon, NextLineFacts
  <1>2. line = [Garbage EXCEPT !.nl = FALSE] \/ line = [NextLine EXCEPT !.nl = FALSE]
    BY Zenon DEF Torn
  <1>3. [Garbage EXCEPT !.nl = FALSE].seq = 0 /\ [Garbage EXCEPT !.nl = FALSE].content = 0
    BY DEF Garbage
  <1>4. \A e \in Lines : [e EXCEPT !.nl = FALSE].content = e.content
    BY DEF Lines
  <1> QED
    BY Zenon, <1>1, <1>2, <1>3, <1>4

\* While no file was removed, a log that is accepted has lost nothing.
LEMMA WholeStep ==
    ASSUME LogType, LogType', LogWhole, [ProvenanceNext]_provenanceVars
    PROVE  LogWhole'
  <1> SUFFICES ASSUME harm' \subseteq {"refuse", "tear"}
               PROVE  LogShape' /\ Within(Walked, calls)' /\ NoLoss(Walked, acked)'
    BY Zenon DEF LogWhole
  <1> DEFINE Held == LogShape /\ Within(Walked, calls) /\ NoLoss(Walked, acked)
  <1>1. harm \subseteq harm' => Held
    BY Zenon DEF LogWhole
  <1>2. calls \in Nat
    BY Zenon DEF LogType
  <1>3. ASSUME NEW lines \in Seq(Lines), Within(lines, calls)
        PROVE  Within(lines, calls + 1)
    <2> SUFFICES ASSUME NEW i \in DOMAIN lines
                 PROVE  lines[i].content <= calls + 1
      BY Zenon DEF Within
    <2>1. lines[i] \in Lines
      OBVIOUS
    <2>2. lines[i].content \in Nat /\ lines[i].content <= calls
      BY Zenon, <1>3, <2>1, LineNumbers DEF Within
    <2> QED
      BY <1>2, <2>2
  <1>4. ASSUME UNCHANGED <<disk, mtimes, calls, acked>>, ~w'.up \/ w' = w, harm \subseteq harm'
        PROVE  Held'
    <2>1. Walked' = Walked
      BY Zenon, <1>4 DEF Walked
    <2> QED
      BY Zenon, <1>1, <1>4, <2>1 DEF LogShape
  <1>5. CASE Open
    <2>1. harm' = harm /\ calls' = calls /\ acked' = acked
      BY Zenon, <1>5 DEF Open
    <2>2. Held
      BY Zenon, <1>1, <2>1
    <2> QED
      BY Zenon, <1>5, <2>1, <2>2, OpenShape
  <1>6. CASE Rotate
    <2>1. harm' = harm /\ calls' = calls /\ acked' = acked
      BY Zenon, <1>6 DEF Rotate
    <2>2. Held
      BY Zenon, <1>1, <2>1
    <2> QED
      BY Zenon, <1>6, <2>1, <2>2, RotateShape
  <1>7. CASE AppendOk
    <2>1. /\ PutLine(NextLine) /\ acked' = Append(acked, calls + 1) /\ harm' = harm /\ w.up /\ calls' = calls + 1
          /\ w'.up = w.up /\ w'.linked = w.linked /\ w'.file = w.file
      BY Zenon, <1>7, AppendFacts
    <2>2. Held
      BY Zenon, <1>1, <2>1
    <2>3. NextLine \in Lines /\ NextLine.content = calls + 1
      BY Zenon, NextLineFacts
    <2>4. LogShape'
      BY Zenon, <2>1, <2>2, <2>3, PutShape DEF LogShape
    <2>5. Within(Walked', calls + 1) /\ NoLoss(Walked', Append(acked, calls + 1))
      BY Zenon, <2>1, <2>2, <2>3, NoLossPut
    <2> QED
      BY Zenon, <2>1, <2>4, <2>5
  <1>8. ASSUME NEW line \in Torn(NextLine), PutLine(line), w.up, calls' = calls + 1, acked' = acked, Held
        PROVE  /\ Within(Walked, calls)' /\ NoLoss(Walked, acked)'
               /\ DOMAIN disk' = 1 .. Len(mtimes') /\ (\A i \in DOMAIN mtimes' : mtimes'[i] = i)
               /\ Len(mtimes') = Len(mtimes)
    <2>1. line \in Lines /\ ((line.seq = 0 /\ line.content = 0) \/ line.content = calls + 1)
      BY Zenon, TornFacts
    <2>2. Within(Walked', calls + 1) /\ NoLoss(Walked', acked)
      BY Zenon, <1>8, <2>1, NoLossPut
    <2> QED
      BY Zenon, <1>8, <2>1, <2>2, PutShape
  <1>9. CASE AppendFails
    <2>1. /\ (\E line \in Torn(NextLine) : PutLine(line)) \/ UNCHANGED <<disk, mtimes>>
          /\ acked' = acked /\ harm' = harm \cup {"refuse"} /\ w.up /\ calls' = calls + 1
          /\ w'.up = w.up /\ w'.linked = w.linked /\ w'.file = w.file
      BY Zenon, <1>9, FailFacts
    <2>2. Held
      BY Zenon, <1>1, <2>1
    <2>3. CASE \E line \in Torn(NextLine) : PutLine(line)
      BY Zenon, <1>8, <2>1, <2>2, <2>3 DEF LogShape
    <2>4. CASE UNCHANGED <<disk, mtimes>>
      <3>1. Walked' = Walked
        BY Zenon, <2>4 DEF Walked
      <3>2. Within(Walked, calls + 1)
        BY Zenon, <1>3, <2>2, WalkedFacts
      <3> QED
        BY Zenon, <2>1, <2>2, <2>4, <3>1, <3>2 DEF LogShape
    <2> QED
      BY Zenon, <2>1, <2>3, <2>4
  <1>10. CASE Crash
    <2>1. UNCHANGED <<disk, mtimes, calls, acked>> /\ w' = Closed /\ harm \subseteq harm'
      BY Zenon, <1>10 DEF Crash
    <2> QED
      BY Zenon, <1>4, <2>1, ClosedFacts
  <1>11. CASE CrashInWrite
    <2>1. /\ (\E line \in Torn(NextLine) : PutLine(line)) /\ acked' = acked /\ w.up /\ calls' = calls + 1
          /\ w' = Closed /\ harm \subseteq harm'
      BY Zenon, <1>11 DEF CrashInWrite, Put
    <2>2. Held
      BY Zenon, <1>1, <2>1
    <2> QED
      BY Zenon, <1>8, <2>1, <2>2, ClosedFacts DEF LogShape
  <1>12. CASE Reclaim
    <2>1. \E h \in {"emptied", "reclaim"} : h \in harm'
      BY Zenon, <1>12 DEF Reclaim
    <2> QED
      BY <2>1
  <1>13. CASE Expire
    <2>1. "expire" \in harm'
      BY Zenon, <1>13 DEF Expire
    <2> QED
      BY <2>1
  <1>14. CASE Done \/ UNCHANGED provenanceVars
    BY Zenon, <1>4, <1>14 DEF Done, provenanceVars
  <1> QED
    BY Zenon, <1>5, <1>6, <1>7, <1>9, <1>10, <1>11, <1>12, <1>13, <1>14
       DEF ProvenanceNext

-----------------------------------------------------------------------------
\* The writer is at the end of the log.
AtEnd ==
    w.up => /\ w.seq = Len(Walked)
            /\ w.last = IF Walked = <<>> THEN Genesis ELSE Walked[Len(Walked)].hash
            /\ w.size = Len(disk[w.file])

\* Every line is a whole entry, and none behind the first file is the first of the log.
Entries ==
    \A f \in DOMAIN disk : \A i \in DOMAIN disk[f] :
        disk[f][i].nl /\ disk[f][i].seq > 0 /\ (f > 1 => disk[f][i].seq > 1)

\* Only a file that was just begun is empty.
Begun ==
    /\ \A f \in DOMAIN disk : disk[f] = <<>> => f = Len(mtimes) /\ (f = 1 \/ w.rotated)
    /\ Len(mtimes) > 1 => Walked # <<>>

\* No fault has happened: the log is what was acknowledged, and the writer is at its end.
LogClean == harm = {} => AckedVerifies /\ AtEnd /\ Entries /\ Begun

\* The last line of the log is the last line of its last file.
LEMMA WalkedLast ==
    ASSUME LogType, LogShape, Len(mtimes) # 0
    PROVE  LET last == disk[Len(mtimes)]
           IN  /\ last # <<>> => Walked # <<>> /\ Walked[Len(Walked)] = last[Len(last)]
               /\ last = <<>> /\ Len(mtimes) = 1 => Walked = <<>>
  <1> DEFINE m == Len(mtimes)
             a == Joined(disk, m - 1)
             last == disk[m]
  <1>1. FilesOf(disk, Lines) /\ DOMAIN disk \subseteq 1 .. MaxFiles /\ mtimes \in Seq(Nat) /\ DOMAIN disk = 1 .. m
    BY Zenon DEF LogType, LogShape
  <1>2. /\ MaxFiles \in Nat /\ m \in Nat /\ m \in DOMAIN disk /\ m - 1 \in Nat /\ m # 0 /\ m <= MaxFiles
        /\ \A f \in DOMAIN disk : f <= m
    BY <1>1, ProvenanceAssumption
  <1>3. m = 1 => m - 1 = 0
    OBVIOUS
  <1> HIDE DEF m
  <1>4. Walked = a \o last
    BY Zenon, <1>1, <1>2, JoinedAtLast DEF Walked
  <1>5. a \in Seq(Lines) /\ last \in Seq(Lines)
    BY Zenon, <1>1, <1>2, JoinedType DEF FilesOf
  <1>6. m = 1 => a = <<>>
    BY Zenon, <1>3, JoinedNone
  <1> HIDE DEF a, last
  <1>7. last # <<>> => a \o last # <<>> /\ (a \o last)[Len(a \o last)] = last[Len(last)]
    BY <1>5
  <1>8. <<>> \o <<>> = <<>>
    OBVIOUS
  <1> QED
    BY Zenon, <1>4, <1>6, <1>7, <1>8 DEF last, m

\* An entry that is appended in order belongs to the log it is appended to.
LEMMA AckedAppend ==
    ASSUME NEW lines \in Seq(Lines), NEW e \in Lines, NEW acks,
           acks = [i \in DOMAIN lines |-> lines[i].content]
    PROVE  Append(acks, e.content) = [i \in DOMAIN Append(lines, e) |-> Append(lines, e)[i].content]
  <1> DEFINE n == Len(lines)
             t == Append(lines, e)
             b == [i \in DOMAIN t |-> t[i].content]
             c == Append(acks, e.content)
  <1>1. /\ n \in Nat /\ DOMAIN lines = 1 .. n /\ DOMAIN t = 1 .. n + 1
        /\ (\A i \in 1 .. n : t[i] = lines[i] /\ lines[i] \in Lines) /\ t[n + 1] = e
    OBVIOUS
  <1>2. \A i \in 1 .. n : lines[i].content \in Nat
    BY Zenon, <1>1, LineNumbers
  <1>3. e.content \in Nat
    BY Zenon, LineNumbers
  <1> HIDE DEF n, t
  <1>4. acks \in Seq(Nat) /\ Len(acks) = n /\ \A i \in 1 .. n : acks[i] = lines[i].content
    BY <1>1, <1>2
  <1>5. c \in Seq(Nat) /\ Len(c) = n + 1 /\ (\A i \in 1 .. n : c[i] = acks[i]) /\ c[n + 1] = e.content
    BY <1>3, <1>4
  <1>6. DOMAIN b = 1 .. n + 1 /\ \A i \in 1 .. n + 1 : b[i] = t[i].content
    BY Zenon, <1>1
  <1>7. b = [i \in 1 .. n + 1 |-> b[i]]
    BY Zenon, <1>6
  <1>8. DOMAIN c = 1 .. n + 1 /\ c = [i \in 1 .. n + 1 |-> c[i]]
    BY <1>1, <1>5
  <1> HIDE DEF b, c
  <1>9. ASSUME NEW i \in 1 .. n + 1
        PROVE  c[i] = b[i]
    <2>1. CASE i \in 1 .. n
      <3>1. c[i] = lines[i].content
        BY Zenon, <1>4, <1>5, <2>1
      <3>2. b[i] = t[i].content /\ t[i] = lines[i]
        BY Zenon, <1>1, <1>6, <2>1
      <3> QED
        BY Zenon, <3>1, <3>2
    <2>2. CASE i = n + 1
      BY Zenon, <1>1, <1>5, <1>6, <2>2
    <2> QED
      BY <1>1, <2>1, <2>2
  <1>10. c = b
    BY Zenon, <1>7, <1>8, <1>9
  <1> QED
    BY Zenon, <1>10 DEF c, b, t

\* What append writes to a log that no fault has touched.
LEMMA CleanAppend ==
    ASSUME LogType, LogType', LogShape, LogClean, harm = {}, AppendOk
    PROVE  /\ Walked' = Append(Walked, NextLine) /\ Walked' # <<>> /\ Len(Walked') = Len(Walked) + 1
           /\ Walked'[Len(Walked')] = NextLine
           /\ disk'[w.file] = Append(disk[w.file], NextLine)
           /\ NextLine.seq = Len(Walked) + 1
           /\ AckedVerifies'
  <1>1. /\ PutLine(NextLine) /\ acked' = Append(acked, calls + 1) /\ w.up
    BY Zenon, AppendFacts
  <1>2. /\ NextLine \in Lines /\ NextLine.seq = w.seq + 1 /\ NextLine.content = calls + 1
        /\ NextLine.prev = w.last /\ NextLine.hash = Hash(w.last, w.seq + 1, calls + 1)
    BY Zenon, NextLineFacts
  <1>3. w.linked /\ w.file = Len(mtimes) /\ DOMAIN disk = 1 .. Len(mtimes) /\ w.file \in DOMAIN disk
    BY Zenon, <1>1 DEF LogShape, LogType
  <1>4. /\ w.seq = Len(Walked) /\ (w.last = IF Walked = <<>> THEN Genesis ELSE Walked[Len(Walked)].hash)
        /\ (\A i \in DOMAIN disk[w.file] : disk[w.file][i].nl)
        /\ Verifies(Walked) /\ acked = [i \in DOMAIN Walked |-> Walked[i].content]
    BY Zenon, <1>1, <1>3 DEF LogClean, AtEnd, Entries, AckedVerifies, verify_chain
  <1>5. Walked' = Append(Walked, NextLine)
    BY Zenon, <1>1, <1>2, <1>3, <1>4, WalkedPut
  <1>6. Walked \in Seq(Lines)
    BY Zenon, WalkedFacts
  <1>7. \A q \in Seq(Lines), x \in Lines :
            Append(q, x) # <<>> /\ Len(Append(q, x)) = Len(q) + 1 /\ Append(q, x)[Len(q) + 1] = x
    OBVIOUS
  <1>8. Walked' # <<>> /\ Len(Walked') = Len(Walked) + 1 /\ Walked'[Len(Walked')] = NextLine
    BY Zenon, <1>2, <1>5, <1>6, <1>7
  <1>9. Verifies(Walked')
    <2>1. /\ NextLine.seq = Len(Walked) + 1
          /\ NextLine.prev = IF Walked = <<>> THEN Genesis ELSE Walked[Len(Walked)].hash
          /\ NextLine.hash = Hash(NextLine.prev, NextLine.seq, NextLine.content)
      BY Zenon, <1>2, <1>4
    <2> QED
      BY Zenon, <1>2, <1>4, <1>5, <1>6, <2>1, VerifiesAppend
  <1>10. acked' = [i \in DOMAIN Walked' |-> Walked'[i].content]
    <2>1. Append(acked, NextLine.content) =
              [i \in DOMAIN Append(Walked, NextLine) |-> Append(Walked, NextLine)[i].content]
      BY Zenon, <1>2, <1>4, <1>6, AckedAppend
    <2> QED
      BY Zenon, <1>1, <1>2, <1>5, <2>1
  <1>11. disk'[w.file] = Append(disk[w.file], NextLine)
    <2>1. disk[w.file] \in Seq(Lines)
      BY Zenon, <1>3 DEF LogType, FilesOf
    <2>2. disk[w.file] # <<>> => Len(disk[w.file]) \in DOMAIN disk[w.file]
      BY <2>1
    <2>3. Written(disk[w.file], NextLine) = Append(disk[w.file], NextLine)
      BY Zenon, <1>4, <2>2 DEF Written
    <2> QED
      BY Zenon, <1>1, <1>2, <1>3, <2>3, PutLineFacts
  <1> QED
    BY Zenon, <1>2, <1>4, <1>5, <1>8, <1>9, <1>10, <1>11 DEF AckedVerifies, verify_chain

\* Without a fault every step keeps the log equal to what was acknowledged.
LEMMA CleanStep ==
    ASSUME LogType, LogType', LogWhole, LogClean, [ProvenanceNext]_provenanceVars
    PROVE  LogClean'
  <1> SUFFICES ASSUME harm' = {}
               PROVE  AckedVerifies' /\ AtEnd' /\ Entries' /\ Begun'
    BY Zenon DEF LogClean
  <1> DEFINE Clean == harm = {} /\ LogShape /\ AckedVerifies /\ AtEnd /\ Entries /\ Begun
  <1>1. harm \subseteq harm' => Clean
    BY Zenon DEF LogClean, LogWhole
  <1>2. /\ mtimes \in Seq(Nat) /\ (w.rotated => w.up) /\ FilesOf(disk, Lines) /\ w \in Writers
        /\ Walked \in Seq(Lines) /\ DOMAIN disk \subseteq Nat
    BY Zenon, WalkedFacts DEF LogType, FilesOf
  <1>3. ASSUME Walked' = Walked, acked' = acked, Clean
        PROVE  AckedVerifies'
    BY Zenon, <1>3 DEF AckedVerifies, verify_chain
  <1>4. CASE Open
    <2>1. harm' = harm /\ acked' = acked /\ ~w.up
      BY Zenon, <1>4 DEF Open
    <2>2. Clean
      BY Zenon, <1>1, <2>1
    <2>3. LogShape' /\ Walked' = Walked
      BY Zenon, <1>4, <2>2, OpenShape
    <2>4. PICK file \in 1 .. MaxFiles :
             /\ DOMAIN disk = {} => /\ file = 1 /\ DOMAIN disk' = {1} /\ disk'[1] = <<>>
                                    /\ mtimes' = <<1>> /\ w'.seq = 0 /\ w'.last = Genesis
             /\ DOMAIN disk # {} =>
                    /\ file \in DOMAIN disk /\ (\A f \in DOMAIN disk : f <= file)
                    /\ DOMAIN disk' = DOMAIN disk /\ (\A f \in DOMAIN disk : disk'[f] = disk[f])
                    /\ mtimes' = mtimes
                    /\ w'.seq = ScanOf(disk[file])[1] /\ w'.last = ScanOf(disk[file])[2]
             /\ w'.up /\ w'.file = file /\ w'.size = Len(disk'[file])
      BY Zenon, <1>4, OpenFacts
    <2>5. AckedVerifies'
      BY Zenon, <1>3, <2>1, <2>2, <2>3
    <2>6. CASE DOMAIN disk = {}
      <3>1. Len(mtimes') = 1 /\ ~(1 > 1)
        BY <2>4, <2>6
      <3>2. 0 \in Nat /\ 0 <= MaxFiles
        BY ProvenanceAssumption
      <3>3. Walked = <<>> /\ Len(<<>>) = 0
        <4>1. MaxFiles \in Nat
          BY ProvenanceAssumption
        <4>2. Joined(disk, MaxFiles) = Joined(disk, 0)
          BY Zenon, <1>2, <2>6, <3>2, <4>1, JoinedStops
        <4>3. Len(<<>>) = 0
          OBVIOUS
        <4> QED
          BY Zenon, <4>2, <4>3, JoinedNone DEF Walked
      <3>4. AtEnd'
        BY Zenon, <2>3, <2>4, <2>6, <3>3 DEF AtEnd
      <3>5. DOMAIN <<>> = {}
        OBVIOUS
      <3>6. Entries'
        BY Zenon, <2>4, <2>6, <3>5 DEF Entries
      <3>7. Begun'
        BY Zenon, <2>4, <2>6, <3>1 DEF Begun
      <3> QED
        BY Zenon, <2>5, <3>4, <3>6, <3>7
    <2>7. CASE DOMAIN disk # {}
      <3>1. Entries' /\ Begun'
        BY Zenon, <1>2, <2>1, <2>2, <2>3, <2>4, <2>7 DEF Entries, Begun
      <3>2. file = Len(mtimes) /\ Len(mtimes) # 0
        <4>1. w'.file = Len(mtimes') /\ DOMAIN disk = 1 .. Len(mtimes)
          BY Zenon, <2>2, <2>3, <2>4 DEF LogShape
        <4>2. Len(mtimes) # 0
          BY <2>7, <4>1
        <4> QED
          BY Zenon, <2>4, <2>7, <4>1, <4>2
      <3> DEFINE last == disk[file]
      <3>3. last \in Seq(Lines) /\ disk'[file] = last
        BY Zenon, <1>2, <2>4, <2>7 DEF FilesOf
      <3>4. \A i \in DOMAIN last : last[i].seq > 0
        BY Zenon, <2>2, <2>4, <2>7 DEF Entries
      <3>5. last = <<>> => Walked = <<>>
        <4>1. last = <<>> => file = 1
          BY Zenon, <1>2, <2>1, <2>2, <2>4, <2>7 DEF Begun
        <4> QED
          BY Zenon, <2>2, <3>2, <4>1, WalkedLast
      <3>6. last # <<>> => Walked # <<>> /\ Walked[Len(Walked)] = last[Len(last)]
        BY Zenon, <2>2, <3>2, WalkedLast
      <3> HIDE DEF last
      <3>7. DOMAIN last = 1 .. Len(last)
        BY <3>3
      <3>8. CASE last = <<>>
        <4>1. ScanOf(last) = <<0, Genesis>>
          BY Zenon, <3>3, <3>8, ScanFacts
        <4>2. w'.seq = 0 /\ w'.last = Genesis
          BY <2>4, <2>7, <4>1 DEF last
        <4>3. Len(<<>>) = 0
          OBVIOUS
        <4> QED
          BY Zenon, <2>3, <2>4, <2>5, <3>1, <3>5, <3>8, <4>2, <4>3 DEF AtEnd
      <3>9. CASE last # <<>>
        <4>1. ScanOf(last) = <<last[Len(last)].seq, last[Len(last)].hash>>
          BY Zenon, <3>3, <3>4, <3>7, <3>9, ScanFacts
        <4>2. w'.seq = last[Len(last)].seq /\ w'.last = last[Len(last)].hash
          BY <2>4, <2>7, <4>1 DEF last
        <4>3. Len(Walked) \in DOMAIN Walked
          BY <1>2, <3>6, <3>9
        <4>4. Walked[Len(Walked)].seq = Len(Walked)
          BY Zenon, <2>2, <4>3 DEF AckedVerifies, verify_chain, Verifies
        <4> QED
          BY Zenon, <2>3, <2>4, <2>5, <3>1, <3>6, <3>9, <4>2, <4>4 DEF AtEnd
      <3> QED
        BY Zenon, <3>8, <3>9
    <2> QED
      BY Zenon, <2>6, <2>7
  <1>5. CASE Rotate
    <2> DEFINE n == Len(mtimes) + 1
    <2>1. harm' = harm /\ acked' = acked
      BY Zenon, <1>5 DEF Rotate
    <2>2. Clean
      BY Zenon, <1>1, <2>1
    <2>3. LogShape' /\ Walked' = Walked /\ n \notin DOMAIN disk /\ Len(mtimes') = n
      BY Zenon, <1>5, <2>2, RotateShape
    <2>4. /\ DOMAIN disk' = DOMAIN disk \cup {n} /\ (\A f \in DOMAIN disk : disk'[f] = disk[f])
          /\ disk'[n] = <<>> /\ w'.rotated
          /\ w'.file = n /\ w'.size = 0 /\ w'.seq = w.seq /\ w'.last = w.last
          /\ w.up /\ w.size >= MaxLines
      BY Zenon, <1>5, <2>3, RotateFacts
    <2> HIDE DEF n
    <2>5. AckedVerifies'
      BY Zenon, <1>3, <2>1, <2>2, <2>3
    <2>6. Len(<<>>) = 0 /\ DOMAIN <<>> = {}
      OBVIOUS
    <2>7. AtEnd'
      BY Zenon, <2>2, <2>3, <2>4, <2>6 DEF AtEnd
    <2>8. Entries'
      BY Zenon, <2>2, <2>4, <2>6 DEF Entries
    <2>9. w.size # 0
      BY <2>4, ProvenanceAssumption
    <2>10. w.file = Len(mtimes) /\ disk[w.file] # <<>> /\ w.file \in DOMAIN disk
      BY Zenon, <2>2, <2>4, <2>6, <2>9 DEF AtEnd, LogShape, LogType
    <2>11. Len(mtimes) # 0
      <3>1. DOMAIN disk = 1 .. Len(mtimes)
        BY Zenon, <2>2 DEF LogShape
      <3> QED
        BY <2>10, <3>1
    <2>12. Walked # <<>>
      BY Zenon, <2>2, <2>10, <2>11, WalkedLast
    <2>13. Begun'
      BY Zenon, <2>2, <2>3, <2>4, <2>10, <2>12 DEF Begun
    <2> QED
      BY Zenon, <2>5, <2>7, <2>8, <2>13
  <1>6. CASE AppendOk
    <2>1. /\ PutLine(NextLine) /\ harm' = harm /\ w.up
          /\ w'.up = w.up /\ w'.file = w.file
          /\ w'.seq = w.seq + 1 /\ w'.last = NextLine.hash /\ w'.size = w.size + 1
      BY Zenon, <1>6, AppendFacts
    <2>2. Clean
      BY Zenon, <1>1, <2>1
    <2>3. /\ Walked' # <<>> /\ Len(Walked') = Len(Walked) + 1 /\ Walked'[Len(Walked')] = NextLine
          /\ disk'[w.file] = Append(disk[w.file], NextLine) /\ NextLine.seq = Len(Walked) + 1
          /\ AckedVerifies'
      BY Zenon, <1>6, <2>2, CleanAppend DEF LogClean
    <2>4. NextLine \in Lines /\ NextLine.nl
      BY Zenon, NextLineFacts
    <2>5. Len(mtimes') = Len(mtimes)
      BY Zenon, <2>1, <2>2, <2>4, PutShape
    <2>6. /\ DOMAIN disk' = DOMAIN disk /\ (\A f \in DOMAIN disk : f # w.file => disk'[f] = disk[f])
          /\ w.file \in DOMAIN disk /\ w.file = Len(mtimes)
      BY Zenon, <2>1, <2>2, <2>4, PutLineFacts DEF LogShape, LogType
    <2> DEFINE old == disk[w.file]
    <2>7. old \in Seq(Lines)
      BY Zenon, <1>2, <2>6 DEF FilesOf
    <2> HIDE DEF old
    <2> DEFINE new == Append(old, NextLine)
    <2>8. /\ new # <<>> /\ Len(new) = Len(old) + 1
          /\ \A i \in DOMAIN new : new[i] = NextLine \/ (i \in DOMAIN old /\ new[i] = old[i])
      <3> DEFINE line == NextLine
      <3>1. line \in Lines
        BY Zenon, <2>4
      <3> HIDE DEF line
      <3>2. /\ Append(old, line) # <<>> /\ Len(Append(old, line)) = Len(old) + 1
            /\ \A i \in DOMAIN Append(old, line) :
                   Append(old, line)[i] = line \/ (i \in DOMAIN old /\ Append(old, line)[i] = old[i])
        BY <2>7, <3>1, AppendElements
      <3> QED
        BY Zenon, <3>2 DEF line
    <2> HIDE DEF new
    <2>9. AtEnd'
      <3>1. w.seq = Len(Walked) /\ w.size = Len(old)
        BY Zenon, <2>1, <2>2 DEF AtEnd, old
      <3>2. disk'[w'.file] = new
        BY Zenon, <2>1, <2>3 DEF old, new
      <3> HIDE DEF Clean
      <3> QED
        BY Zenon, <2>1, <2>3, <2>8, <3>1, <3>2 DEF AtEnd
    <2>10. NextLine.seq > 0 /\ (w.file > 1 => NextLine.seq > 1)
      <3>1. Len(Walked) \in Nat
        BY Zenon, WalkedFacts
      <3>2. w.file > 1 => Walked # <<>>
        BY Zenon, <2>2, <2>6 DEF Begun
      <3>3. Walked # <<>> => Len(Walked) # 0
        BY <1>2
      <3> HIDE DEF Clean
      <3> QED
        BY <2>3, <3>1, <3>2, <3>3
    <2>11. Entries'
      <3> SUFFICES ASSUME NEW f \in DOMAIN disk', NEW i \in DOMAIN disk'[f]
                   PROVE  disk'[f][i].nl /\ disk'[f][i].seq > 0 /\ (f > 1 => disk'[f][i].seq > 1)
        BY Zenon DEF Entries
      <3>1. CASE f # w.file
        BY Zenon, <2>2, <2>6, <3>1 DEF Entries
      <3>2. CASE f = w.file
        <4>1. disk'[f][i] = NextLine \/ (i \in DOMAIN old /\ disk'[f][i] = old[i])
          BY Zenon, <2>3, <2>8, <3>2 DEF old, new
        <4> QED
          BY Zenon, <2>2, <2>4, <2>6, <2>10, <3>2, <4>1 DEF Entries, old
      <3> QED
        BY Zenon, <3>1, <3>2
    <2>12. Begun'
      BY Zenon, <2>2, <2>3, <2>5, <2>6, <2>8 DEF Begun, old, new
    <2> QED
      BY Zenon, <2>3, <2>9, <2>11, <2>12
  <1>7. ASSUME UNCHANGED <<disk, mtimes, acked>>, (~w'.up /\ ~w.rotated) \/ w' = w, harm \subseteq harm'
        PROVE  AckedVerifies' /\ AtEnd' /\ Entries' /\ Begun'
    <2>1. Walked' = Walked
      BY Zenon, <1>7 DEF Walked
    <2>2. Clean
      BY Zenon, <1>1, <1>7
    <2>3. AckedVerifies'
      BY Zenon, <1>3, <1>7, <2>1, <2>2
    <2>4. AtEnd'
      BY Zenon, <1>7, <2>1, <2>2 DEF AtEnd
    <2>5. Entries' /\ Begun'
      BY Zenon, <1>7, <2>1, <2>2 DEF Entries, Begun
    <2> QED
      BY Zenon, <2>3, <2>4, <2>5
  <1>8. CASE Crash
    <2>1. UNCHANGED <<disk, mtimes, acked>> /\ w' = Closed /\ harm \subseteq harm'
      BY Zenon, <1>8 DEF Crash
    <2>2. ~w.rotated
      BY Zenon, <1>8 DEF Crash
    <2> QED
      BY Zenon, <1>7, <2>1, <2>2, ClosedFacts
  <1>9. CASE AppendFails \/ CrashInWrite \/ Reclaim \/ Expire
    BY Zenon, <1>9 DEF AppendFails, CrashInWrite, Reclaim, Expire
  <1>10. CASE Done \/ UNCHANGED provenanceVars
    BY Zenon, <1>7, <1>10 DEF Done, provenanceVars
  <1> QED
    BY Zenon, <1>4, <1>5, <1>6, <1>8, <1>9, <1>10 DEF ProvenanceNext

-----------------------------------------------------------------------------
\* The disk monitor has removed the oldest files: what is left begins behind the first
\* entry, and so does all that is written later.
LogCut ==
    harm = {"reclaim"} =>
        /\ DOMAIN disk # {}
        /\ \A f \in DOMAIN disk : \A i \in DOMAIN disk[f] : disk[f][i].nl /\ disk[f][i].seq > 1
        /\ \A f \in DOMAIN disk : disk[f] = <<>> => w.rotated /\ w.linked /\ w.file = f
        /\ w.up => w.seq > 0

\* What an entry behind whole lines leaves of the file.
LEMMA WrittenWhole ==
    ASSUME NEW lines \in Seq(Lines), NEW e \in Lines, \A i \in DOMAIN lines : lines[i].nl
    PROVE  /\ Written(lines, e) # <<>>
           /\ \A i \in DOMAIN Written(lines, e) :
                  Written(lines, e)[i] = e \/ (i \in DOMAIN lines /\ Written(lines, e)[i] = lines[i])
  <1>1. lines # <<>> => Len(lines) \in DOMAIN lines
    OBVIOUS
  <1>2. Written(lines, e) = Append(lines, e)
    BY Zenon, <1>1 DEF Written
  <1> QED
    BY <1>2, AppendElements

\* The beginning that was removed does not come back.
LEMMA CutStep ==
    ASSUME LogType, LogType', LogWhole, LogClean, LogCut, [ProvenanceNext]_provenanceVars
    PROVE  LogCut'
  <1> DEFINE Cut == /\ DOMAIN disk # {}
                    /\ \A f \in DOMAIN disk : \A i \in DOMAIN disk[f] : disk[f][i].nl /\ disk[f][i].seq > 1
                    /\ \A f \in DOMAIN disk : disk[f] = <<>> => w.rotated /\ w.linked /\ w.file = f
                    /\ w.up => w.seq > 0
  <1> SUFFICES ASSUME harm' = {"reclaim"}
               PROVE  Cut'
    BY Zenon DEF LogCut
  <1>1. harm = harm' => Cut
    BY Zenon DEF LogCut
  <1>2. /\ FilesOf(disk, Lines) /\ w \in Writers /\ (w.rotated => w.up /\ w.size = 0)
        /\ (w.linked => w.up /\ w.file \in DOMAIN disk) /\ mtimes \in Seq(Nat)
    BY Zenon DEF LogType
  <1>3. CASE Open
    <2>1. Cut /\ ~w.up
      BY Zenon, <1>1, <1>3 DEF Open
    <2>2. PICK file \in 1 .. MaxFiles :
             /\ file \in DOMAIN disk
             /\ DOMAIN disk' = DOMAIN disk /\ (\A f \in DOMAIN disk : disk'[f] = disk[f])
             /\ w'.seq = ScanOf(disk[file])[1]
      BY Zenon, <1>3, <2>1, OpenFacts
    <2> DEFINE lines == disk[file]
    <2>3. lines \in Seq(Lines) /\ lines # <<>> /\ \A i \in DOMAIN lines : lines[i].seq > 1
      BY Zenon, <1>2, <2>1, <2>2 DEF FilesOf
    <2>4. w'.seq = ScanOf(lines)[1]
      BY Zenon, <2>2
    <2> HIDE DEF lines, Cut
    <2>5. /\ \A i \in 1 .. Len(lines) : lines[i].seq > 0
          /\ lines[Len(lines)].seq > 0
      <3>1. DOMAIN lines = 1 .. Len(lines) /\ Len(lines) \in DOMAIN lines /\ \A i \in DOMAIN lines : lines[i] \in Lines
        BY <2>3
      <3>2. \A i \in DOMAIN lines : lines[i].seq \in Nat /\ lines[i].seq > 1
        BY Zenon, <2>3, <3>1, LineNumbers
      <3>3. \A s \in Nat : s > 1 => s > 0
        OBVIOUS
      <3> QED
        BY Zenon, <3>1, <3>2, <3>3
    <2>6. ScanOf(lines) = <<lines[Len(lines)].seq, lines[Len(lines)].hash>>
      BY Zenon, <2>3, <2>5, ScanFacts
    <2>7. w'.seq > 0
      BY <2>4, <2>5, <2>6
    <2> QED
      BY Zenon, <1>2, <2>1, <2>2, <2>7 DEF Cut
  <1>4. CASE Rotate
    <2> DEFINE n == Len(mtimes) + 1
    <2>1. Cut
      BY Zenon, <1>1, <1>4 DEF Rotate
    <2>2. /\ DOMAIN disk' = DOMAIN disk \cup {n} /\ (\A f \in DOMAIN disk : disk'[f] = disk[f])
          /\ n \notin DOMAIN disk => disk'[n] = <<>>
          /\ w'.up /\ w'.linked /\ w'.rotated /\ w'.file = n /\ w'.seq = w.seq
          /\ w.up /\ w.size >= MaxLines
      BY Zenon, <1>4, RotateFacts
    <2> HIDE DEF n
    <2>3. w.size # 0
      BY <2>2, ProvenanceAssumption
    <2>4. DOMAIN <<>> = {}
      OBVIOUS
    <2>5. ASSUME NEW f \in DOMAIN disk'
          PROVE  /\ \A i \in DOMAIN disk'[f] : disk'[f][i].nl /\ disk'[f][i].seq > 1
                 /\ disk'[f] = <<>> => f = n
      <3>1. CASE f \in DOMAIN disk
        BY Zenon, <1>2, <2>1, <2>2, <2>3, <3>1
      <3>2. CASE f \notin DOMAIN disk
        BY Zenon, <2>2, <2>4, <3>2
      <3> QED
        BY Zenon, <3>1, <3>2
    <2> QED
      BY Zenon, <2>1, <2>2, <2>5
  <1>5. CASE AppendOk
    <2>1. /\ PutLine(NextLine) /\ harm' = harm /\ w.up /\ w'.seq = w.seq + 1
      BY Zenon, <1>5, AppendFacts
    <2>2. Cut
      BY Zenon, <1>1, <2>1
    <2>3. NextLine \in Lines /\ NextLine.nl /\ NextLine.seq = w.seq + 1
      BY Zenon, NextLineFacts
    <2>4. /\ DOMAIN disk' = DOMAIN disk
          /\ (\A f \in DOMAIN disk : f # w.file \/ ~w.linked => disk'[f] = disk[f])
          /\ w.linked => disk'[w.file] = Written(disk[w.file], NextLine)
      BY Zenon, <2>1, <2>3, PutLineFacts
    <2>5. w.seq + 1 > 0 /\ w.seq + 1 > 1
      <3>1. w.seq \in Nat /\ w.seq > 0
        <4>1. w.seq \in Nat
          BY <1>2 DEF Writers
        <4> QED
          BY Zenon, <2>1, <2>2, <4>1
      <3> QED
        BY <3>1
    <2>6. ASSUME NEW f \in DOMAIN disk
          PROVE  /\ \A i \in DOMAIN disk'[f] : disk'[f][i].nl /\ disk'[f][i].seq > 1
                 /\ disk'[f] # <<>>
      <3>1. CASE f # w.file \/ ~w.linked
        BY Zenon, <2>2, <2>4, <3>1
      <3>2. CASE f = w.file /\ w.linked
        <4> DEFINE old == disk[f]
                   line == NextLine
                   new == Written(old, line)
        <4>1. old \in Seq(Lines) /\ (\A i \in DOMAIN old : old[i].nl) /\ line \in Lines
          BY Zenon, <1>2, <2>2, <2>3 DEF FilesOf
        <4> HIDE DEF old, line
        <4>2. new # <<>> /\ \A i \in DOMAIN new : new[i] = line \/ (i \in DOMAIN old /\ new[i] = old[i])
          BY Zenon, <4>1, WrittenWhole
        <4>3. disk'[f] = new
          BY Zenon, <2>4, <3>2 DEF old, line
        <4> HIDE DEF new
        <4>4. line.nl /\ line.seq > 1 /\ \A i \in DOMAIN old : old[i].nl /\ old[i].seq > 1
          BY Zenon, <2>2, <2>3, <2>5 DEF line, old
        <4> QED
          BY Zenon, <4>2, <4>3, <4>4
      <3> QED
        BY Zenon, <3>1, <3>2
    <2> QED
      BY Zenon, <2>1, <2>2, <2>4, <2>5, <2>6
  <1>6. CASE Crash
    <2>1. UNCHANGED disk /\ w' = Closed /\ harm' = harm \cup (IF w.rotated THEN {"empty"} ELSE {})
      BY Zenon, <1>6 DEF Crash
    <2>2. ~w.rotated
      <3>1. w.rotated => "empty" \in harm'
        BY Zenon, <2>1
      <3> QED
        BY <3>1
    <2>3. harm' = harm
      BY Zenon, <2>1, <2>2
    <2> QED
      BY Zenon, <1>1, <2>1, <2>2, <2>3, ClosedFacts
  <1>7. CASE Reclaim
    <2>1. PICK k \in 1 .. Len(mtimes) : RemoveOldest(k)
      BY Zenon, <1>7 DEF Reclaim
    <2>2. harm' = harm \cup {IF DOMAIN disk' = {} THEN "emptied" ELSE "reclaim"}
      BY Zenon, <1>7 DEF Reclaim
    <2>3. DOMAIN disk' # {} /\ (harm = {} \/ harm = harm')
      <3>1. harm' = harm \cup {"emptied"} \/ (DOMAIN disk' # {} /\ harm' = harm \cup {"reclaim"})
        BY Zenon, <2>2
      <3> QED
        BY <3>1
    <2>4. /\ DOMAIN disk' = DOMAIN disk \ Oldest(k) /\ (\A f \in DOMAIN disk' : disk'[f] = disk[f])
          /\ mtimes[1] \in Oldest(k)
          /\ w'.up = w.up /\ w'.seq = w.seq /\ w'.rotated = w.rotated /\ w'.file = w.file
          /\ w'.linked <=> w.linked /\ w.file \notin Oldest(k)
      BY Zenon, <2>1, RemoveFacts
    <2>5. CASE harm = harm'
      BY Zenon, <1>1, <2>3, <2>4, <2>5
    <2>6. CASE harm = {}
      <3>1. LogShape /\ AtEnd /\ Entries /\ Begun
        <4>1. harm \subseteq {"refuse", "tear"}
          BY Zenon, <2>6
        <4> QED
          BY Zenon, <2>6, <4>1 DEF LogWhole, LogClean
      <3>2. DOMAIN disk = 1 .. Len(mtimes) /\ Len(mtimes) \in Nat /\ mtimes[1] = 1
        <4>1. 1 \in DOMAIN mtimes /\ Len(mtimes) \in Nat
          BY <1>2, <2>1
        <4> QED
          BY Zenon, <3>1, <4>1 DEF LogShape
      <3>3. \A f \in DOMAIN disk' : f > 1 /\ f # 1 /\ Len(mtimes) > 1
        BY <2>4, <3>2
      <3>4. Walked # <<>>
        BY Zenon, <2>3, <3>1, <3>3 DEF Begun
      <3>5. w.up => w.seq > 0
        <4>1. Len(Walked) > 0
          <5>1. Walked \in Seq(Lines)
            BY Zenon, WalkedFacts
          <5> QED
            BY <3>4, <5>1
        <4> QED
          BY Zenon, <3>1, <4>1 DEF AtEnd
      <3>6. ASSUME NEW f \in DOMAIN disk', disk'[f] = <<>>
            PROVE  w'.rotated /\ w'.linked /\ w'.file = f
        <4>1. f = Len(mtimes) /\ w.rotated
          BY Zenon, <2>4, <3>1, <3>3, <3>6 DEF Begun
        <4> QED
          BY Zenon, <1>2, <2>4, <3>1, <4>1 DEF LogShape
      <3> QED
        BY Zenon, <2>3, <2>4, <3>1, <3>3, <3>5, <3>6 DEF Entries
    <2> QED
      BY Zenon, <2>3, <2>5, <2>6
  <1>8. CASE AppendFails \/ CrashInWrite \/ Expire
    <2>1. "refuse" \in harm' \/ "tear" \in harm' \/ "expire" \in harm'
      BY Zenon, <1>8 DEF AppendFails, CrashInWrite, Expire
    <2> QED
      BY <2>1
  <1>9. CASE Done \/ UNCHANGED provenanceVars
    BY Zenon, <1>1, <1>9 DEF Done, provenanceVars
  <1> QED
    BY Zenon, <1>3, <1>4, <1>5, <1>6, <1>7, <1>8, <1>9 DEF ProvenanceNext

\* The types, and what holds of the log after each kind of fault.
LogInv == LogType /\ LogWhole /\ LogClean /\ LogCut

\* The log before the first start.
LEMMA LogStarts == ProvenanceInit => LogInv
  <1> SUFFICES ASSUME ProvenanceInit
               PROVE  LogInv
    OBVIOUS
  <1>1. /\ disk = <<>> /\ mtimes = <<>> /\ w = Closed /\ calls = 0 /\ acked = <<>> /\ harm = {}
    BY Zenon DEF ProvenanceInit
  <1>2. DOMAIN <<>> = {} /\ Len(<<>>) = 0 /\ 1 .. 0 = {} /\ 0 \in Nat /\ <<>> \in Seq(Nat) /\ ~(0 > 1)
    OBVIOUS
  <1>3. LogType
    BY Zenon, <1>1, <1>2, ClosedFacts DEF LogType, FilesOf
  <1>4. Walked = <<>>
    <2>1. MaxFiles \in Nat /\ 0 <= MaxFiles
      BY ProvenanceAssumption
    <2>2. FilesOf(disk, Lines) /\ \A f \in DOMAIN disk : ~(0 < f /\ f <= MaxFiles)
      BY Zenon, <1>1, <1>2, <1>3 DEF LogType
    <2>3. Joined(disk, MaxFiles) = Joined(disk, 0)
      BY Zenon, <1>2, <2>1, <2>2, JoinedStops
    <2> QED
      BY Zenon, <2>3, JoinedNone DEF Walked
  <1>5. LogShape /\ Within(Walked, calls) /\ NoLoss(Walked, acked)
    BY Zenon, <1>1, <1>2, <1>4, ClosedFacts DEF LogShape, Within, NoLoss
  <1>6. AckedVerifies
    <2>1. <<>> = [i \in DOMAIN <<>> |-> <<>>[i].content]
      OBVIOUS
    <2> QED
      BY Zenon, <1>1, <1>2, <1>4, <2>1 DEF AckedVerifies, verify_chain, Verifies
  <1>7. AtEnd /\ Entries /\ Begun
    BY Zenon, <1>1, <1>2, ClosedFacts DEF AtEnd, Entries, Begun
  <1>8. {} # {"reclaim"}
    OBVIOUS
  <1> QED
    BY Zenon, <1>1, <1>3, <1>5, <1>6, <1>7, <1>8 DEF LogInv, LogWhole, LogClean, LogCut

\* What the invariant says of verify_chain.
LEMMA LogExact == LogInv => VerifyIsExact
  <1> SUFFICES ASSUME LogInv
               PROVE  AckedVerifies /\ AcceptsNoLoss /\ ReclaimIsSeen
    BY Zenon DEF VerifyIsExact
  <1>1. AckedVerifies
    BY Zenon DEF LogInv, LogClean, AckedVerifies
  <1>2. AcceptsNoLoss
    BY Zenon DEF LogInv, LogWhole, NoLoss, AcceptsNoLoss, verify_chain
  <1>3. ReclaimIsSeen
    <2> SUFFICES ASSUME harm = {"reclaim"}, Verifies(Walked), Walked # <<>>
                 PROVE  FALSE
      BY Zenon DEF ReclaimIsSeen, verify_chain
    <2>1. Walked \in Seq(Lines)
      BY Zenon, WalkedFacts DEF LogInv
    <2>2. 1 \in DOMAIN Walked
      BY <2>1
    <2>3. Walked[1].seq = 1
      BY Zenon, <2>2 DEF Verifies
    <2>4. MaxFiles \in Nat
      BY ProvenanceAssumption
    <2>5. PICK f \in DOMAIN disk : \E i \in DOMAIN disk[f] : Walked[1] = disk[f][i]
      <3>1. FilesOf(disk, Lines)
        BY Zenon DEF LogInv, LogType
      <3>2. 1 \in DOMAIN Joined(disk, MaxFiles)
        BY Zenon, <2>2 DEF Walked
      <3>3. \E f \in DOMAIN disk : \E i \in DOMAIN disk[f] : Joined(disk, MaxFiles)[1] = disk[f][i]
        BY <2>4, <3>1, <3>2, JoinedFrom
      <3> QED
        BY Zenon, <3>3 DEF Walked
    <2>6. Walked[1].seq > 1
      BY Zenon, <2>5 DEF LogInv, LogCut
    <2> QED
      BY <2>3, <2>6
  <1> QED
    BY Zenon, <1>1, <1>2, <1>3

\* Through restarts, rotations, refused and torn writes and the files the disk monitor
\* removes, verify_chain accepts a log that no fault has touched, a damaged one only if
\* every append that returned Ok is in it, and one whose beginning was removed only while
\* it is empty (provenance.rs:183-315).
THEOREM VerifiesExactly == ProvenanceSpec => []VerifyIsExact
  <1>1. LogInv /\ [ProvenanceNext]_provenanceVars => LogInv'
    <2> SUFFICES ASSUME LogInv, [ProvenanceNext]_provenanceVars
                 PROVE  LogInv'
      BY Zenon
    <2>1. LogType'
      BY Zenon, LogTypeStep DEF LogInv
    <2>2. LogWhole'
      BY Zenon, <2>1, WholeStep DEF LogInv
    <2>3. LogClean'
      BY Zenon, <2>1, CleanStep DEF LogInv
    <2>4. LogCut'
      BY Zenon, <2>1, CutStep DEF LogInv
    <2> QED
      BY Zenon, <2>1, <2>2, <2>3, <2>4 DEF LogInv
  <1> QED
    BY <1>1, LogStarts, LogExact, PTL DEF ProvenanceSpec
=============================================================================
