------------------------- MODULE SystemUpdateProofs -------------------------
(*****************************************************************************)
(* Updates are sound however many commands of nuractl run at once and        *)
(* wherever power fails, for every number of transactions and of history     *)
(* entries: the active slot is verified, a rollback restores, and the        *)
(* history keeps its latest known-good version.                              *)
(*                                                                           *)
(* The first part is about VersionHistory's operators: which entries Prune   *)
(* keeps, for histories of any length. The second has the invariant:         *)
(* images get into a slot only verified, whoever makes a slot active knows   *)
(* it is filled, and an update that ran alone finds the image it may go      *)
(* back to untouched.                                                        *)
(*****************************************************************************)
EXTENDS SystemUpdate, FiniteSetTheorems, TLAPS

\* How many positions of keep lie at or before i.
Rank(keep, i) == Cardinality({j \in keep : j <= i})

\* The rank numbers the positions of keep from 1, in order.
LEMMA RankFacts ==
    ASSUME NEW n \in Nat, NEW keep \in SUBSET (1 .. n)
    PROVE  /\ IsFiniteSet(keep) /\ Cardinality(keep) \in Nat
           /\ \A i \in keep : Rank(keep, i) \in 1 .. Cardinality(keep)
           /\ \A i, j \in keep : i < j => Rank(keep, i) < Rank(keep, j)
           /\ \A k \in 1 .. Cardinality(keep) : \E i \in keep : Rank(keep, i) = k
  <1> DEFINE upTo(i) == {j \in keep : j <= i}
  <1>1. IsFiniteSet(keep) /\ Cardinality(keep) \in Nat
    <2>1. IsFiniteSet(1 .. n)
      BY FS_Interval
    <2>2. IsFiniteSet(keep)
      BY Zenon, <2>1, FS_Subset
    <2> QED
      BY <2>2, FS_CardinalityType
  <1>2. ASSUME NEW i \in keep
        PROVE  /\ IsFiniteSet(upTo(i)) /\ Rank(keep, i) \in Nat
               /\ Rank(keep, i) <= Cardinality(keep)
    <2>1. upTo(i) \in SUBSET keep
      OBVIOUS
    <2> QED
      BY <1>1, <2>1, FS_Subset, FS_CardinalityType DEF Rank
  <1>3. ASSUME NEW i \in keep
        PROVE  Rank(keep, i) # 0
    BY <1>2, FS_EmptySet DEF Rank
  <1>4. ASSUME NEW i \in keep
        PROVE  Rank(keep, i) \in 1 .. Cardinality(keep)
    <2>1. Rank(keep, i) \in Nat /\ Rank(keep, i) <= Cardinality(keep) /\ Rank(keep, i) # 0
      BY Zenon, <1>2, <1>3
    <2> QED
      BY <1>1, <2>1
  <1>5. ASSUME NEW i \in keep, NEW j \in keep, i < j
        PROVE  Rank(keep, i) < Rank(keep, j)
    <2>1. j \notin upTo(i)
      BY <1>5
    <2>2. Cardinality(upTo(i) \cup {j}) = Rank(keep, i) + 1
      BY Zenon, <1>2, <2>1, FS_AddElement DEF Rank
    <2>3. upTo(i) \cup {j} \in SUBSET upTo(j)
      <3>1. i \in Int /\ j \in Int /\ \A k \in keep : k \in Int
        OBVIOUS
      <3>2. \A k \in keep : k <= i => k <= j
        BY <1>5, <3>1
      <3>3. j <= j
        BY <3>1
      <3>4. ASSUME NEW k \in upTo(i) \cup {j}
            PROVE  k \in keep /\ k <= j
        BY <3>2, <3>3
      <3> QED
        BY Zenon, <3>4
    <2>4. Cardinality(upTo(i) \cup {j}) <= Rank(keep, j)
      BY <1>2, <2>3, FS_Subset DEF Rank
    <2>5. Rank(keep, i) \in Nat /\ Rank(keep, j) \in Nat
      BY Zenon, <1>2
    <2> QED
      BY <2>2, <2>4, <2>5
  <1>6. \A k \in 1 .. Cardinality(keep) : \E i \in keep : Rank(keep, i) = k
    <2> DEFINE f == [i \in keep |-> Rank(keep, i)]
               T == 1 .. Cardinality(keep)
    <2>1. f \in [keep -> T]
      BY <1>4
    <2>2. \A i, j \in keep : i # j => f[i] # f[j]
      <3> SUFFICES ASSUME NEW i \in keep, NEW j \in keep, i # j
                   PROVE  f[i] # f[j]
        OBVIOUS
      <3>1. i < j \/ j < i
        OBVIOUS
      <3>2. Rank(keep, i) \in Nat /\ Rank(keep, j) \in Nat
        BY Zenon, <1>2
      <3>3. Rank(keep, i) < Rank(keep, j) \/ Rank(keep, j) < Rank(keep, i)
        BY <1>5, <3>1
      <3> QED
        BY <3>2, <3>3
    <2>3. f \in Injection(keep, T)
      BY <2>1, <2>2 DEF Injection, IsInjective
    <2>4. IsFiniteSet(T) /\ Cardinality(T) = Cardinality(keep)
      BY <1>1, FS_Interval
    <2>5. f \in Surjection(keep, T)
      BY <2>3, <2>4, FS_Injection
    <2>6. \A k \in T : \E i \in keep : f[i] = k
      BY Zenon, <2>5 DEF Surjection
    <2> QED
      BY <2>6
  <1> QED
    BY <1>1, <1>4, <1>5, <1>6

\* The entries at the positions in keep, each where its rank says.
LEMMA AtPositionsFacts ==
    ASSUME NEW S, NEW h \in Seq(S), NEW keep \in SUBSET DOMAIN h
    PROVE  /\ AtPositions(h, keep) \in Seq(S)
           /\ Len(AtPositions(h, keep)) = Cardinality(keep)
           /\ \A i \in keep : AtPositions(h, keep)[Rank(keep, i)] = h[i]
  <1> DEFINE s == AtPositions(h, keep)
             pos(k) == CHOOSE i \in keep : Cardinality({j \in keep : j <= i}) = k
  <1>1. Len(h) \in Nat /\ keep \in SUBSET (1 .. Len(h))
    OBVIOUS
  <1>2. Cardinality(keep) \in Nat
    BY Zenon, <1>1, RankFacts
  <1>3. s = [k \in 1 .. Cardinality(keep) |-> h[pos(k)]]
    BY DEF AtPositions
  <1>4. \A k \in 1 .. Cardinality(keep) : \E i \in keep : Rank(keep, i) = k
    BY Zenon, <1>1, RankFacts
  <1>5. \A k \in 1 .. Cardinality(keep) : pos(k) \in keep /\ Rank(keep, pos(k)) = k
    BY Zenon, <1>4 DEF Rank
  <1> HIDE DEF pos
  <1>6. s \in [1 .. Cardinality(keep) -> S]
    BY <1>3, <1>5
  <1>7. s \in Seq(S) /\ Len(s) = Cardinality(keep)
    BY <1>2, <1>6
  <1>8. ASSUME NEW i \in keep
        PROVE  s[Rank(keep, i)] = h[i]
    <2>1. Rank(keep, i) \in 1 .. Cardinality(keep)
      BY Zenon, <1>1, RankFacts
    <2>2. pos(Rank(keep, i)) = i
      <3>1. /\ pos(Rank(keep, i)) \in keep
            /\ Rank(keep, pos(Rank(keep, i))) = Rank(keep, i)
        BY <1>5, <2>1
      <3>2. ASSUME NEW p \in keep, Rank(keep, p) = Rank(keep, i)
            PROVE  p = i
        <4>1. p \in Nat /\ i \in Nat
          BY <1>1
        <4>2. Rank(keep, p) \in 1 .. Cardinality(keep)
          BY Zenon, <1>1, RankFacts
        <4>3. ~(p < i) /\ ~(i < p)
          <5>1. /\ p < i => Rank(keep, p) < Rank(keep, i)
                /\ i < p => Rank(keep, i) < Rank(keep, p)
            BY Zenon, <1>1, RankFacts
          <5> QED
            BY <1>2, <3>2, <4>2, <5>1
        <4> QED
          BY <4>1, <4>3
      <3> QED
        BY <3>1, <3>2
    <2> QED
      BY <1>3, <2>1, <2>2
  <1> HIDE DEF s
  <1> QED
    BY <1>7, <1>8 DEF s

-----------------------------------------------------------------------------
\* The positions prune keeps at first.
KeptBy(h, max) == {i \in DOMAIN h : h[i].good \/ NotGoodUpTo(h, i) > Len(h) - max}

\* Prune returns entries of the history, and at most max of them.
LEMMA PruneEntries ==
    ASSUME NEW S, NEW h \in Seq(S), NEW max \in Nat \ {0}
    PROVE  /\ Prune(h, max) \in Seq(S) /\ Len(Prune(h, max)) <= max
           /\ \A k \in DOMAIN Prune(h, max) : \E i \in DOMAIN h : Prune(h, max)[k] = h[i]
  <1> DEFINE keep == KeptBy(h, max)
             kept == AtPositions(h, keep)
             n == Len(kept)
  <1>1. Len(h) \in Nat /\ keep \in SUBSET (1 .. Len(h)) /\ keep \in SUBSET DOMAIN h
    BY DEF KeptBy
  <1>2. /\ kept \in Seq(S) /\ n = Cardinality(keep)
        /\ \A i \in keep : kept[Rank(keep, i)] = h[i]
    BY <1>1, AtPositionsFacts
  <1>3. /\ Cardinality(keep) \in Nat
        /\ \A k \in 1 .. Cardinality(keep) : \E i \in keep : Rank(keep, i) = k
    BY Zenon, <1>1, RankFacts
  <1>4. \A k \in 1 .. n : \E i \in DOMAIN h : kept[k] = h[i]
    <2> SUFFICES ASSUME NEW k \in 1 .. n
                 PROVE  \E i \in DOMAIN h : kept[k] = h[i]
      OBVIOUS
    <2>1. PICK i \in keep : Rank(keep, i) = k
      BY <1>2, <1>3
    <2> QED
      BY <1>1, <1>2, <2>1
  <1>5. Prune(h, max) = CASE Len(h) <= max -> h
                          [] Len(h) > max /\ n <= max -> kept
                          [] OTHER -> SubSeq(kept, n - max + 1, n)
    BY DEF Prune, KeptBy
  <1> HIDE DEF kept, keep, n
  <1>6. n \in Nat /\ n = Len(kept)
    BY <1>2, <1>3 DEF n
  <1>7. CASE Len(h) <= max
    <2>1. Prune(h, max) = h
      BY <1>5, <1>7
    <2> QED
      BY <1>7, <2>1
  <1>8. CASE Len(h) > max /\ n <= max
    <2>1. Prune(h, max) = kept
      BY <1>1, <1>5, <1>8
    <2>2. DOMAIN kept = 1 .. n
      BY <1>2, <1>6
    <2> QED
      BY <1>2, <1>4, <1>6, <1>8, <2>1, <2>2
  <1>9. CASE Len(h) > max /\ n > max
    <2> DEFINE s == SubSeq(kept, n - max + 1, n)
    <2>1. Prune(h, max) = s
      BY <1>1, <1>5, <1>6, <1>9
    <2>2. /\ s \in Seq(S) /\ Len(s) = max /\ DOMAIN s = 1 .. max
          /\ \A k \in 1 .. max : s[k] = kept[n - max + k] /\ n - max + k \in 1 .. n
      BY <1>2, <1>6, <1>9
    <2> HIDE DEF s
    <2> QED
      BY <1>4, <2>1, <2>2
  <1> QED
    BY <1>1, <1>6, <1>7, <1>8, <1>9

-----------------------------------------------------------------------------
\* A set of positions that is not empty has a last one.
LEMMA LastPosition ==
    ASSUME NEW n \in Nat, NEW T \in SUBSET (1 .. n), T # {}
    PROVE  \E x \in T : \A y \in T : y <= x
  <1> DEFINE D == {n - t : t \in T}
  <1>1. D \in SUBSET Nat /\ D # {}
    <2>1. \A t \in T : n - t \in Nat
      OBVIOUS
    <2> QED
      BY Zenon, <2>1
  <1>2. PICK d \in D : \A e \in D : ~(<<e, d>> \in OpToRel(<, Nat))
    BY Zenon, <1>1, NatLessThanWellFounded, WFMin
  <1>3. \A e \in D : ~(e < d)
    BY Zenon, <1>1, <1>2 DEF OpToRel
  <1>4. PICK x \in T : d = n - x
    OBVIOUS
  <1>5. ASSUME NEW y \in T
        PROVE  y <= x
    <2>1. n - y \in D
      OBVIOUS
    <2>2. ~(n - y < n - x)
      BY Zenon, <1>3, <1>4, <2>1
    <2> QED
      BY <2>2
  <1> QED
    BY <1>5

\* LatestKnownGood is the last position with a known-good entry.
LEMMA LatestFacts ==
    ASSUME NEW S, NEW h \in Seq(S), \E i \in DOMAIN h : h[i].good
    PROVE  /\ LatestKnownGood(h) \in DOMAIN h /\ h[LatestKnownGood(h)].good
           /\ \A j \in DOMAIN h : h[j].good => j <= LatestKnownGood(h)
  <1> DEFINE good == {i \in DOMAIN h : h[i].good}
  <1>1. Len(h) \in Nat /\ good \in SUBSET (1 .. Len(h)) /\ good # {}
    OBVIOUS
  <1>2. \E x \in good : \A y \in good : y <= x
    BY Zenon, <1>1, LastPosition
  <1>3. LatestKnownGood(h) = CHOOSE i \in good : \A j \in good : j <= i
    BY <1>1 DEF LatestKnownGood
  <1> QED
    BY <1>2, <1>3

\* An entry that is the last known-good one is what LatestKnownGood finds.
LEMMA LatestIs ==
    ASSUME NEW S, NEW h \in Seq(S), NEW k \in DOMAIN h, h[k].good,
           \A j \in DOMAIN h : h[j].good => j <= k
    PROVE  LatestKnownGood(h) = k
  <1>1. /\ LatestKnownGood(h) \in DOMAIN h /\ h[LatestKnownGood(h)].good
        /\ k <= LatestKnownGood(h)
    BY LatestFacts
  <1> QED
    BY <1>1

\* Where LatestKnownGood finds an entry there is one.
LEMMA LatestNone ==
    ASSUME NEW S, NEW h \in Seq(S), LatestKnownGood(h) # 0
    PROVE  \E i \in DOMAIN h : h[i].good
  BY DEF LatestKnownGood

\* If prune keeps an entry that is not known good, it has dropped as many others
\* as there were in excess.
LEMMA NotGoodIsSpared ==
    ASSUME NEW S, NEW h \in Seq(S), NEW max \in Nat \ {0}, Len(h) > max,
           NEW i \in KeptBy(h, max), ~h[i].good
    PROVE  Cardinality(KeptBy(h, max)) <= max
  <1> DEFINE keep == KeptBy(h, max)
             excess == Len(h) - max
             bad == {j \in 1 .. i : ~h[j].good}
             gone == {j \in bad : Rank(bad, j) <= excess}
  <1>1. /\ Len(h) \in Nat /\ excess \in Nat /\ i \in 1 .. Len(h) /\ DOMAIN h = 1 .. Len(h)
        /\ bad \in SUBSET (1 .. Len(h)) /\ gone \in SUBSET (1 .. Len(h)) /\ keep \in SUBSET (1 .. Len(h))
    BY DEF KeptBy
  <1>2. Cardinality(bad) > excess
    BY DEF KeptBy, NotGoodUpTo
  <1>3. /\ \A k \in 1 .. Cardinality(bad) : \E j \in bad : Rank(bad, j) = k
        /\ \A j \in bad : Rank(bad, j) \in 1 .. Cardinality(bad)
        /\ Cardinality(bad) \in Nat
    BY Zenon, <1>1, RankFacts
  <1>4. gone \cap keep = {}
    <2> SUFFICES ASSUME NEW j \in gone, j \in keep
                 PROVE  FALSE
      OBVIOUS
    <2>1. {l \in 1 .. j : ~h[l].good} = {l \in bad : l <= j}
      BY <1>1
    <2>2. NotGoodUpTo(h, j) = Rank(bad, j)
      BY Zenon, <2>1 DEF NotGoodUpTo, Rank
    <2>3. ~h[j].good /\ Rank(bad, j) <= excess
      OBVIOUS
    <2>4. NotGoodUpTo(h, j) > excess
      BY <2>3 DEF KeptBy
    <2> QED
      BY <1>1, <1>3, <2>2, <2>3, <2>4
  <1> HIDE DEF keep, bad
  <1>5. IsFiniteSet(gone) /\ IsFiniteSet(keep) /\ IsFiniteSet(1 .. Len(h))
    <2>1. IsFiniteSet(1 .. Len(h))
      BY <1>1, FS_Interval
    <2> HIDE DEF gone
    <2> QED
      BY Zenon, <1>1, <2>1, FS_Subset
  <1>6. Cardinality(gone) >= excess /\ Cardinality(gone) \in Nat
    <2> DEFINE f == [j \in gone |-> Rank(bad, j)]
    <2>1. f \in [gone -> 1 .. excess]
      BY <1>1, <1>3
    <2>2. ASSUME NEW k \in 1 .. excess
          PROVE  \E j \in gone : f[j] = k
      <3>1. k \in 1 .. Cardinality(bad)
        BY <1>1, <1>2, <1>3
      <3>2. PICK j \in bad : Rank(bad, j) = k
        BY <1>3, <3>1
      <3> QED
        BY <1>1, <3>2
    <2>3. f \in Surjection(gone, 1 .. excess)
      BY <2>1, <2>2 DEF Surjection
    <2>4. Cardinality(1 .. excess) <= Cardinality(gone)
      BY <1>5, <2>3, FS_Surjection
    <2> HIDE DEF gone
    <2> QED
      BY <1>1, <1>5, <2>4, FS_Interval, FS_CardinalityType
  <1>7. /\ Cardinality(gone \cup keep) = Cardinality(gone) + Cardinality(keep)
        /\ Cardinality(keep) \in Nat
    <2> HIDE DEF gone
    <2>1. Cardinality(keep) \in Nat
      BY <1>5, FS_CardinalityType
    <2>2. Cardinality(gone \cap keep) = 0
      BY <1>4, FS_EmptySet
    <2>3. Cardinality(gone \cup keep) = Cardinality(gone) + Cardinality(keep) - Cardinality(gone \cap keep)
      BY <1>5, FS_Union
    <2> QED
      BY <1>6, <2>1, <2>2, <2>3
  <1>8. Cardinality(gone \cup keep) <= Len(h)
    <2>1. gone \cup keep \in SUBSET (1 .. Len(h))
      BY Zenon, <1>1
    <2>2. Cardinality(1 .. Len(h)) = Len(h)
      <3>1. Cardinality(1 .. Len(h)) = IF 1 > Len(h) THEN 0 ELSE Len(h) - 1 + 1
        BY <1>1, FS_Interval
      <3> QED
        BY <1>1, <3>1
    <2> QED
      BY <1>5, <2>1, <2>2, FS_Subset
  <1> QED
    BY <1>1, <1>6, <1>7, <1>8 DEF keep

\* Pruning never loses the latest known-good entry.
LEMMA PruneKeepsLatest ==
    ASSUME NEW S, NEW h \in Seq(S), NEW max \in Nat \ {0}, LatestKnownGood(h) # 0
    PROVE  /\ LatestKnownGood(Prune(h, max)) # 0
           /\ Prune(h, max)[LatestKnownGood(Prune(h, max))] = h[LatestKnownGood(h)]
  <1> DEFINE old == LatestKnownGood(h)
             keep == KeptBy(h, max)
             kept == AtPositions(h, keep)
             n == Len(kept)
             k == Rank(keep, old)
  <1>1. old \in DOMAIN h /\ h[old].good /\ \A j \in DOMAIN h : h[j].good => j <= old
    BY LatestNone, LatestFacts
  <1> HIDE DEF old
  <1>2. /\ Len(h) \in Nat /\ keep \in SUBSET (1 .. Len(h)) /\ keep \in SUBSET DOMAIN h
        /\ old \in keep /\ old \in Nat
    BY <1>1 DEF KeptBy
  <1>3. /\ kept \in Seq(S) /\ n = Cardinality(keep)
        /\ \A i \in keep : kept[Rank(keep, i)] = h[i]
    BY <1>2, AtPositionsFacts
  <1>4. /\ Cardinality(keep) \in Nat
        /\ \A i \in keep : Rank(keep, i) \in 1 .. Cardinality(keep)
        /\ \A i, j \in keep : i < j => Rank(keep, i) < Rank(keep, j)
        /\ \A m \in 1 .. Cardinality(keep) : \E i \in keep : Rank(keep, i) = m
    BY Zenon, <1>2, RankFacts
  <1>5. Prune(h, max) = CASE Len(h) <= max -> h
                          [] Len(h) > max /\ n <= max -> kept
                          [] OTHER -> SubSeq(kept, n - max + 1, n)
    BY DEF Prune, KeptBy
  <1>6. k \in 1 .. n /\ kept[k] = h[old] /\ n \in Nat
    BY <1>2, <1>3, <1>4
  <1>7. CASE Len(h) <= max
    <2>1. Prune(h, max) = h
      BY <1>5, <1>7
    <2> QED
      BY <2>1 DEF old
  <1>8. CASE Len(h) > max /\ n <= max
    <2>1. Prune(h, max) = kept
      BY <1>2, <1>5, <1>8
    <2>2. ASSUME NEW m \in DOMAIN kept, kept[m].good
          PROVE  m <= k
      <3>1. PICK i \in keep : Rank(keep, i) = m
        BY <1>3, <1>4
      <3>2. h[i].good /\ i \in DOMAIN h /\ i \in Nat
        BY <1>2, <1>3, <2>2, <3>1
      <3>3. i < old \/ i = old
        BY <1>1, <1>2, <3>2
      <3>4. m < k \/ m = k
        BY <1>2, <1>4, <3>1, <3>3
      <3>5. m \in Nat /\ k \in Nat
        BY <1>3, <1>6
      <3> QED
        BY <3>4, <3>5
    <2>3. k \in DOMAIN kept /\ kept[k].good
      BY <1>1, <1>3, <1>6
    <2> HIDE DEF kept, k
    <2>4. LatestKnownGood(kept) = k
      BY Zenon, <1>3, <2>2, <2>3, LatestIs
    <2> QED
      BY <1>6, <2>1, <2>4 DEF old
  <1>9. CASE Len(h) > max /\ n > max
    <2> DEFINE s == SubSeq(kept, n - max + 1, n)
    <2>1. Prune(h, max) = s
      BY SMTT(30), <1>2, <1>5, <1>6, <1>9
    <2>2. ASSUME NEW i \in keep
          PROVE  i <= old
      <3>1. h[i].good
        BY <1>3, <1>4, <1>9, NotGoodIsSpared
      <3> QED
        BY <1>1, <1>2, <3>1
    <2>3. {j \in keep : j <= old} = keep
      BY <2>2
    <2>4. k = n
      BY Zenon, <1>3, <2>3 DEF Rank
    <2>5. /\ s \in Seq(S) /\ DOMAIN s = 1 .. max /\ s[max] = kept[n]
      BY <1>3, <1>6, <1>9
    <2>6. max \in DOMAIN s /\ s[max].good /\ \A j \in DOMAIN s : s[j].good => j <= max
      BY <1>1, <1>6, <2>4, <2>5
    <2> HIDE DEF s
    <2>7. LatestKnownGood(s) = max
      BY <2>5, <2>6, LatestIs
    <2> QED
      BY <1>6, <2>1, <2>4, <2>5, <2>7 DEF old
  <1> QED
    BY <1>2, <1>6, <1>7, <1>8, <1>9

\* An entry is added without its mark, so that the latest known-good one stays.
LEMMA AddedKeepsLatest ==
    ASSUME NEW S, NEW h \in Seq(S), NEW e \in S, ~e.good, NEW max \in Nat \ {0},
           LatestKnownGood(h) # 0
    PROVE  /\ LatestKnownGood(Added(h, e, max)) # 0
           /\ Added(h, e, max)[LatestKnownGood(Added(h, e, max))] = h[LatestKnownGood(h)]
  <1> DEFINE old == LatestKnownGood(h)
             more == Append(h, e)
  <1>1. old \in DOMAIN h /\ h[old].good /\ \A j \in DOMAIN h : h[j].good => j <= old
    BY LatestNone, LatestFacts
  <1> HIDE DEF old
  <1>2. /\ more \in Seq(S) /\ DOMAIN more = 1 .. Len(h) + 1 /\ Len(h) \in Nat
        /\ \A j \in 1 .. Len(h) : more[j] = h[j]
        /\ more[Len(h) + 1] = e /\ DOMAIN h = 1 .. Len(h)
    OBVIOUS
  <1>3. ASSUME NEW j \in DOMAIN more, more[j].good
        PROVE  j <= old
    <2>1. j \in 1 .. Len(h)
      BY <1>2, <1>3
    <2> QED
      BY <1>1, <1>2, <1>3, <2>1
  <1>4. old \in DOMAIN more /\ more[old] = h[old]
    BY <1>1, <1>2
  <1> HIDE DEF more
  <1>5. LatestKnownGood(more) = old
    BY <1>1, <1>2, <1>3, <1>4, LatestIs
  <1>6. old # 0
    BY DEF old
  <1>7. /\ LatestKnownGood(Prune(more, max)) # 0
        /\ Prune(more, max)[LatestKnownGood(Prune(more, max))] = more[LatestKnownGood(more)]
    BY Zenon, <1>2, <1>5, <1>6, PruneKeepsLatest
  <1> QED
    BY <1>4, <1>5, <1>7 DEF Added, more, old

-----------------------------------------------------------------------------
(*****************************************************************************)
(* The commands, the boot check and the operator.                            *)
(*****************************************************************************)

\* The transaction record, and what a process of nuractl holds.
Records == [state : {"none", "staging", "verifying", "committed", "aborted"},
            id : 0 .. MaxTx, target : Slots, health : Slots \cup {"none"}]
Commands == [pc : Pcs, id : 0 .. MaxTx, active : Slots, delta : BOOLEAN, hist : Seq(Entries)]

\* The types of the variables.
UpdateType ==
    /\ slot \in Slots
    /\ image \in [Slots -> 0 .. MaxTx + 1]
    /\ tx \in Records
    /\ history \in Seq(Entries)
    /\ cli \in [Cli -> Commands]
    /\ next \in 1 .. MaxTx + 1
    /\ mismatched \subseteq TxIds
    /\ was \in [TxIds -> 0 .. MaxTx + 1]
    /\ overlapped \subseteq TxIds

\* The places of an update before it has committed, and those after its digests
\* were compared.
Uncommitted == {"slot", "begin", "stage", "verify", "reject", "snapshot", "replace", "flip", "commit"}
Verified == {"snapshot", "replace", "flip", "commit", "clean", "load"}

\* Transactions are numbered in order, and a process works on one of its own.
Numbered ==
    /\ \A p \in Cli : cli[p].id < next
    /\ \A p \in Cli : cli[p].pc \in Uncommitted \cup Verified => cli[p].id # 0
    /\ \A p, q \in Cli : p # q /\ cli[p].id # 0 => cli[p].id # cli[q].id
    /\ \A i \in mismatched : i < next

\* Every image that was ever put into a slot passed the check.
OnlyVerified ==
    /\ \A p \in Cli : cli[p].pc \in Verified => cli[p].id \notin mismatched
    /\ \A s \in Slots : image[s] # NoImage => image[s] < next /\ image[s] \notin mismatched

\* The slots that somebody may make active hold an image.
Filled(s) == image[s] # NoImage
ActivatedIsFilled ==
    /\ Filled(slot)
    /\ tx.health # "none" => Filled(tx.health)
    /\ \A i \in DOMAIN history : Filled(history[i].slot)
    /\ \A p \in Cli :
          /\ cli[p].pc \in Uncommitted \ {"slot"} => Filled(cli[p].active)
          /\ cli[p].pc \in {"flip", "commit", "clean", "load", "loadback"} => Filled(Target(p))
          /\ \A i \in DOMAIN cli[p].hist : Filled(cli[p].hist[i].slot)

\* A record in state staging is the work of a process that will write it again.
StagingIsOwned ==
    recovered /\ tx.state = "staging" =>
        \E p \in Cli : cli[p].id = tx.id /\ cli[p].pc \in {"stage", "verify"}

\* The first part of the inductive invariant: what makes the active slot verified.
UpdateInv == UpdateType /\ Numbered /\ OnlyVerified /\ ActivatedIsFilled /\ StagingIsOwned

\* Updates that are under way together know of each other; one that is alone
\* finds the image it read still where it was, also after its commit.
OverlapKnown ==
    /\ \A p, q \in Cli : p # q /\ cli[p].id # 0 /\ cli[q].id # 0 => cli[p].id \in overlapped
    /\ \A p \in Cli : cli[p].pc \in Uncommitted \ {"slot"} /\ cli[p].id \notin overlapped
                        => image[cli[p].active] = was[cli[p].id]
CommittedAlone ==
    tx.state = "committed" /\ tx.id \notin overlapped =>
        /\ \A p \in Cli : cli[p].pc \notin Uncommitted
        /\ tx.id # 0 /\ tx.health # "none" /\ image[tx.health] = was[tx.id]

\* The inductive invariant of the updates.
UpdateSafe == UpdateInv /\ OverlapKnown /\ CommittedAlone

-----------------------------------------------------------------------------
\* The constants.
LEMMA UpdateFacts ==
    /\ MaxTx \in Nat \ {0} /\ MaxEntries \in Nat \ {0} /\ NoImage = MaxTx + 1
    /\ TxIds = 1 .. MaxTx /\ Slots = {"a", "b"}
    /\ \A s \in Slots : Other(s) \in Slots /\ Other(s) # s /\ Other(Other(s)) = s
    /\ Idle \in Commands /\ NoTx \in Records
  BY UpdateConfig DEF NoImage, TxIds, Slots, Other, Idle, Commands, Pcs, NoTx, Records

\* The invariant holds of the machine as it is delivered.
LEMMA UpdateInitSafe == Init => UpdateSafe
  <1> SUFFICES ASSUME Init
               PROVE  UpdateSafe
    OBVIOUS
  <1>1. UpdateType
    BY UpdateFacts DEF Init, UpdateType
  <1>2. Numbered /\ OnlyVerified
    BY UpdateFacts DEF Init, Idle, Numbered, OnlyVerified, Uncommitted, Verified
  <1>3. ActivatedIsFilled /\ StagingIsOwned
    BY UpdateFacts
       DEF Init, Idle, NoTx, ActivatedIsFilled, Filled, StagingIsOwned, Uncommitted
  <1>4. OverlapKnown /\ CommittedAlone
    BY DEF Init, Idle, NoTx, OverlapKnown, CommittedAlone, Uncommitted
  <1> QED
    BY <1>1, <1>2, <1>3, <1>4 DEF UpdateSafe, UpdateInv

\* The first entry with an id exists when any does.
LEMMA EntryFacts ==
    ASSUME NEW S, NEW h \in Seq(S), NEW id, Has(h, id)
    PROVE  \E i \in DOMAIN h : Entry(h, id) = h[i] /\ h[i].id = id
  <1> DEFINE T == {i \in DOMAIN h : h[i].id = id}
  <1>1. Len(h) \in Nat /\ DOMAIN h = 1 .. Len(h) /\ T \in SUBSET Nat /\ T # {}
    BY DEF Has
  <1>2. PICK x \in T : \A y \in T : ~(<<y, x>> \in OpToRel(<, Nat))
    BY Zenon, <1>1, NatLessThanWellFounded, WFMin
  <1>3. \A y \in T : ~(y < x)
    BY Zenon, <1>1, <1>2 DEF OpToRel
  <1>4. \A j \in 1 .. x - 1 : h[j].id # id
    <2> SUFFICES ASSUME NEW j \in 1 .. x - 1, h[j].id = id
                 PROVE  FALSE
      OBVIOUS
    <2>1. j \in DOMAIN h /\ j < x
      BY <1>1
    <2> QED
      BY <1>3, <2>1
  <1>5. \E i \in DOMAIN h : h[i].id = id /\ \A j \in 1 .. i - 1 : h[j].id # id
    BY <1>4
  <1> QED
    BY Zenon, <1>5 DEF Entry

\* mark-good changes the mark of one entry and nothing else.
LEMMA MarkedFacts ==
    ASSUME NEW h \in Seq(Entries), NEW id
    PROVE  /\ MarkedGood(h, id) \in Seq(Entries) /\ DOMAIN MarkedGood(h, id) = DOMAIN h
           /\ \A i \in DOMAIN h : /\ MarkedGood(h, id)[i].slot = h[i].slot
                                  /\ h[i].good => MarkedGood(h, id)[i].good
  <1>1. \A i \in DOMAIN h : h[i] \in Entries
    OBVIOUS
  <1>2. \A i \in DOMAIN h : [h[i] EXCEPT !.good = TRUE] \in Entries
    BY Zenon, <1>1 DEF Entries
  <1>3. /\ MarkedGood(h, id) \in [DOMAIN h -> Entries]
    BY <1>1, <1>2 DEF MarkedGood
  <1>4. MarkedGood(h, id) \in Seq(Entries) /\ DOMAIN MarkedGood(h, id) = DOMAIN h
    BY <1>3
  <1>5. \A i \in DOMAIN h : \/ MarkedGood(h, id)[i] = h[i]
                            \/ MarkedGood(h, id)[i] = [h[i] EXCEPT !.good = TRUE]
    BY DEF MarkedGood
  <1> QED
    BY Zenon, <1>1, <1>4, <1>5 DEF Entries

\* What the commands put into the history.
LEMMA AddedFacts ==
    ASSUME NEW h \in Seq(Entries), NEW e \in Entries
    PROVE  /\ Added(h, e, MaxEntries) \in Seq(Entries)
           /\ Len(Added(h, e, MaxEntries)) <= MaxEntries
           /\ \A k \in DOMAIN Added(h, e, MaxEntries) :
                 \/ Added(h, e, MaxEntries)[k] = e
                 \/ \E i \in DOMAIN h : Added(h, e, MaxEntries)[k] = h[i]
  <1> DEFINE more == Append(h, e)
  <1>1. /\ more \in Seq(Entries)
        /\ \A i \in DOMAIN more : more[i] = e \/ \E j \in DOMAIN h : more[i] = h[j]
    OBVIOUS
  <1> HIDE DEF more
  <1>2. /\ Prune(more, MaxEntries) \in Seq(Entries) /\ Len(Prune(more, MaxEntries)) <= MaxEntries
        /\ \A k \in DOMAIN Prune(more, MaxEntries) :
              \E i \in DOMAIN more : Prune(more, MaxEntries)[k] = more[i]
    BY <1>1, PruneEntries, UpdateFacts
  <1> QED
    BY <1>1, <1>2 DEF Added, more

\* The other processes, and the fields of a process that a step leaves alone.
Apart(p) == \A q \in Cli \ {p} : cli'[q] = cli[q]

\* A step of process p that changes its place and nothing else of it.
LEMMA GotoFacts ==
    ASSUME UpdateType, NEW p \in Cli, NEW pc \in Pcs, Goto(p, pc)
    PROVE  /\ cli' \in [Cli -> Commands] /\ Apart(p)
           /\ cli'[p].pc = pc /\ cli'[p].id = cli[p].id /\ cli'[p].active = cli[p].active
           /\ cli'[p].hist = cli[p].hist
  <1>1. cli[p] \in Commands /\ cli \in [Cli -> Commands]
    BY DEF UpdateType
  <1>2. cli' = [cli EXCEPT ![p] = [cli[p] EXCEPT !.pc = pc]]
    BY DEF Goto
  <1> DEFINE c == [cli[p] EXCEPT !.pc = pc]
  <1>3. /\ c \in Commands /\ c.pc = pc /\ c.id = cli[p].id /\ c.active = cli[p].active
        /\ c.hist = cli[p].hist
    BY Zenon, <1>1 DEF Commands
  <1> HIDE DEF c
  <1>4. cli' = [cli EXCEPT ![p] = c]
    BY <1>2 DEF c
  <1> QED
    BY <1>1, <1>3, <1>4 DEF Apart

\* A step of process p that sets what it holds.
LEMMA SetFacts ==
    ASSUME UpdateType, NEW p \in Cli, NEW c \in Commands, cli' = [cli EXCEPT ![p] = c]
    PROVE  cli' \in [Cli -> Commands] /\ Apart(p) /\ cli'[p] = c
  BY DEF UpdateType, Apart

\* A step that reads the history for an addition: what p will save has the
\* entry of its update, or of a rollback, added.
LEMMA LoadAdds ==
    ASSUME UpdateType, NEW p \in Cli, LoadHistory(p) \/ LoadRollback(p)
    PROVE  \E id \in 0 .. MaxTx :
              cli' = [cli EXCEPT ![p] = [cli[p] EXCEPT !.pc = "save",
                          !.hist = Added(history, [id |-> id, slot |-> Target(p), good |-> FALSE],
                                         MaxEntries)]]
  <1>1. cli[p].id \in 0 .. MaxTx /\ 0 \in 0 .. MaxTx
    BY UpdateFacts DEF UpdateType, Commands
  <1>2. CASE LoadHistory(p)
    BY Zenon, <1>1, <1>2 DEF LoadHistory
  <1>3. CASE LoadRollback(p)
    BY Zenon, <1>1, <1>3 DEF LoadRollback
  <1> QED
    BY Zenon, <1>2, <1>3

\* Process p ends.
LEMMA EndsFacts ==
    ASSUME UpdateType, NEW p \in Cli, Ends(p)
    PROVE  cli' \in [Cli -> Commands] /\ Apart(p) /\ cli'[p] = Idle
  BY Zenon, SetFacts, UpdateFacts DEF Ends

\* Every step keeps the types.
LEMMA UpdateTypeStep == UpdateType /\ [Next]_vars => UpdateType'
  <1> SUFFICES ASSUME UpdateType, [Next]_vars
               PROVE  UpdateType'
    OBVIOUS
  <1>0. /\ \A p \in Cli : cli[p] \in Commands
        /\ \A p \in Cli : /\ cli[p].pc \in Pcs /\ cli[p].id \in 0 .. MaxTx /\ cli[p].active \in Slots
                          /\ cli[p].hist \in Seq(Entries)
                          /\ Target(p) \in Slots
        /\ "none" \in Slots \cup {"none"}
    BY UpdateFacts DEF UpdateType, Commands, Target
  <1>1. CASE UNCHANGED vars
    BY <1>1 DEF vars, UpdateType
  <1>2. ASSUME NEW p \in Cli, ApplyBegin(p)
        PROVE  UpdateType'
    <2>1. PICK bad \in BOOLEAN, delta \in BOOLEAN :
             /\ mismatched' = IF bad THEN mismatched \cup {next} ELSE mismatched
             /\ cli' = [cli EXCEPT ![p] = [Idle EXCEPT !.pc = "slot", !.id = next, !.delta = delta]]
      BY Zenon, <1>2 DEF ApplyBegin
    <2>2. next \in TxIds /\ next' = next + 1 /\ next' \in 1 .. MaxTx + 1 /\ next \in 0 .. MaxTx
      BY <1>2, UpdateFacts DEF ApplyBegin, UpdateType
    <2>3. [Idle EXCEPT !.pc = "slot", !.id = next, !.delta = delta] \in Commands
      BY Zenon, <2>2, UpdateFacts DEF Commands, Idle, Pcs
    <2>4. cli' \in [Cli -> Commands]
      BY Zenon, <2>1, <2>3, SetFacts
    <2>5. overlapped' \subseteq TxIds /\ mismatched' \subseteq TxIds
      BY <1>0, <1>2, <2>1, <2>2, UpdateFacts DEF ApplyBegin, UpdateType
    <2> QED
      BY <1>2, <2>2, <2>4, <2>5 DEF ApplyBegin, UpdateType, disk
  <1>3. ASSUME NEW p \in Cli, ApplyRefused(p) \/ Abort(p) \/ RollbackLastUpdate(p)
        PROVE  UpdateType'
    BY <1>3, UpdateFacts
       DEF ApplyRefused, Abort, RollbackLastUpdate, Aborted, UpdateType,
       Records,
        disk, run
  <1>4. ASSUME NEW p \in Cli, ReadSlot(p)
        PROVE  UpdateType'
    <2> DEFINE c == [cli[p] EXCEPT !.pc = "begin", !.active = slot]
    <2>1. cli' = [cli EXCEPT ![p] = c] /\ UNCHANGED <<disk, next, mismatched, overlapped>>
      BY Zenon, <1>4 DEF ReadSlot
    <2>2. c \in Commands
      BY Zenon, <1>0 DEF Commands, Pcs, UpdateType
    <2>3. cli' \in [Cli -> Commands]
      BY Zenon, <2>1, <2>2, SetFacts
    <2>4. was' \in [TxIds -> 0 .. MaxTx + 1]
      BY Zenon, <1>4, UpdateFacts DEF ReadSlot, UpdateType
    <2> QED
      BY <2>1, <2>3, <2>4 DEF UpdateType, disk
  <1>5. ASSUME NEW p \in Cli, BeginTx(p) \/ Verify(p) \/ Snapshot(p) \/ CommitTx(p)
        PROVE  UpdateType'
    <2>1. cli' \in [Cli -> Commands]
      <3>1. {"stage", "reject", "snapshot", "replace", "clean"} \subseteq Pcs
        BY Zenon DEF Pcs
      <3> QED
        BY <1>5, <3>1, GotoFacts DEF BeginTx, Verify, Snapshot, CommitTx
    <2>2. tx' \in Records
      BY <1>0, <1>5 DEF BeginTx, Verify, Snapshot, CommitTx, Saved, Records
    <2> QED
      BY Zenon, <1>5, <2>1, <2>2
         DEF BeginTx, Verify, Snapshot, CommitTx, UpdateType, run
  <1>6. ASSUME NEW p \in Cli, StageImage(p) \/ Replace(p) \/ Flip(p)
        PROVE  UpdateType'
    <2>1. cli' \in [Cli -> Commands]
      <3>1. {"verify", "flip", "commit"} \subseteq Pcs
        BY Zenon DEF Pcs
      <3> QED
        BY <1>6, <3>1, GotoFacts DEF StageImage, Replace, Flip
    <2>2. image' \in [Slots -> 0 .. MaxTx + 1] /\ slot' \in Slots
      BY <1>0, <1>6, UpdateFacts DEF StageImage, Replace, Flip, UpdateType
    <2> QED
      BY Zenon, <1>6, <2>1, <2>2 DEF StageImage, Replace, Flip, UpdateType, run
  <1>7. ASSUME NEW p \in Cli, StageFails(p) \/ Reject(p) \/ ReplaceFails(p)
        PROVE  UpdateType'
    <2>1. cli' \in [Cli -> Commands]
      BY Zenon, <1>7, EndsFacts DEF StageFails, Reject, ReplaceFails
    <2>2. tx' \in Records
      BY Zenon, <1>0, <1>7 DEF StageFails, Reject, ReplaceFails, Aborted, Saved, Records
    <2> QED
      BY Zenon, <1>7, <2>1, <2>2 DEF StageFails, Reject, ReplaceFails, UpdateType, run
  <1>8. ASSUME NEW p \in Cli, FlipFails(p) \/ CleanUp(p) \/ SaveHistory(p)
        PROVE  UpdateType'
    <2>1. cli' \in [Cli -> Commands]
      <3>1. "load" \in Pcs
        BY DEF Pcs
      <3> QED
        BY <1>8, <3>1, EndsFacts, GotoFacts DEF FlipFails, CleanUp, SaveHistory
    <2>2. history' \in Seq(Entries)
      BY <1>0, <1>8 DEF FlipFails, CleanUp, SaveHistory, UpdateType, disk
    <2> QED
      BY Zenon, <1>8, <2>1, <2>2
         DEF FlipFails, CleanUp, SaveHistory, UpdateType, disk, run
  <1>9. ASSUME NEW p \in Cli, LoadHistory(p) \/ LoadRollback(p)
        PROVE  UpdateType'
    <2>1. ASSUME NEW id \in 0 .. MaxTx
          PROVE  Added(history, [id |-> id, slot |-> Target(p), good |-> FALSE], MaxEntries) \in Seq(Entries)
      <3>1. [id |-> id, slot |-> Target(p), good |-> FALSE] \in Entries
        BY <1>0 DEF Entries
      <3> QED
        BY Zenon, <3>1, AddedFacts DEF UpdateType
    <2>3. PICK h \in Seq(Entries) : cli' = [cli EXCEPT ![p] = [cli[p] EXCEPT !.pc = "save", !.hist = h]]
      BY Zenon, <1>9, <2>1, LoadAdds
    <2>4. [cli[p] EXCEPT !.pc = "save", !.hist = h] \in Commands
      BY Zenon, <1>0 DEF Commands, Pcs
    <2>5. cli' \in [Cli -> Commands]
      BY Zenon, <2>3, <2>4, SetFacts
    <2> QED
      BY Zenon, <1>9, <2>5 DEF LoadHistory, LoadRollback, UpdateType, disk, run
  <1>10. ASSUME NEW p \in Cli, LoadMarked(p) \/ LoadPruned(p)
         PROVE  UpdateType'
    <2>1. PICK h \in Seq(Entries) : cli' = [cli EXCEPT ![p] = [Idle EXCEPT !.pc = "save", !.hist = h]]
      <3>1. \A max \in 1 .. MaxEntries : max \in Nat \ {0}
        BY UpdateFacts
      <3> QED
        BY Zenon, <1>10, <3>1, MarkedFacts, PruneEntries, UpdateFacts DEF LoadMarked,
           LoadPruned, UpdateType
    <2>2. [Idle EXCEPT !.pc = "save", !.hist = h] \in Commands
      BY Zenon, UpdateFacts DEF Commands, Idle, Pcs
    <2> QED
      BY Zenon, <1>10, <2>1, <2>2 DEF LoadMarked, LoadPruned, UpdateType, disk, run
  <1>11. ASSUME NEW p \in Cli, HistoryRollback(p)
         PROVE  UpdateType'
    <2>1. PICK s \in Slots :
             /\ slot' = s
             /\ cli' = [cli EXCEPT ![p] = [Idle EXCEPT !.pc = "loadback", !.active = Other(s)]]
      <3>1. PICK i \in TxIds :
               /\ Has(history, i) /\ slot' = Entry(history, i).slot
               /\ cli' = [cli EXCEPT ![p] = [Idle EXCEPT !.pc = "loadback",
                                               !.active = Other(Entry(history, i).slot)]]
        BY Zenon, <1>11 DEF HistoryRollback
      <3>2. Entry(history, i) \in Entries
        BY <3>1, EntryFacts DEF UpdateType
      <3> QED
        BY Zenon, <3>1, <3>2 DEF Entries
    <2>2. [Idle EXCEPT !.pc = "loadback", !.active = Other(s)] \in Commands
      BY Zenon, UpdateFacts DEF Commands, Idle, Pcs
    <2> QED
      BY <1>11, <2>1, <2>2 DEF HistoryRollback, UpdateType, run
  <1>12. CASE Reboot \/ CheckRecovery \/ ClearRecord
    BY <1>12, UpdateFacts DEF Reboot, CheckRecovery, ClearRecord, Aborted, UpdateType,
       Records, disk, run
  <1> QED
    BY <1>1, <1>2, <1>3, <1>4, <1>5, <1>6, <1>7, <1>8, <1>9, <1>10, <1>11, <1>12
       DEF Next,
       ApplyStep

-----------------------------------------------------------------------------
\* What a step of process p may do to its own state, and a step of a command to
\* the disk when it puts no image into a slot.
MoveOk(p) ==
    /\ Apart(p) /\ cli'[p].id \in {0, cli[p].id}
    /\ cli'[p].pc \in Uncommitted \cup Verified => cli'[p].id # 0
    /\ cli'[p].pc \in Verified => cli'[p].id \notin mismatched
    /\ cli'[p].pc \in Uncommitted =>
          cli[p].pc \in Uncommitted \ {"slot"} /\ cli'[p].active = cli[p].active
    /\ cli'[p].pc \in {"flip", "commit", "clean", "load", "loadback"} => Filled(Other(cli'[p].active))
    /\ \A i \in DOMAIN cli'[p].hist : Filled(cli'[p].hist[i].slot)
DiskOk ==
    /\ UNCHANGED <<image, next, mismatched, was, overlapped>>
    /\ Filled(slot') /\ \A i \in DOMAIN history' : Filled(history'[i].slot)
    /\ tx'.health # "none" => Filled(tx'.health)

\* A step of process p that leaves the images alone keeps the invariant.
LEMMA CommandMoves ==
    ASSUME UpdateSafe, UpdateType', NEW p \in Cli, MoveOk(p), DiskOk, StagingIsOwned', CommittedAlone'
    PROVE  UpdateSafe'
  <1>0. UpdateType /\ Numbered /\ OnlyVerified /\ ActivatedIsFilled /\ OverlapKnown
    BY DEF UpdateSafe, UpdateInv
  <1>1. /\ next \in Nat /\ 0 < next /\ \A q \in Cli : cli[q].id \in Nat
        /\ UNCHANGED <<image, next, mismatched, was, overlapped>>
        /\ \A q \in Cli \ {p} : cli'[q] = cli[q]
    BY <1>0, UpdateFacts DEF UpdateType, Commands, DiskOk, MoveOk, Apart
  <1>2. Numbered'
    BY <1>0, <1>1 DEF Numbered, MoveOk
  <1>3. OnlyVerified'
    BY Zenon, <1>0, <1>1 DEF OnlyVerified, MoveOk
  <1>4. ActivatedIsFilled'
    BY <1>0, <1>1 DEF ActivatedIsFilled, MoveOk, DiskOk, Filled, Target
  <1>5. OverlapKnown'
    BY <1>0, <1>1 DEF OverlapKnown, MoveOk, Numbered
  <1> QED
    BY <1>2, <1>3, <1>4, <1>5 DEF UpdateSafe, UpdateInv

\* The steps of an update before it writes into a slot.
LEMMA PreparationKeeps ==
    ASSUME UpdateSafe, UpdateType', NEW p \in Cli,
           BeginTx(p) \/ StageImage(p) \/ Verify(p) \/ Snapshot(p)
    PROVE  UpdateSafe'
  <1>0. UpdateType /\ Numbered /\ OnlyVerified /\ ActivatedIsFilled /\ OverlapKnown
        /\ StagingIsOwned /\ CommittedAlone
    BY Zenon DEF UpdateSafe, UpdateInv
  <1>1. PICK pc \in {"stage", "verify", "reject", "snapshot", "replace"} :
           /\ Goto(p, pc)
           /\ pc = "stage" => cli[p].pc = "begin"
           /\ pc = "verify" => cli[p].pc = "stage"
           /\ pc \in {"reject", "snapshot"} => cli[p].pc = "verify"
           /\ pc = "snapshot" => cli[p].id \notin mismatched
           /\ pc = "replace" => cli[p].pc = "snapshot"
    BY DEF BeginTx, StageImage, Verify, Snapshot, At
  <1>2. pc \in Pcs /\ cli[p].pc \in Uncommitted \ {"slot"}
    BY Zenon, <1>1 DEF Pcs, Uncommitted
  <1>3. /\ Apart(p) /\ cli'[p].pc = pc /\ cli'[p].id = cli[p].id /\ cli'[p].active = cli[p].active
        /\ cli'[p].hist = cli[p].hist
    BY Zenon, <1>0, <1>1, <1>2, GotoFacts
  <1>4. MoveOk(p)
    BY Zenon, <1>0, <1>1, <1>2, <1>3
       DEF MoveOk, Numbered, OnlyVerified, ActivatedIsFilled,
       Verified, Uncommitted
  <1>5. DiskOk
    <2>1. UNCHANGED <<slot, image, history, next, mismatched, was, overlapped>>
      BY Zenon DEF BeginTx, StageImage, Verify, Snapshot, run
    <2>2. \/ tx' = tx \/ tx'.health = "none" \/ tx'.health = cli[p].active
      BY DEF BeginTx, StageImage, Verify, Snapshot, Saved
    <2>3. Filled(cli[p].active)
      BY <1>0, <1>2 DEF ActivatedIsFilled
    <2> QED
      BY Zenon, <1>0, <2>1, <2>2, <2>3 DEF DiskOk, ActivatedIsFilled
  <1>6. StagingIsOwned'
    <2>1. CASE StageImage(p)
      <3>1. tx' = tx /\ recovered' = recovered /\ pc = "verify"
        BY Zenon, <1>3, <2>1, GotoFacts, <1>0 DEF StageImage, run, Pcs
      <3>2. \A q \in Cli : /\ cli'[q].id = cli[q].id
                           /\ cli[q].pc \in {"stage", "verify"} => cli'[q].pc \in {"stage", "verify"}
        BY Zenon, <1>3, <3>1 DEF Apart
      <3> QED
        BY Zenon, <1>0, <3>1, <3>2 DEF StagingIsOwned
    <2>2. CASE ~StageImage(p)
      <3>1. tx'.state = "staging" => pc = "stage" /\ tx'.id = cli[p].id
        BY <1>0, <1>3, <2>2, GotoFacts DEF BeginTx, Verify, Snapshot, Saved, Pcs
      <3> QED
        BY Zenon, <1>3, <3>1 DEF StagingIsOwned
    <2> QED
      BY Zenon, <2>1, <2>2
  <1>7. CommittedAlone'
    <2>1. UNCHANGED <<image, was, overlapped>> /\ (tx' = tx \/ tx'.state \in {"staging", "verifying"})
      BY DEF BeginTx, StageImage, Verify, Snapshot, Saved, run
    <2> QED
      BY Zenon, <1>0, <1>2, <2>1 DEF CommittedAlone
  <1> QED
    BY Zenon, <1>4, <1>5, <1>6, <1>7, CommandMoves

\* A step after which process p is idle and the record aborted, or untouched.
LEMMA EndingKeeps ==
    ASSUME UpdateSafe, UpdateType', NEW p \in Cli,
           StageFails(p) \/ Reject(p) \/ ReplaceFails(p) \/ FlipFails(p) \/ SaveHistory(p)
    PROVE  UpdateSafe'
  <1>0. UpdateType /\ Numbered /\ OnlyVerified /\ ActivatedIsFilled /\ OverlapKnown
        /\ StagingIsOwned /\ CommittedAlone
    BY Zenon DEF UpdateSafe, UpdateInv
  <1>1. Apart(p) /\ cli'[p] = Idle
    BY Zenon, <1>0, EndsFacts
       DEF StageFails, Reject, ReplaceFails, FlipFails, SaveHistory
  <1>2. MoveOk(p)
    BY <1>0, <1>1 DEF MoveOk, Idle, Uncommitted, Verified
  <1>3. UNCHANGED <<slot, image, next, mismatched, was, overlapped, recovered>>
    BY DEF StageFails, Reject, ReplaceFails, FlipFails, SaveHistory, run, disk
  <1>4. \/ tx'.state = "aborted" /\ tx'.health \in {"none", cli[p].active}
              /\ cli[p].pc \in Uncommitted \ {"slot"}
        \/ tx' = tx /\ cli[p].pc \in {"flip", "save"}
    BY Zenon, <1>0
       DEF StageFails, Reject, ReplaceFails, FlipFails, SaveHistory, Aborted, Saved,
       At, Uncommitted,
        disk
  <1>5. history' = history \/ history' = cli[p].hist
    BY Zenon DEF StageFails, Reject, ReplaceFails, FlipFails, SaveHistory, disk
  <1>6. DiskOk
    BY Zenon, <1>0, <1>3, <1>4, <1>5 DEF DiskOk, ActivatedIsFilled
  <1>7. StagingIsOwned'
    <2>1. CASE tx'.state = "aborted"
      BY Zenon, <2>1 DEF StagingIsOwned
    <2>2. CASE tx' = tx /\ cli[p].pc \in {"flip", "save"}
      BY Zenon, <1>0, <1>1, <1>3, <2>2 DEF StagingIsOwned, Apart
    <2> QED
      BY Zenon, <1>4, <2>1, <2>2
  <1>8. CommittedAlone'
    BY <1>0, <1>1, <1>3, <1>4 DEF CommittedAlone, Apart, Idle, Uncommitted
  <1> QED
    BY Zenon, <1>2, <1>6, <1>7, <1>8, CommandMoves

\* The slot is flipped to the image that was just put there, and the record
\* committed with the slot to go back to.
LEMMA CommitKeeps ==
    ASSUME UpdateSafe, UpdateType', NEW p \in Cli, Flip(p) \/ CommitTx(p) \/ CleanUp(p)
    PROVE  UpdateSafe'
  <1>0. UpdateType /\ Numbered /\ OnlyVerified /\ ActivatedIsFilled /\ OverlapKnown
        /\ StagingIsOwned /\ CommittedAlone
    BY Zenon DEF UpdateSafe, UpdateInv
  <1>1. /\ cli[p].pc \in {"flip", "commit", "clean"} /\ Apart(p)
        /\ \/ cli'[p] = Idle /\ cli[p].pc = "clean"
           \/ /\ cli'[p].id = cli[p].id /\ cli'[p].active = cli[p].active
              /\ cli'[p].hist = cli[p].hist
              /\ \/ cli[p].pc = "flip" /\ cli'[p].pc = "commit"
                 \/ cli[p].pc = "commit" /\ cli'[p].pc = "clean"
                 \/ cli[p].pc = "clean" /\ cli'[p].pc = "load"
    <2>1. {"commit", "clean", "load"} \subseteq Pcs
      BY Zenon DEF Pcs
    <2>2. CASE Flip(p)
      BY Zenon, <1>0, <2>1, <2>2, GotoFacts DEF Flip, At
    <2>3. CASE CommitTx(p)
      BY Zenon, <1>0, <2>1, <2>3, GotoFacts DEF CommitTx, At
    <2>4. CASE CleanUp(p)
      BY Zenon, <1>0, <2>1, <2>4, GotoFacts, EndsFacts DEF CleanUp, At
    <2> QED
      BY <2>2, <2>3, <2>4
  <1>2. UNCHANGED <<image, history, next, mismatched, was, overlapped, recovered>>
    BY Zenon DEF Flip, CommitTx, CleanUp, run
  <1>3. slot' \in {slot, Target(p)} /\ (slot' = slot \/ cli[p].pc = "flip")
    BY Zenon DEF Flip, CommitTx, CleanUp, At
  <1>4. \/ tx' = tx /\ cli[p].pc # "commit"
        \/ /\ cli[p].pc = "commit" /\ cli'[p].pc = "clean"
           /\ tx'.state = "committed" /\ tx'.id = cli[p].id /\ tx'.health = cli[p].active
    <2>1. "clean" \in Pcs
      BY Zenon DEF Pcs
    <2> QED
      BY <1>0, <2>1, GotoFacts DEF Flip, CommitTx, CleanUp, Saved, At
  <1>5. MoveOk(p)
    BY <1>0, <1>1 DEF MoveOk, Idle, Uncommitted, Verified, Numbered, OnlyVerified,
       ActivatedIsFilled, Target
  <1>6. DiskOk
    BY Zenon, <1>0, <1>2, <1>3, <1>4 DEF DiskOk, ActivatedIsFilled, Uncommitted
  <1>7. StagingIsOwned'
    BY Zenon, <1>0, <1>1, <1>2, <1>4 DEF StagingIsOwned, Apart
  <1>8. CommittedAlone'
    <2>1. CASE tx' = tx
      BY <1>0, <1>1, <1>2, <2>1 DEF CommittedAlone, Apart, Idle, Uncommitted
    <2>2. CASE /\ cli[p].pc = "commit" /\ cli'[p].pc = "clean"
               /\ tx'.state = "committed" /\ tx'.id = cli[p].id /\ tx'.health = cli[p].active
      <3> SUFFICES ASSUME tx'.id \notin overlapped
                   PROVE  /\ \A q \in Cli : cli'[q].pc \notin Uncommitted
                          /\ tx'.id # 0 /\ tx'.health # "none" /\ image'[tx'.health] = was'[tx'.id]
        BY Zenon, <1>2 DEF CommittedAlone
      <3>1. cli[p].id # 0 /\ cli[p].id \notin overlapped
        BY Zenon, <1>0, <2>2 DEF Numbered, Uncommitted
      <3>2. \A q \in Cli \ {p} : cli[q].id = 0
        BY Zenon, <1>0, <3>1 DEF OverlapKnown
      <3>3. \A q \in Cli \ {p} : cli[q].pc \notin Uncommitted
        BY Zenon, <1>0, <3>2 DEF Numbered
      <3>4. \A q \in Cli : cli'[q].pc \notin Uncommitted
        BY Zenon, <1>1, <2>2, <3>3 DEF Apart, Uncommitted
      <3>5. image[cli[p].active] = was[cli[p].id]
        BY <1>0, <2>2, <3>1 DEF OverlapKnown, Uncommitted
      <3>6. cli[p].active # "none"
        BY Zenon, <1>0 DEF UpdateType, Commands, Slots
      <3> QED
        BY Zenon, <1>2, <2>2, <3>1, <3>4, <3>5, <3>6
    <2> QED
      BY Zenon, <1>4, <2>1, <2>2
  <1> QED
    BY Zenon, <1>5, <1>6, <1>7, <1>8, CommandMoves

\* A command that reads the history is about to save entries whose slots are filled.
LEMMA HistoryReadKeeps ==
    ASSUME UpdateSafe, UpdateType', NEW p \in Cli,
           LoadHistory(p) \/ LoadRollback(p) \/ LoadMarked(p) \/ LoadPruned(p)
    PROVE  UpdateSafe'
  <1>0. UpdateType /\ Numbered /\ OnlyVerified /\ ActivatedIsFilled /\ OverlapKnown
        /\ StagingIsOwned /\ CommittedAlone
    BY Zenon DEF UpdateSafe, UpdateInv
  <1> DEFINE FilledIn(h) == h \in Seq(Entries) /\ \A i \in DOMAIN h : Filled(h[i].slot)
  <1>1. FilledIn(history)
    BY Zenon, <1>0 DEF UpdateType, ActivatedIsFilled
  <1>2. /\ Apart(p) /\ cli'[p].pc = "save" /\ cli'[p].id \in {0, cli[p].id} /\ FilledIn(cli'[p].hist)
        /\ cli[p].pc \in {"load", "loadback", "idle"}
    <2>1. CASE LoadHistory(p) \/ LoadRollback(p)
      <3>1. ASSUME NEW id \in 0 .. MaxTx
            PROVE  Filled(Target(p)) =>
                      FilledIn(Added(history, [id |-> id, slot |-> Target(p), good |-> FALSE], MaxEntries))
        <4>1. [id |-> id, slot |-> Target(p), good |-> FALSE] \in Entries
          BY Zenon, <1>0, UpdateFacts DEF Entries, UpdateType, Commands, Target
        <4> DEFINE e == [id |-> id, slot |-> Target(p), good |-> FALSE]
        <4>2. e \in Entries /\ e.slot = Target(p)
          BY Zenon, <4>1
        <4> HIDE DEF e
        <4>3. /\ Added(history, e, MaxEntries) \in Seq(Entries)
              /\ \A k \in DOMAIN Added(history, e, MaxEntries) :
                    \/ Added(history, e, MaxEntries)[k] = e
                    \/ \E i \in DOMAIN history : Added(history, e, MaxEntries)[k] = history[i]
          BY Zenon, <1>1, <4>2, AddedFacts
        <4>4. Filled(Target(p)) => FilledIn(Added(history, e, MaxEntries))
          BY Zenon, <1>1, <4>2, <4>3
        <4> QED
          BY Zenon, <4>4 DEF e
      <3>2. 0 \in 0 .. MaxTx /\ cli[p].id \in 0 .. MaxTx /\ cli[p] \in Commands
        BY <1>0, UpdateFacts DEF UpdateType, Commands
      <3>3. cli[p].pc \in {"load", "loadback"} /\ Filled(Target(p))
        BY SMTT(30), <1>0, <2>1 DEF LoadHistory, LoadRollback, At, ActivatedIsFilled
      <3>4. PICK h : /\ FilledIn(h)
                     /\ cli' = [cli EXCEPT ![p] = [cli[p] EXCEPT !.pc = "save", !.hist = h]]
        BY Zenon, <1>0, <2>1, <3>1, <3>3, LoadAdds
      <3> DEFINE c == [cli[p] EXCEPT !.pc = "save", !.hist = h]
      <3>5. c \in Commands /\ c.pc = "save" /\ c.id = cli[p].id /\ c.hist = h
        BY Zenon, <3>2, <3>4 DEF Commands, Pcs
      <3> HIDE DEF c
      <3>6. Apart(p) /\ cli'[p] = c
        BY Zenon, <1>0, <3>4, <3>5, SetFacts DEF c
      <3> QED
        BY Zenon, <3>3, <3>4, <3>5, <3>6
    <2>2. CASE LoadMarked(p) \/ LoadPruned(p)
      <3>1. PICK h : /\ FilledIn(h)
                     /\ cli' = [cli EXCEPT ![p] = [Idle EXCEPT !.pc = "save", !.hist = h]]
        <4>1. CASE LoadMarked(p)
          <5>1. PICK i \in TxIds : cli' = [cli EXCEPT ![p] =
                          [Idle EXCEPT !.pc = "save", !.hist = MarkedGood(history, i)]]
            BY Zenon, <4>1 DEF LoadMarked
          <5>2. FilledIn(MarkedGood(history, i))
            BY SMTT(30), <1>1, MarkedFacts
          <5> QED
            BY Zenon, <5>1, <5>2
        <4>2. CASE LoadPruned(p)
          <5>1. PICK max \in 1 .. MaxEntries : cli' = [cli EXCEPT ![p] =
                          [Idle EXCEPT !.pc = "save", !.hist = Prune(history, max)]]
            BY Zenon, <4>2 DEF LoadPruned
          <5>2. max \in Nat \ {0}
            BY UpdateFacts
          <5>3. FilledIn(Prune(history, max))
            BY <1>1, <5>2, PruneEntries
          <5> QED
            BY Zenon, <5>1, <5>3
        <4> QED
          BY Zenon, <2>2, <4>1, <4>2
      <3> DEFINE c == [Idle EXCEPT !.pc = "save", !.hist = h]
      <3>2. c \in Commands /\ c.pc = "save" /\ c.id = 0 /\ c.hist = h
        BY Zenon, <3>1, UpdateFacts DEF Commands, Idle, Pcs
      <3> HIDE DEF c
      <3>3. Apart(p) /\ cli'[p] = c
        BY Zenon, <1>0, <3>1, <3>2, SetFacts DEF c
      <3>4. cli[p].pc = "idle"
        BY Zenon, <2>2 DEF LoadMarked, LoadPruned, At
      <3> QED
        BY Zenon, <3>1, <3>2, <3>3, <3>4
    <2> QED
      BY <2>1, <2>2
  <1> HIDE DEF FilledIn
  <1>3. UNCHANGED <<slot, image, tx, history, next, mismatched, was, overlapped, recovered>>
    BY Zenon DEF LoadHistory, LoadRollback, LoadMarked, LoadPruned, disk, run
  <1>4. MoveOk(p)
    BY Zenon, <1>0, <1>2 DEF MoveOk, Uncommitted, Verified, FilledIn
  <1>5. DiskOk
    BY Zenon, <1>0, <1>3 DEF DiskOk, ActivatedIsFilled
  <1>6. StagingIsOwned'
    BY Zenon, <1>0, <1>2, <1>3 DEF StagingIsOwned, Apart
  <1>7. CommittedAlone'
    BY Zenon, <1>0, <1>2, <1>3 DEF CommittedAlone, Apart, Uncommitted
  <1> QED
    BY Zenon, <1>4, <1>5, <1>6, <1>7, CommandMoves

\* The rollbacks make a slot active that held an image when it was recorded.
LEMMA RollbackKeeps ==
    ASSUME UpdateSafe, UpdateType', NEW p \in Cli,
           Abort(p) \/ RollbackLastUpdate(p) \/ HistoryRollback(p)
    PROVE  UpdateSafe'
  <1>0. UpdateType /\ Numbered /\ OnlyVerified /\ ActivatedIsFilled /\ OverlapKnown
        /\ StagingIsOwned /\ CommittedAlone
    BY DEF UpdateSafe, UpdateInv
  <1>1. CASE HistoryRollback(p)
    <2>1. PICK i \in TxIds :
             /\ Has(history, i) /\ slot' = Entry(history, i).slot
             /\ cli' = [cli EXCEPT ![p] = [Idle EXCEPT !.pc = "loadback",
                                             !.active = Other(Entry(history, i).slot)]]
      BY Zenon, <1>1 DEF HistoryRollback
    <2>2. PICK k \in DOMAIN history : Entry(history, i) = history[k]
      BY <1>0, <2>1, EntryFacts DEF UpdateType
    <2>3. slot' \in Slots /\ Filled(slot')
      BY <1>0, <2>1, <2>2 DEF UpdateType, Entries, ActivatedIsFilled
    <2> DEFINE c == [Idle EXCEPT !.pc = "loadback", !.active = Other(slot')]
    <2>4. /\ c \in Commands /\ c.pc = "loadback" /\ c.id = 0 /\ c.hist = <<>>
          /\ Other(c.active) = slot'
      BY Zenon, <2>3, UpdateFacts DEF Commands, Idle, Pcs
    <2>5. cli' = [cli EXCEPT ![p] = c]
      BY <2>1
    <2> HIDE DEF c
    <2>6. Apart(p) /\ cli'[p] = c
      BY Zenon, <1>0, <2>4, <2>5, SetFacts
    <2>7. /\ UNCHANGED <<image, tx, history, next, mismatched, was, overlapped, recovered>>
          /\ cli[p].pc = "idle"
      BY Zenon, <1>1 DEF HistoryRollback, run, At
    <2>8. MoveOk(p)
      BY <2>3, <2>4, <2>6 DEF MoveOk, Uncommitted, Verified
    <2>9. DiskOk
      BY Zenon, <1>0, <2>3, <2>7 DEF DiskOk, ActivatedIsFilled
    <2>10. StagingIsOwned' /\ CommittedAlone'
      BY Zenon, <1>0, <2>4, <2>6, <2>7
         DEF StagingIsOwned, CommittedAlone, Apart, Uncommitted
    <2> QED
      BY SMTT(30), <2>8, <2>9, <2>10, CommandMoves
  <1>2. CASE Abort(p) \/ RollbackLastUpdate(p)
    <2>1. /\ cli[p].pc = "idle" /\ cli' = cli
          /\ UNCHANGED <<image, history, next, mismatched, was, overlapped, recovered>>
      BY <1>2 DEF Abort, RollbackLastUpdate, run, At
    <2>2. \/ tx' = tx /\ slot' = tx.health /\ tx.health # "none"
          \/ tx' = [tx EXCEPT !.state = "aborted"] /\ slot' = slot
      BY <1>2 DEF Abort, RollbackLastUpdate, Aborted
    <2>3. tx'.health = tx.health /\ (tx' = tx \/ tx'.state = "aborted")
      BY Zenon, <1>0, <2>2 DEF UpdateType, Records
    <2>4. MoveOk(p)
      BY <1>0, <2>1 DEF MoveOk, Uncommitted, Verified, ActivatedIsFilled, Apart
    <2>5. DiskOk
      BY Zenon, <1>0, <2>1, <2>2, <2>3 DEF DiskOk, ActivatedIsFilled
    <2>6. StagingIsOwned' /\ CommittedAlone'
      BY Zenon, <1>0, <2>1, <2>3 DEF StagingIsOwned, CommittedAlone
    <2> QED
      BY Zenon, <2>4, <2>5, <2>6, CommandMoves
  <1> QED
    BY Zenon, <1>1, <1>2

\* Only a verified image is put into a slot, and never into the one that was active
\* when its update began.
LEMMA ReplaceKeeps ==
    ASSUME UpdateSafe, UpdateType', NEW p \in Cli, Replace(p)
    PROVE  UpdateSafe'
  <1>0. UpdateType /\ Numbered /\ OnlyVerified /\ ActivatedIsFilled /\ OverlapKnown
        /\ StagingIsOwned /\ CommittedAlone
    BY Zenon DEF UpdateSafe, UpdateInv
  <1>1. /\ Apart(p) /\ cli'[p].pc = "flip" /\ cli'[p].id = cli[p].id /\ cli'[p].active = cli[p].active
        /\ cli'[p].hist = cli[p].hist
    <2>1. "flip" \in Pcs
      BY Zenon DEF Pcs
    <2> QED
      BY <1>0, <2>1, GotoFacts DEF Replace
  <1>2. /\ cli[p].pc = "replace" /\ image' = [image EXCEPT ![Target(p)] = cli[p].id]
        /\ UNCHANGED <<slot, tx, history, next, mismatched, was, overlapped, recovered>>
    BY Zenon DEF Replace, At, run
  <1>3. /\ cli[p].id # 0 /\ cli[p].id \notin mismatched /\ cli[p].id < next
        /\ cli[p].id \in 0 .. MaxTx /\ cli[p].id # NoImage
        /\ Target(p) \in Slots /\ Target(p) # cli[p].active /\ cli[p].active \in Slots
    BY <1>0, <1>2, UpdateFacts
       DEF Numbered, OnlyVerified, Verified, UpdateType, Commands,
       Target
  <1>4. /\ image'[Target(p)] = cli[p].id
        /\ \A s \in Slots \ {Target(p)} : image'[s] = image[s]
        /\ \A s \in Slots : Filled(s) => Filled(s)'
    BY Zenon, <1>0, <1>2, <1>3 DEF UpdateType, Filled
  <1>5. Numbered'
    BY <1>0, <1>1, <1>2, <1>3 DEF Numbered, Apart
  <1>6. OnlyVerified'
    <2>1. \A q \in Cli : cli'[q].pc \in Verified => cli'[q].id \notin mismatched
      BY SMTT(30), <1>0, <1>1, <1>3 DEF OnlyVerified, Apart
    <2> QED
      BY <1>0, <1>2, <1>3, <1>4, <2>1 DEF OnlyVerified
  <1>7. ActivatedIsFilled'
    <2>1. slot \in Slots /\ (tx.health # "none" => tx.health \in Slots)
          /\ (\A i \in DOMAIN history : history[i].slot \in Slots)
      <3>1. /\ slot \in Slots /\ tx.health \in Slots \cup {"none"}
            /\ \A i \in DOMAIN history : history[i] \in Entries
        BY <1>0 DEF UpdateType, Records
      <3> QED
        BY Zenon, <3>1 DEF Entries
    <2>2. Filled(slot)' /\ (tx'.health # "none" => Filled(tx.health)')
          /\ \A i \in DOMAIN history' : Filled(history[i].slot)'
      BY Zenon, <1>0, <1>2, <1>4, <2>1 DEF ActivatedIsFilled, Filled
    <2>3. ASSUME NEW q \in Cli
          PROVE  /\ cli'[q].pc \in Uncommitted \ {"slot"} => Filled(cli[q].active)'
                 /\ cli'[q].pc \in {"flip", "commit", "clean", "load", "loadback"} => Filled(Target(q))'
                 /\ \A i \in DOMAIN cli'[q].hist : Filled(cli[q].hist[i].slot)'
      <3>1. /\ cli[q].active \in Slots /\ Other(cli[q].active) \in Slots
            /\ \A i \in DOMAIN cli[q].hist : cli[q].hist[i].slot \in Slots
            /\ cli'[q].active = cli[q].active /\ cli'[q].hist = cli[q].hist
        <4>1. cli[q].hist \in Seq(Entries) /\ cli[q].active \in Slots
          BY Zenon, <1>0 DEF UpdateType, Commands
        <4>2. \A i \in DOMAIN cli[q].hist : cli[q].hist[i].slot \in Slots
          <5>1. \A i \in DOMAIN cli[q].hist : cli[q].hist[i] \in Entries
            BY <4>1
          <5> QED
            BY Zenon, <5>1 DEF Entries
        <4> QED
          BY Zenon, <1>1, <4>1, <4>2, UpdateFacts DEF Apart
      <3>2. CASE q = p
        <4>1. Filled(cli[p].active) /\ \A i \in DOMAIN cli[p].hist : Filled(cli[p].hist[i].slot)
          BY <1>0, <1>2 DEF ActivatedIsFilled, Uncommitted
        <4> QED
          BY SMTT(30), <1>3, <1>4, <3>1, <3>2, <4>1, UpdateFacts DEF Filled, Target
      <3>3. CASE q # p
        BY <1>0, <1>1, <1>4, <3>1, <3>3 DEF Filled, Target, ActivatedIsFilled, Apart
      <3> QED
        BY Zenon, <3>2, <3>3
    <2> QED
      BY Zenon, <1>2, <2>2, <2>3 DEF ActivatedIsFilled, Filled
  <1>8. StagingIsOwned'
    BY Zenon, <1>0, <1>1, <1>2 DEF StagingIsOwned, Apart
  <1>9. OverlapKnown'
    <2>1. ASSUME NEW q \in Cli, cli'[q].pc \in Uncommitted \ {"slot"}, cli'[q].id \notin overlapped
          PROVE  image'[cli'[q].active] = was[cli'[q].id]
      <3>1. CASE q = p
        BY <1>0, <1>1, <1>2, <1>3, <1>4, <2>1, <3>1 DEF OverlapKnown, Uncommitted
      <3>2. CASE q # p
        BY SMTT(30), <1>0, <1>1, <1>3, <2>1, <3>2 DEF OverlapKnown, Numbered, Apart
      <3> QED
        BY Zenon, <3>1, <3>2
    <2> QED
      BY <1>0, <1>1, <1>2, <2>1 DEF OverlapKnown, Apart
  <1>10. CommittedAlone'
    BY Zenon, <1>0, <1>2 DEF CommittedAlone, Uncommitted
  <1> QED
    BY Zenon, <1>5, <1>6, <1>7, <1>8, <1>9, <1>10 DEF UpdateSafe, UpdateInv

\* A new update gets the next number and is told apart from the others under way.
LEMMA BeginKeeps ==
    ASSUME UpdateSafe, UpdateType', NEW p \in Cli, ApplyBegin(p)
    PROVE  UpdateSafe'
  <1>0. UpdateType /\ Numbered /\ OnlyVerified /\ ActivatedIsFilled /\ OverlapKnown
        /\ StagingIsOwned /\ CommittedAlone
    BY DEF UpdateSafe, UpdateInv
  <1>1. PICK delta \in BOOLEAN :
          cli' = [cli EXCEPT ![p] = [Idle EXCEPT !.pc = "slot", !.id = next, !.delta = delta]]
    BY Zenon DEF ApplyBegin
  <1> DEFINE c == [Idle EXCEPT !.pc = "slot", !.id = next, !.delta = delta]
  <1>2. next \in 1 .. MaxTx /\ next' = next + 1
    BY <1>0, UpdateFacts DEF ApplyBegin, UpdateType
  <1>3. c \in Commands /\ c.pc = "slot" /\ c.id = next /\ c.hist = <<>>
    <2>1. next \in 0 .. MaxTx
      BY <1>2, UpdateFacts
    <2>2. [Idle EXCEPT !.pc = "slot", !.id = next, !.delta = delta] \in Commands
      BY Zenon, <2>1, UpdateFacts DEF Commands, Idle, Pcs
    <2> QED
      BY Zenon, <2>2 DEF Idle
  <1> HIDE DEF c
  <1>4. Apart(p) /\ cli'[p] = c
    BY Zenon, <1>0, <1>1, <1>3, SetFacts DEF c
  <1>5. /\ UNCHANGED <<slot, image, tx, history, was, recovered>> /\ tx.state = "none"
        /\ mismatched' \in {mismatched, mismatched \cup {next}}
    BY Zenon DEF ApplyBegin, disk
  <1>6. /\ \A q \in Cli : cli[q].id # 0 => cli[q].id \in overlapped' /\ next \in overlapped'
        /\ overlapped \subseteq overlapped'
    <2> DEFINE others == {cli[q].id : q \in Cli} \ {0}
    <2>1. overlapped' = overlapped \cup others \cup (IF others = {} THEN {} ELSE {next})
      BY Zenon DEF ApplyBegin
    <2>2. \A q \in Cli : cli[q].id # 0 => cli[q].id \in others
      OBVIOUS
    <2> HIDE DEF others
    <2> QED
      BY <2>1, <2>2
  <1>7. \A q \in Cli : cli[q].id \in 0 .. MaxTx
    BY Zenon, <1>0 DEF UpdateType, Commands
  <1>8. Numbered'
    <2>1. \A q \in Cli : cli'[q].id < next' /\ cli'[q].id \in 0 .. MaxTx
      BY <1>0, <1>2, <1>3, <1>4, <1>7 DEF Numbered, Apart
    <2>2. \A q \in Cli : cli'[q].pc \in Uncommitted \cup Verified => cli'[q].id # 0
      BY <1>0, <1>2, <1>3, <1>4 DEF Numbered, Apart
    <2>3. \A q, r \in Cli : q # r /\ cli'[q].id # 0 => cli'[q].id # cli'[r].id
      BY <1>0, <1>2, <1>3, <1>4, <1>7 DEF Numbered, Apart
    <2>4. \A i \in mismatched' : i < next'
      BY <1>0, <1>2, <1>5, UpdateFacts DEF Numbered, UpdateType
    <2> QED
      BY Zenon, <2>1, <2>2, <2>3, <2>4 DEF Numbered
  <1>9. OnlyVerified'
    <2>1. \A q \in Cli : cli'[q].pc \in Verified => cli'[q].id \notin mismatched'
      BY <1>0, <1>2, <1>3, <1>4, <1>5, <1>7 DEF Numbered, OnlyVerified, Apart, Verified
    <2>2. \A s \in Slots : image[s] # NoImage => image[s] < next' /\ image[s] \notin mismatched'
      BY SMTT(30), <1>0, <1>2, <1>5, UpdateFacts DEF OnlyVerified, UpdateType
    <2> QED
      BY Zenon, <1>5, <2>1, <2>2 DEF OnlyVerified
  <1>10. ActivatedIsFilled' /\ StagingIsOwned'
    BY <1>0, <1>3, <1>4, <1>5
       DEF ActivatedIsFilled, Filled, Target, StagingIsOwned, Apart
  <1>11. OverlapKnown' /\ CommittedAlone'
    BY <1>0, <1>2, <1>3, <1>4, <1>5, <1>6 DEF OverlapKnown, CommittedAlone, Apart
  <1> QED
    BY SMTT(30), <1>8, <1>9, <1>10, <1>11 DEF UpdateSafe, UpdateInv

\* A refused command leaves everything but the number it took.
LEMMA RefusalKeeps ==
    ASSUME UpdateSafe, UpdateType', NEW p \in Cli, ApplyRefused(p)
    PROVE  UpdateSafe'
  <1>0. UpdateType /\ Numbered /\ OnlyVerified /\ ActivatedIsFilled /\ OverlapKnown
        /\ StagingIsOwned /\ CommittedAlone
    BY DEF UpdateSafe, UpdateInv
  <1>1. /\ UNCHANGED <<slot, image, tx, history, was, recovered, mismatched, overlapped, cli>>
        /\ next' = next + 1
    BY Zenon DEF ApplyRefused, disk
  <1>2. /\ next \in Nat /\ \A q \in Cli : cli[q].id \in Nat
        /\ \A s \in Slots : image[s] \in Nat
        /\ \A i \in mismatched : i \in Nat
    <2>1. /\ next \in 1 .. MaxTx + 1 /\ image \in [Slots -> 0 .. MaxTx + 1]
          /\ mismatched \subseteq 1 .. MaxTx /\ \A q \in Cli : cli[q].id \in 0 .. MaxTx
      BY Zenon, <1>0, UpdateFacts DEF UpdateType, Commands
    <2>2. MaxTx \in Nat
      BY Zenon, UpdateFacts
    <2> QED
      BY <2>1, <2>2
  <1>3. Numbered'
    BY <1>0, <1>1, <1>2 DEF Numbered
  <1>4. OnlyVerified'
    BY <1>0, <1>1, <1>2 DEF OnlyVerified
  <1>5. ActivatedIsFilled' /\ StagingIsOwned'
    BY <1>0, <1>1 DEF ActivatedIsFilled, Filled, Target, StagingIsOwned
  <1>6. OverlapKnown' /\ CommittedAlone'
    BY Zenon, <1>0, <1>1 DEF OverlapKnown, CommittedAlone
  <1> QED
    BY Zenon, <1>3, <1>4, <1>5, <1>6 DEF UpdateSafe, UpdateInv

\* An update notes the slot that is active, whose image is the one it must be able
\* to return to.
LEMMA ReadSlotKeeps ==
    ASSUME UpdateSafe, UpdateType', NEW p \in Cli, ReadSlot(p)
    PROVE  UpdateSafe'
  <1>0. UpdateType /\ Numbered /\ OnlyVerified /\ ActivatedIsFilled /\ OverlapKnown
        /\ StagingIsOwned /\ CommittedAlone
    BY DEF UpdateSafe, UpdateInv
  <1>1. cli' = [cli EXCEPT ![p] = [cli[p] EXCEPT !.pc = "begin", !.active = slot]]
    BY Zenon DEF ReadSlot
  <1> DEFINE c == [cli[p] EXCEPT !.pc = "begin", !.active = slot]
  <1>2. c \in Commands /\ c.pc = "begin" /\ c.id = cli[p].id /\ c.active = slot /\ c.hist = cli[p].hist
    BY Zenon, <1>0 DEF UpdateType, Commands, Pcs
  <1> HIDE DEF c
  <1>3. Apart(p) /\ cli'[p] = c
    BY Zenon, <1>0, <1>1, <1>2, SetFacts DEF c
  <1>4. /\ UNCHANGED <<slot, image, tx, history, recovered, next, mismatched, overlapped>>
        /\ cli[p].pc = "slot" /\ was' = [was EXCEPT ![cli[p].id] = image[slot]]
    BY DEF ReadSlot, disk, At
  <1>5. cli[p].id # 0 /\ cli[p].id \in TxIds
    BY <1>0, <1>4, UpdateFacts DEF Numbered, UpdateType, Commands, Uncommitted
  <1>6. was'[cli[p].id] = image[slot] /\ \A i \in TxIds \ {cli[p].id} : was'[i] = was[i]
    BY Zenon, <1>0, <1>4, <1>5 DEF UpdateType
  <1>7. Numbered'
    BY <1>0, <1>2, <1>3, <1>4, <1>5 DEF Numbered, Apart
  <1>8. OnlyVerified'
    BY Zenon, <1>0, <1>2, <1>3, <1>4 DEF OnlyVerified, Apart, Verified
  <1>9. ActivatedIsFilled'
    BY SMTT(30), <1>0, <1>2, <1>3, <1>4 DEF ActivatedIsFilled, Filled, Target, Apart
  <1>10. StagingIsOwned'
    BY Zenon, <1>0, <1>2, <1>3, <1>4 DEF StagingIsOwned, Apart
  <1>11. OverlapKnown'
    <2>1. \A q, r \in Cli : q # r /\ cli'[q].id # 0 /\ cli'[r].id # 0 => cli'[q].id \in overlapped'
      BY <1>0, <1>2, <1>3, <1>4 DEF OverlapKnown, Apart
    <2>2. ASSUME NEW q \in Cli, cli'[q].pc \in Uncommitted \ {"slot"}, cli'[q].id \notin overlapped'
          PROVE  image'[cli'[q].active] = was'[cli'[q].id]
      <3>1. CASE q = p
        BY SMTT(30), <1>2, <1>3, <1>4, <1>6, <3>1
      <3>2. CASE q # p
        <4>1. cli'[q] = cli[q] /\ cli[q].id # cli[p].id /\ cli[q].id \in TxIds
          <5>1. cli'[q] = cli[q] /\ cli[q].id # 0
            BY Zenon, <1>0, <1>3, <2>2, <3>2 DEF Apart, Numbered
          <5>2. cli[q].id \in 0 .. MaxTx /\ cli[q].id # cli[p].id
            BY Zenon, <1>0, <3>2, <5>1 DEF Numbered, UpdateType, Commands
          <5> QED
            BY <5>1, <5>2, UpdateFacts
        <4> QED
          BY <1>0, <1>4, <1>6, <2>2, <4>1 DEF OverlapKnown
      <3> QED
        BY Zenon, <3>1, <3>2
    <2> QED
      BY Zenon, <2>1, <2>2 DEF OverlapKnown
  <1>12. CommittedAlone'
    BY <1>0, <1>4 DEF CommittedAlone, Uncommitted
  <1> QED
    BY <1>7, <1>8, <1>9, <1>10, <1>11, <1>12 DEF UpdateSafe, UpdateInv

\* A reboot ends every command; the boot check ends what was being staged; the
\* operator removes a record that is done.
LEMMA WorldKeeps ==
    ASSUME UpdateSafe, UpdateType', Reboot \/ CheckRecovery \/ ClearRecord
    PROVE  UpdateSafe'
  <1>0. UpdateType /\ Numbered /\ OnlyVerified /\ ActivatedIsFilled /\ OverlapKnown
        /\ StagingIsOwned /\ CommittedAlone
    BY Zenon DEF UpdateSafe, UpdateInv
  <1>1. UNCHANGED <<slot, image, history, next, mismatched, was, overlapped>>
    BY DEF Reboot, CheckRecovery, ClearRecord, disk, run
  <1>2. CASE Reboot
    <2>1. /\ \A q \in Cli : /\ cli'[q].pc = "idle" /\ cli'[q].id = 0
                            /\ cli'[q].hist = <<>>
          /\ recovered' = FALSE /\ tx' = tx
      BY Zenon, <1>2 DEF Reboot, Idle, disk
    <2>2. next \in 1 .. MaxTx + 1
      BY Zenon, <1>0 DEF UpdateType
    <2>3. Numbered'
      BY <1>0, <1>1, <2>1, <2>2, UpdateFacts DEF Numbered, Uncommitted, Verified
    <2>4. OnlyVerified'
      BY Zenon, <1>0, <1>1, <2>1 DEF OnlyVerified, Verified
    <2>5. ActivatedIsFilled' /\ StagingIsOwned'
      BY SMTT(30), <1>0, <1>1, <2>1
         DEF ActivatedIsFilled, Filled, StagingIsOwned, Uncommitted
    <2>6. OverlapKnown' /\ CommittedAlone'
      BY Zenon, <1>0, <1>1, <2>1 DEF OverlapKnown, CommittedAlone, Uncommitted
    <2> QED
      BY Zenon, <2>3, <2>4, <2>5, <2>6 DEF UpdateSafe, UpdateInv
  <1>3. CASE CheckRecovery \/ ClearRecord
    <2>1. cli' = cli
      BY Zenon, <1>3 DEF CheckRecovery, ClearRecord
    <2>2. /\ tx' = tx \/ tx'.state \in {"aborted", "none"}
          /\ tx'.health \in {tx.health, "none"}
          /\ tx'.state = "staging" => recovered
      BY <1>0, <1>3
         DEF CheckRecovery, ClearRecord, Aborted, NoTx, InProgress, UpdateType,
         Records, run
    <2>3. Numbered' /\ OnlyVerified'
      BY Zenon, <1>0, <1>1, <2>1 DEF Numbered, OnlyVerified
    <2>4. ActivatedIsFilled'
      BY Zenon, <1>0, <1>1, <2>1, <2>2 DEF ActivatedIsFilled, Filled, Target
    <2>5. StagingIsOwned'
      BY Zenon, <1>0, <2>1, <2>2 DEF StagingIsOwned
    <2>6. OverlapKnown' /\ CommittedAlone'
      BY Zenon, <1>0, <1>1, <2>1, <2>2 DEF OverlapKnown, CommittedAlone
    <2> QED
      BY Zenon, <2>3, <2>4, <2>5, <2>6 DEF UpdateSafe, UpdateInv
  <1> QED
    BY <1>2, <1>3

\* Every step keeps the invariant.
LEMMA UpdateStep == UpdateSafe /\ [Next]_vars => UpdateSafe'
  <1> SUFFICES ASSUME UpdateSafe, [Next]_vars
               PROVE  UpdateSafe'
    OBVIOUS
  <1>1. UpdateType'
    BY SMTT(30), UpdateTypeStep DEF UpdateSafe, UpdateInv
  <1>2. CASE UNCHANGED vars
    BY Zenon, <1>2 DEF vars, UpdateSafe, UpdateInv, UpdateType, Numbered, OnlyVerified,
                ActivatedIsFilled, Filled, Target, StagingIsOwned, OverlapKnown, CommittedAlone
  <1>3. ASSUME NEW p \in Cli, ApplyStep(p)
        PROVE  UpdateSafe'
    BY Zenon, <1>1, <1>3, PreparationKeeps, EndingKeeps, CommitKeeps, HistoryReadKeeps,
       ReplaceKeeps, ReadSlotKeeps DEF ApplyStep
  <1>4. ASSUME NEW p \in Cli, ApplyBegin(p) \/ ApplyRefused(p)
        PROVE  UpdateSafe'
    BY Zenon, <1>1, <1>4, BeginKeeps, RefusalKeeps
  <1>5. ASSUME NEW p \in Cli,
               \/ Abort(p) \/ RollbackLastUpdate(p)
               \/ LoadMarked(p) \/ LoadPruned(p) \/ HistoryRollback(p) \/ LoadRollback(p)
        PROVE  UpdateSafe'
    BY Zenon, <1>1, <1>5, RollbackKeeps, HistoryReadKeeps
  <1>6. CASE Reboot \/ CheckRecovery \/ ClearRecord
    BY <1>1, <1>6, WorldKeeps
  <1> QED
    BY Zenon, <1>2, <1>3, <1>4, <1>5, <1>6 DEF Next

\* The invariant holds at all times.
LEMMA UpdateAlways == Spec => []UpdateSafe
  BY UpdateInitSafe, UpdateStep, PTL DEF Spec

\* Whatever commands overlap and wherever power fails, the active slot holds an
\* image that passed Apply's SHA-256 check, and once CheckRecovery has run a record
\* in state staging belongs to a command that is still at work.
THEOREM UpdatesSound == Spec => []UpdatesAreSound
  <1>1. UpdateSafe => UpdatesAreSound
    BY DEF UpdateSafe, UpdateInv, UpdateType, OnlyVerified, ActivatedIsFilled, Filled,
           StagingIsOwned, UpdatesAreSound, ActiveIsVerified, NoOrphanStaging
  <1> QED
    BY <1>1, UpdateAlways, PTL

\* RollbackLastUpdate makes the image active that was active before the update,
\* when no other update ran together with it.
THEOREM RollsBack == Spec => RollbackRestores
  <1>1. UpdateSafe /\ [Next]_vars =>
          [(\E p \in Cli : RollbackLastUpdate(p)) /\ tx.id \notin overlapped
             => image'[slot'] = was[tx.id]]_vars
    BY Zenon DEF UpdateSafe, CommittedAlone, RollbackLastUpdate
  <1> QED
    BY <1>1, UpdateAlways, PTL DEF Spec, RollbackRestores

\* Only the four commands that read the history go to its save.
LEMMA SaveIsOfRead ==
    ASSUME UpdateType, Next, NEW p \in Cli, cli[p].pc # "save", cli'[p].pc = "save"
    PROVE  LoadHistory(p) \/ LoadRollback(p) \/ LoadMarked(p) \/ LoadPruned(p)
  <1>1. ASSUME NEW q \in Cli, q # p, Apart(q)
        PROVE  FALSE
    BY Zenon, <1>1 DEF Apart
  <1>2. ASSUME NEW q \in Cli, NEW pc \in Pcs \ {"save"}, Goto(q, pc)
        PROVE  FALSE
    <2>1. Apart(q) /\ cli'[q].pc = pc
      BY SMTT(30), <1>2, GotoFacts
    <2> QED
      BY Zenon, <1>1, <2>1
  <1>3. ASSUME NEW q \in Cli, Ends(q)
        PROVE  FALSE
    <2>1. Apart(q) /\ cli'[q] = Idle
      BY Zenon, <1>3, EndsFacts
    <2> QED
      BY <1>1, <2>1 DEF Idle
  <1>4. ASSUME NEW q \in Cli, NEW c \in Commands, cli' = [cli EXCEPT ![q] = c],
               q = p => c.pc # "save"
        PROVE  FALSE
    <2>1. Apart(q) /\ cli'[q] = c
      BY SMTT(30), <1>4, SetFacts
    <2> QED
      BY Zenon, <1>1, <1>4, <2>1
  <1>5. ASSUME NEW q \in Cli, ApplyStep(q), ~LoadHistory(q), ~ReadSlot(q)
        PROVE  FALSE
    <2>1. {"stage", "verify", "reject", "snapshot", "replace", "flip", "commit", "clean", "load"}
            \subseteq Pcs \ {"save"}
      BY DEF Pcs
    <2> QED
      BY Zenon, <1>2, <1>3, <1>5, <2>1 DEF ApplyStep, BeginTx, StageImage, StageFails,
         Verify, Reject,
         Snapshot, Replace, ReplaceFails, Flip, FlipFails, CommitTx, CleanUp, SaveHistory
  <1>6. ASSUME NEW q \in Cli, ReadSlot(q)
        PROVE  FALSE
    <2> DEFINE c == [cli[q] EXCEPT !.pc = "begin", !.active = slot]
    <2>1. c \in Commands /\ c.pc = "begin"
      BY Zenon DEF UpdateType, Commands, Pcs
    <2>2. cli' = [cli EXCEPT ![q] = c]
      BY Zenon, <1>6 DEF ReadSlot
    <2> HIDE DEF c
    <2> QED
      BY <1>4, <2>1, <2>2
  <1>7. ASSUME NEW q \in Cli, ApplyBegin(q)
        PROVE  FALSE
    <2>1. PICK delta \in BOOLEAN :
            cli' = [cli EXCEPT ![q] = [Idle EXCEPT !.pc = "slot", !.id = next, !.delta = delta]]
      BY Zenon, <1>7 DEF ApplyBegin
    <2> DEFINE c == [Idle EXCEPT !.pc = "slot", !.id = next, !.delta = delta]
    <2>2. next \in 0 .. MaxTx
      BY <1>7, UpdateFacts DEF ApplyBegin, UpdateType
    <2>3. [Idle EXCEPT !.pc = "slot", !.id = next, !.delta = delta] \in Commands
      BY Zenon, <2>2, UpdateFacts DEF Commands, Idle, Pcs
    <2>4. c.pc = "slot" /\ c \in Commands
      BY <2>3 DEF Idle
    <2> HIDE DEF c
    <2>5. cli' = [cli EXCEPT ![q] = c]
      BY <2>1 DEF c
    <2> QED
      BY SMTT(30), <1>4, <2>4, <2>5
  <1>8. ASSUME NEW q \in Cli, HistoryRollback(q)
        PROVE  FALSE
    <2>1. PICK i \in TxIds :
             /\ Has(history, i)
             /\ cli' = [cli EXCEPT ![q] = [Idle EXCEPT !.pc = "loadback",
                                             !.active = Other(Entry(history, i).slot)]]
      BY Zenon, <1>8 DEF HistoryRollback
    <2>2. Entry(history, i) \in Entries
      BY <2>1, EntryFacts DEF UpdateType
    <2> DEFINE c == [Idle EXCEPT !.pc = "loadback", !.active = Other(Entry(history, i).slot)]
    <2>3. Other(Entry(history, i).slot) \in Slots
      BY <2>2, UpdateFacts DEF Entries
    <2>4. c \in Commands /\ c.pc = "loadback"
      BY Zenon, <2>3, UpdateFacts DEF Commands, Idle, Pcs
    <2> HIDE DEF c
    <2>5. cli' = [cli EXCEPT ![q] = c]
      BY Zenon, <2>1 DEF c
    <2> QED
      BY <1>4, <2>4, <2>5
  <1>9. ASSUME NEW q \in Cli, q # p,
               LoadHistory(q) \/ LoadRollback(q) \/ LoadMarked(q) \/ LoadPruned(q)
        PROVE  FALSE
    <2>1. \E c : cli' = [cli EXCEPT ![q] = c]
      BY Zenon, <1>9 DEF LoadHistory, LoadRollback, LoadMarked, LoadPruned
    <2>2. cli'[p] = cli[p]
      BY Zenon, <1>9, <2>1 DEF UpdateType
    <2> QED
      BY <2>2
  <1>10. ASSUME cli' = cli
         PROVE  FALSE
    BY Zenon, <1>10
  <1>11. ~Reboot
    BY SMTT(30) DEF Reboot, Idle
  <1>12. /\ CheckRecovery \/ ClearRecord => cli' = cli
         /\ \A q \in Cli : ApplyRefused(q) \/ Abort(q) \/ RollbackLastUpdate(q) => cli' = cli
    BY SMTT(30) DEF CheckRecovery, ClearRecord, ApplyRefused, Abort, RollbackLastUpdate
  <1>13. PICK q \in Cli : \/ ApplyBegin(q) \/ ApplyStep(q) \/ HistoryRollback(q)
                          \/ LoadMarked(q) \/ LoadPruned(q) \/ LoadRollback(q)
    BY SMTT(30), <1>10, <1>11, <1>12 DEF Next
  <1>14. LoadHistory(q) \/ LoadRollback(q) \/ LoadMarked(q) \/ LoadPruned(q)
    BY SMTT(30), <1>5, <1>6, <1>7, <1>8, <1>13
  <1> QED
    BY Zenon, <1>9, <1>14

\* What a command is about to save has the latest known-good entry of what it read,
\* or the one it has just marked.
LEMMA ReadKeepsLatest ==
    ASSUME UpdateType, NEW p \in Cli, LatestKnownGood(history) # 0,
           LoadHistory(p) \/ LoadRollback(p) \/ LoadMarked(p) \/ LoadPruned(p)
    PROVE  /\ LatestKnownGood(cli'[p].hist) # 0
           /\ cli[p].pc # "idle" =>
                 cli'[p].hist[LatestKnownGood(cli'[p].hist)] = history[LatestKnownGood(history)]
  <1>1. history \in Seq(Entries) /\ cli \in [Cli -> Commands] /\ cli[p] \in Commands
    BY DEF UpdateType
  <1>2. CASE LoadHistory(p) \/ LoadRollback(p)
    <2>1. ASSUME NEW id \in 0 .. MaxTx
          PROVE  LET e == [id |-> id, slot |-> Target(p), good |-> FALSE]
                 IN e \in Entries /\ ~e.good
      BY Zenon, <1>1, UpdateFacts DEF Entries, Commands, Target
    <2>2. 0 \in 0 .. MaxTx /\ cli[p].id \in 0 .. MaxTx
      BY <1>1, UpdateFacts DEF Commands
    <2>3. \/ cli' = [cli EXCEPT ![p] = [cli[p] EXCEPT !.pc = "save", !.hist =
                 Added(history, [id |-> cli[p].id, slot |-> Target(p), good |-> FALSE], MaxEntries)]]
          \/ cli' = [cli EXCEPT ![p] = [cli[p] EXCEPT !.pc = "save", !.hist =
                 Added(history, [id |-> 0, slot |-> Target(p), good |-> FALSE], MaxEntries)]]
      BY Zenon, <1>2 DEF LoadHistory, LoadRollback
    <2>4. PICK e \in Entries :
            ~e.good /\ cli' = [cli EXCEPT ![p] = [cli[p] EXCEPT !.pc = "save", !.hist =
                                                    Added(history, e, MaxEntries)]]
      BY Zenon, <2>1, <2>2, <2>3
    <2>5. cli'[p].hist = Added(history, e, MaxEntries)
      BY Zenon, <1>1, <2>4 DEF Commands
    <2> QED
      BY <1>1, <2>4, <2>5, AddedKeepsLatest, UpdateFacts
  <1>3. CASE LoadPruned(p)
    <2>1. PICK max \in 1 .. MaxEntries : cli' = [cli EXCEPT ![p] =
                    [Idle EXCEPT !.pc = "save", !.hist = Prune(history, max)]]
      BY Zenon, <1>3 DEF LoadPruned
    <2>2. max \in Nat \ {0} /\ cli'[p].hist = Prune(history, max)
      BY <1>1, <2>1, UpdateFacts DEF Idle
    <2> QED
      BY SMTT(30), <1>1, <2>2, PruneKeepsLatest
  <1>4. CASE LoadMarked(p)
    <2>1. PICK i \in TxIds : cli' = [cli EXCEPT ![p] =
                    [Idle EXCEPT !.pc = "save", !.hist = MarkedGood(history, i)]]
      BY Zenon, <1>4 DEF LoadMarked
    <2>2. cli'[p].hist = MarkedGood(history, i) /\ cli[p].pc = "idle"
      BY Zenon, <1>1, <1>4, <2>1 DEF Idle, LoadMarked, At
    <2>3. \E j \in DOMAIN history : history[j].good
      BY Zenon, <1>1, LatestNone
    <2>4. /\ MarkedGood(history, i) \in Seq(Entries)
          /\ \E j \in DOMAIN MarkedGood(history, i) : MarkedGood(history, i)[j].good
      BY SMTT(30), <1>1, <2>3, MarkedFacts
    <2>5. LatestKnownGood(MarkedGood(history, i)) \in DOMAIN MarkedGood(history, i)
      BY <2>4, LatestFacts
    <2>6. LatestKnownGood(MarkedGood(history, i)) # 0
      BY <2>4, <2>5
    <2> QED
      BY SMTT(30), <2>2, <2>6
  <1> QED
    BY Zenon, <1>2, <1>3, <1>4

\* Neither Add nor a prune of the history loses the latest known-good entry, and a
\* mark only adds one.
THEOREM KeepsLatestGood == Spec => LatestGoodKept
  <1> DEFINE Kept == \A p \in Cli : cli[p].pc # "save" /\ cli'[p].pc = "save" =>
                       LET old == LatestKnownGood(history)
                           new == LatestKnownGood(cli'[p].hist)
                       IN old # 0 => new # 0 /\ (cli[p].pc # "idle" => cli'[p].hist[new] = history[old])
  <1>1. UpdateSafe /\ [Next]_vars => [Kept]_vars
    <2> SUFFICES ASSUME UpdateSafe, Next, NEW p \in Cli, cli[p].pc # "save", cli'[p].pc = "save",
                        LatestKnownGood(history) # 0
                 PROVE  /\ LatestKnownGood(cli'[p].hist) # 0
                        /\ cli[p].pc # "idle" => cli'[p].hist[LatestKnownGood(cli'[p].hist)]
                                                    = history[LatestKnownGood(history)]
      OBVIOUS
    <2>1. UpdateType
      BY Zenon DEF UpdateSafe, UpdateInv
    <2>2. LoadHistory(p) \/ LoadRollback(p) \/ LoadMarked(p) \/ LoadPruned(p)
      BY <2>1, SaveIsOfRead
    <2> QED
      BY Zenon, <2>1, <2>2, ReadKeepsLatest
  <1> QED
    BY <1>1, UpdateAlways, PTL DEF Spec, LatestGoodKept
=============================================================================
