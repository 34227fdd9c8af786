-------------------------- MODULE AlgorithmProofs ---------------------------
(*****************************************************************************)
(* What the algorithms of the system compute, for inputs of any size:        *)
(* image deltas rebuild their target, the steps of the clock add up, unit    *)
(* files are put into the order of their dependencies, and crash files are   *)
(* rotated by age. The arguments are inductions over positions, over sets    *)
(* of callers and over sets of units, and comparisons of finite sets.        *)
(*****************************************************************************)
EXTENDS ImageDelta, Clock, Resolver, CrashCapture, FiniteSetTheorems, TLAPS

-----------------------------------------------------------------------------
(*****************************************************************************)
(* ImageDelta. A delta of an image of whole blocks rebuilds the image.       *)
(* This is a fact about GenerateDelta and ApplyOps for images of any size:   *)
(* each operation gives a block, and each byte is in one block. The          *)
(* invariant adds that the digests in a delta are those of its source and    *)
(* its target.                                                               *)
(*****************************************************************************)

\* Quotient and remainder.
LEMMA DivMod ==
    ASSUME NEW a \in Nat, NEW b \in Nat \ {0}
    PROVE  /\ a \div b \in Nat /\ a % b \in 0 .. b - 1
           /\ a = b * (a \div b) + (a % b)
  <1>1. a % b \in 0 .. b - 1
    OBVIOUS
  <1>2. a = b * (a \div b) + (a % b)
    OBVIOUS
  <1>3. a \div b \in Nat
    OBVIOUS
  <1> QED
    BY <1>1, <1>2, <1>3

\* A number has one quotient and one remainder.
LEMMA DivModIs ==
    ASSUME NEW b \in Nat \ {0}, NEW q \in Nat, NEW r \in 0 .. b - 1, NEW n \in Nat, n = b * q + r
    PROVE  n \div b = q /\ n % b = r
  OBVIOUS

\* A set of positions that is not empty has a largest, which Max gives.
LEMMA MaxPosition ==
    ASSUME NEW n \in Nat, NEW T \in SUBSET (1 .. n), T # {}
    PROVE  Max(T) \in T
  <1> DEFINE D == {n - t : t \in T}
  <1>1. D \in SUBSET Nat /\ D # {}
    <2>1. \A t \in T : n - t \in Nat
      OBVIOUS
    <2> QED
      BY Zenon, <2>1
  <1>2. PICK x \in D : \A y \in D : ~(<<y, x>> \in OpToRel(<, Nat))
    BY Zenon, <1>1, NatLessThanWellFounded, WFMin
  <1>3. \A y \in D : ~(y < x)
    BY Zenon, <1>1, <1>2 DEF OpToRel
  <1>4. PICK s \in T : x = n - s
    OBVIOUS
  <1>5. ASSUME NEW t \in T
        PROVE  s >= t
    <2>1. n - t \in D
      OBVIOUS
    <2>2. ~(n - t < n - s)
      BY Zenon, <1>3, <1>4, <2>1
    <2> QED
      BY <2>2
  <1>6. \E r \in T : \A t \in T : r >= t
    BY <1>5
  <1> QED
    BY Zenon, <1>6 DEF Max

-----------------------------------------------------------------------------
\* The blocks of an image are of one size.
LEMMA BlocksFacts ==
    ASSUME NEW bytes \in Seq(Byte), NEW bs \in Nat \ {0}
    PROVE  /\ Len(SplitBlocks(bytes, bs)) = (Len(bytes) + bs - 1) \div bs
           /\ (Len(bytes) + bs - 1) \div bs \in Nat
           /\ DOMAIN SplitBlocks(bytes, bs) = 1 .. Len(SplitBlocks(bytes, bs))
           /\ \A k \in 1 .. Len(SplitBlocks(bytes, bs)) :
                 /\ SplitBlocks(bytes, bs)[k] \in [1 .. bs -> Byte]
                 /\ \A j \in 1 .. bs : (k - 1) * bs + j <= Len(bytes) =>
                        SplitBlocks(bytes, bs)[k][j] = bytes[(k - 1) * bs + j]
  <1> DEFINE n == (Len(bytes) + bs - 1) \div bs
             at(k, j) == LET i == (k - 1) * bs + j IN IF i <= Len(bytes) THEN bytes[i] ELSE 0
             s == [k \in 1 .. n |-> [j \in 1 .. bs |-> at(k, j)]]
  <1>1. Len(bytes) \in Nat /\ Len(bytes) + bs - 1 \in Nat
    OBVIOUS
  <1>2. n \in Nat
    BY Zenon, <1>1, DivMod
  <1>3. s = SplitBlocks(bytes, bs)
    BY DEF SplitBlocks
  <1>4. ASSUME NEW k \in 1 .. n, NEW j \in 1 .. bs
        PROVE  at(k, j) \in Byte
    <2>1. k - 1 \in Nat /\ (k - 1) * bs \in Nat
      BY <1>2
    <2> DEFINE m == (k - 1) * bs
    <2>2. m + j \in Nat \ {0}
      BY <2>1
    <2> HIDE DEF m
    <2>3. m + j <= Len(bytes) => bytes[m + j] \in Byte
      BY <1>1, <2>2
    <2> QED
      BY <2>3, DeltaAssumption DEF m
  <1>5. ASSUME NEW k \in 1 .. n, NEW j \in 1 .. bs, (k - 1) * bs + j <= Len(bytes)
        PROVE  at(k, j) = bytes[(k - 1) * bs + j]
    BY <1>5
  <1> HIDE DEF at, n
  <1>6. DOMAIN s = 1 .. n /\ Len(s) = n
    BY <1>2
  <1>7. \A k \in 1 .. n : s[k] \in [1 .. bs -> Byte] /\ \A j \in 1 .. bs : s[k][j] = at(k, j)
    BY <1>4
  <1> HIDE DEF s
  <1>8. \A k \in 1 .. n : \A j \in 1 .. bs :
           (k - 1) * bs + j <= Len(bytes) => s[k][j] = bytes[(k - 1) * bs + j]
    BY <1>5, <1>7
  <1> QED
    BY <1>2, <1>3, <1>6, <1>7, <1>8 DEF n

\* An image of whole blocks has as many bytes as they have.
LEMMA WholeBlocks ==
    ASSUME NEW l \in Nat, NEW bs \in Nat \ {0}, l % bs = 0
    PROVE  ((l + bs - 1) \div bs) * bs = l
  <1> DEFINE q == l \div bs
  <1>1. q \in Nat /\ l = bs * q + (l % bs)
    BY DivMod
  <1> HIDE DEF q
  <1>2. bs - 1 \in 0 .. bs - 1 /\ l + bs - 1 \in Nat /\ l + bs - 1 = bs * q + (bs - 1)
    BY <1>1
  <1>3. (l + bs - 1) \div bs = q
    BY <1>1, <1>2, DivModIs
  <1>4. q * bs = bs * q /\ bs * q \in Nat
    BY <1>1
  <1> QED
    BY <1>1, <1>3, <1>4

\* Byte i of n blocks of bs bytes is byte j of block k.
ByteIsInBlock(i, k, j, n, bs) ==
    k \in 1 .. n /\ j \in 1 .. bs /\ (k - 1) * bs + j = i

\* The position of a byte is its block and its place in the block.
LEMMA ByteInBlock ==
    ASSUME NEW n \in Nat, NEW bs \in Nat \ {0}, NEW i \in 1 .. n * bs
    PROVE  ByteIsInBlock(i, (i - 1) \div bs + 1, ((i - 1) % bs) + 1, n, bs)
  <1> DEFINE q == (i - 1) \div bs
             r == (i - 1) % bs
  <1>0. n * bs \in Nat
    OBVIOUS
  <1>1. i - 1 \in Nat /\ i \in Nat /\ i <= n * bs
    BY <1>0
  <1>2. q \in Nat /\ r \in 0 .. bs - 1 /\ i - 1 = bs * q + r
    BY Zenon, <1>1, DivMod
  <1> HIDE DEF q, r
  <1>3. q < n
    <2>1. ASSUME q >= n
          PROVE  FALSE
      <3>1. bs * q >= n * bs /\ bs * q \in Nat
        BY <1>2, <2>1
      <3> QED
        BY <1>0, <1>1, <1>2, <3>1
    <2> QED
      BY <1>2, <2>1
  <1>4. (q + 1 - 1) * bs = bs * q /\ bs * q \in Nat
    BY <1>2
  <1>5. q + 1 \in 1 .. n /\ r + 1 \in 1 .. bs /\ (q + 1 - 1) * bs + (r + 1) = i
    BY <1>1, <1>2, <1>3, <1>4
  <1> QED
    BY <1>5 DEF q, r, ByteIsInBlock

\* The operations ops on m source blocks give the n blocks of dst.
OpsGive(ops, src, dst, bs, m, n) ==
    /\ DOMAIN ops = 1 .. n /\ Len(ops) = n
    /\ \A k \in 1 .. n : /\ ops[k].type = "copy" => ops[k].idx \in 1 .. m
                         /\ BlockOf(ops[k], src, bs) = dst[k]

\* n blocks of bs bytes.
BlockSeqs(bs, n) == [1 .. n -> [1 .. bs -> Byte]]

\* Each operation of Generate gives the block of the target it stands for: a copy
\* the last block of the source that is equal to it, the others the block itself.
LEMMA OpsFacts ==
    ASSUME NEW bs \in Nat \ {0}, NEW m \in Nat, NEW n \in Nat,
           NEW src \in BlockSeqs(bs, m), NEW dst \in BlockSeqs(bs, n)
    PROVE  OpsGive(Ops(src, dst), src, dst, bs, m, n)
  <1> USE DEF BlockSeqs
  <1> DEFINE same(k) == {i \in 1 .. Len(src) : src[i] = dst[k]}
             opOf(k) == IF same(k) # {} THEN [type |-> "copy", idx |-> Max(same(k)), data |-> <<>>]
                      ELSE [type |-> "data", idx |-> 0, data |-> dst[k]]
  <1>1. Len(dst) = n /\ Len(src) = m
    OBVIOUS
  <1>2. Ops(src, dst) = [k \in 1 .. n |-> opOf(k)]
    BY <1>1 DEF Ops
  <1>3. DOMAIN Ops(src, dst) = 1 .. n /\ Len(Ops(src, dst)) = n
    BY <1>2
  <1>4. ASSUME NEW k \in 1 .. n
        PROVE  /\ opOf(k).type = "copy" => opOf(k).idx \in 1 .. m
               /\ BlockOf(opOf(k), src, bs) = dst[k]
    <2>1. CASE same(k) # {}
      <3>1. same(k) \in SUBSET (1 .. m)
        BY <1>1
      <3>2. Max(same(k)) \in same(k)
        BY Zenon, <2>1, <3>1, MaxPosition
      <3>3. opOf(k).type = "copy" /\ opOf(k).idx = Max(same(k))
        BY <2>1
      <3>4. opOf(k).idx \in 1 .. m /\ src[opOf(k).idx] = dst[k]
        BY <1>1, <3>2, <3>3
      <3> HIDE DEF opOf
      <3> QED
        BY <3>3, <3>4 DEF BlockOf
    <2>2. CASE same(k) = {}
      <3>1. opOf(k).type = "data" /\ opOf(k).data = dst[k]
        BY <2>2
      <3> HIDE DEF opOf
      <3>2. dst[k] \in [1 .. bs -> Byte]
        OBVIOUS
      <3>3. Len(opOf(k).data) = bs
        BY <3>1, <3>2
      <3>4. BlockOf(opOf(k), src, bs) = [j \in 1 .. bs |-> IF j <= bs THEN dst[k][j] ELSE 0]
        BY <3>1, <3>3 DEF BlockOf
      <3>5. \A j \in 1 .. bs : j <= bs
        OBVIOUS
      <3>6. BlockOf(opOf(k), src, bs) = [j \in 1 .. bs |-> dst[k][j]]
        BY <3>4, <3>5
      <3> QED
        BY <3>1, <3>2, <3>6
    <2> QED
      BY <2>1, <2>2
  <1> HIDE DEF opOf
  <1> QED
    BY <1>2, <1>3, <1>4 DEF OpsGive

\* A delta of an image of whole blocks applies to the image it was made from.
LEMMA GeneratedApplies ==
    ASSUME NEW src \in Seq(Byte), NEW dst \in Seq(Byte), Len(dst) % BlockSize = 0
    PROVE  Applies(GenerateDelta(src, dst), src)
  <1> DEFINE bs == BlockSize
             sb == SplitBlocks(src, bs)
             tb == SplitBlocks(dst, bs)
             ops == Ops(sb, tb)
             d == GenerateDelta(src, dst)
             m == Len(sb)
             n == Len(tb)
  <1>1. bs \in Nat \ {0} /\ Len(dst) \in Nat /\ Len(src) \in Nat
    BY DeltaAssumption
  <1>2. d.blockSize = bs /\ d.src = src /\ d.dst = dst /\ d.ops = ops
    BY DEF GenerateDelta
  <1>3. /\ m \in Nat /\ sb \in [1 .. m -> [1 .. bs -> Byte]]
        /\ n \in Nat /\ tb \in [1 .. n -> [1 .. bs -> Byte]]
    <2>1. /\ m \in Nat /\ DOMAIN sb = 1 .. m /\ \A k \in 1 .. m : sb[k] \in [1 .. bs -> Byte]
          /\ n \in Nat /\ DOMAIN tb = 1 .. n /\ \A k \in 1 .. n : tb[k] \in [1 .. bs -> Byte]
      BY Zenon, <1>1, BlocksFacts
    <2>2. sb = [k \in DOMAIN sb |-> sb[k]] /\ tb = [k \in DOMAIN tb |-> tb[k]]
      BY DEF SplitBlocks
    <2> HIDE DEF sb, tb, m, n
    <2> QED
      BY <2>1, <2>2
  <1>4. n * bs = Len(dst)
    BY Zenon, <1>1, BlocksFacts, WholeBlocks
  <1>5. \A k \in 1 .. n : \A j \in 1 .. bs : (k - 1) * bs + j <= Len(dst) => tb[k][j] = dst[(k - 1) * bs + j]
    BY SMTT(30), <1>1, BlocksFacts
  <1> HIDE DEF sb, tb, m, n, d, bs
  <1>6. /\ DOMAIN ops = 1 .. n /\ Len(ops) = n
        /\ \A k \in 1 .. n : /\ ops[k].type = "copy" => ops[k].idx \in 1 .. m
                             /\ BlockOf(ops[k], sb, bs) = tb[k]
    <2>1. bs \in Nat \ {0} /\ m \in Nat /\ n \in Nat /\ sb \in BlockSeqs(bs, m) /\ tb \in BlockSeqs(bs, n)
      BY <1>1, <1>3 DEF BlockSeqs
    <2>2. OpsGive(Ops(sb, tb), sb, tb, bs, m, n)
      BY <2>1, OpsFacts
    <2> QED
      BY <2>2 DEF OpsGive
  <1> HIDE DEF ops
  <1>7. InRange(d, src)
    BY <1>2, <1>6 DEF InRange, m, sb
  <1>8. Rebuilt(d, src) = dst
    <2> DEFINE val(i) == BlockOf(ops[(i - 1) \div bs + 1], sb, bs)[((i - 1) % bs) + 1]
    <2>1. Rebuilt(d, src) = [i \in 1 .. n * bs |-> val(i)]
      BY <1>2, <1>6 DEF Rebuilt, sb
    <2>2. ASSUME NEW i \in 1 .. n * bs
          PROVE  val(i) = dst[i]
      <3> DEFINE k == (i - 1) \div bs + 1
                 j == ((i - 1) % bs) + 1
      <3>1. k \in 1 .. n /\ j \in 1 .. bs /\ (k - 1) * bs + j = i
        <4>1. bs \in Nat \ {0} /\ n \in Nat
          BY <1>1, <1>3
        <4>2. i \in 1 .. n * bs
          OBVIOUS
        <4>3. ByteIsInBlock(i, k, j, n, bs)
          BY <4>1, <4>2, ByteInBlock
        <4> HIDE DEF k, j
        <4> QED
          BY <4>3 DEF ByteIsInBlock
      <3>2. i <= Len(dst)
        BY <1>1, <1>4
      <3>3. BlockOf(ops[k], sb, bs) = tb[k] /\ val(i) = BlockOf(ops[k], sb, bs)[j]
        BY <1>6, <3>1
      <3> HIDE DEF k, j, val
      <3>4. tb[k][j] = dst[(k - 1) * bs + j]
        BY <1>5, <3>1, <3>2
      <3> QED
        BY <3>1, <3>3, <3>4
    <2> HIDE DEF val
    <2>3. [i \in 1 .. n * bs |-> val(i)] = [i \in 1 .. Len(dst) |-> dst[i]]
      BY <1>4, <2>2
    <2>4. dst = [i \in 1 .. Len(dst) |-> dst[i]]
      OBVIOUS
    <2> QED
      BY Zenon, <2>1, <2>3, <2>4
  <1> QED
    BY <1>2, <1>7, <1>8 DEF Applies, d

-----------------------------------------------------------------------------
\* The delta names its source and its target, whatever happened to its operations;
\* an intact one is what Generate wrote; and ApplyDelta has handed over what it
\* rebuilt, or the target.
DeltaInv ==
    /\ source \in Seq(Byte) /\ target \in Seq(Byte)
    /\ delta # NoDelta => /\ delta.src = source /\ delta.dst = target
                          /\ delta = [blockSize |-> delta.blockSize, src |-> delta.src,
                                      dst |-> delta.dst, ops |-> delta.ops]
    /\ delta # NoDelta /\ ~damaged => delta = GenerateDelta(source, target)
    /\ handed # Nothing => delta # NoDelta
    /\ OnlyTargetIsHanded
    /\ handed # Nothing /\ Applies(delta, slotImage) => handed.kind = "rebuilt"

\* Generating, damaging and applying a delta, and writing the slot, keep the invariant.
LEMMA DeltaStep == DeltaInv /\ [DeltaNext]_deltaVars => DeltaInv'
  <1> SUFFICES ASSUME DeltaInv, [DeltaNext]_deltaVars
               PROVE  DeltaInv'
    OBVIOUS
  <1>1. ASSUME NEW src \in Images, NEW dst \in Images, Generate(src, dst)
        PROVE  DeltaInv'
    <2>1. src \in Seq(Byte) /\ dst \in Seq(Byte)
      BY DeltaAssumption DEF Images
    <2>2. /\ delta' = GenerateDelta(src, dst) /\ source' = src /\ target' = dst
          /\ handed' = handed /\ handed = Nothing
      BY <1>1 DEF Generate, DeltaInv
    <2>3. /\ delta'.src = src /\ delta'.dst = dst
          /\ delta' = [blockSize |-> delta'.blockSize, src |-> delta'.src,
                       dst |-> delta'.dst, ops |-> delta'.ops]
      BY <2>2 DEF GenerateDelta
    <2> QED
      BY <2>1, <2>2, <2>3 DEF DeltaInv, OnlyTargetIsHanded, Nothing
  <1>2. ASSUME NEW k, NEW opOf, Damage(k, opOf)
        PROVE  DeltaInv'
    <2>1. /\ delta # NoDelta /\ damaged' = TRUE /\ handed = Nothing /\ UNCHANGED <<source, target, handed>>
          /\ delta' = [delta EXCEPT !.ops = [delta.ops EXCEPT ![k] = opOf]]
      BY <1>2 DEF Damage
    <2>2. /\ delta'.src = delta.src /\ delta'.dst = delta.dst
          /\ delta' = [blockSize |-> delta'.blockSize, src |-> delta'.src,
                       dst |-> delta'.dst, ops |-> delta'.ops]
      BY SMTT(30), <2>1 DEF DeltaInv
    <2> QED
      BY <2>1, <2>2 DEF DeltaInv, OnlyTargetIsHanded, Nothing
  <1>3. ASSUME NEW img, SlotChanges(img)
        PROVE  DeltaInv'
    BY <1>3 DEF SlotChanges, DeltaInv, OnlyTargetIsHanded
  <1>4. ASSUME NEW fb, ApplyDelta(fb)
        PROVE  DeltaInv'
    <2>1. /\ delta # NoDelta /\ UNCHANGED <<source, target, delta, damaged, slotImage>>
          /\ handed' = IF Applies(delta, slotImage)
                       THEN [kind |-> "rebuilt", image |-> Rebuilt(delta, slotImage)]
                       ELSE IF fb = "given" THEN [kind |-> "full", image |-> target]
                       ELSE [kind |-> "unreadable", image |-> <<>>]
      BY <1>4 DEF ApplyDelta
    <2>2. Applies(delta, slotImage) => Rebuilt(delta, slotImage) = target
      BY <2>1 DEF Applies, DeltaInv
    <2>3. handed'.kind \in {"rebuilt", "full"} => handed'.image = target
      BY <2>1, <2>2
    <2>4. Applies(delta, slotImage) => handed'.kind = "rebuilt"
      BY <2>1
    <2> QED
      BY <2>1, <2>3, <2>4 DEF DeltaInv, OnlyTargetIsHanded
  <1>5. CASE UNCHANGED deltaVars
    BY <1>5 DEF deltaVars, DeltaInv, OnlyTargetIsHanded
  <1> QED
    BY <1>1, <1>2, <1>3, <1>4, <1>5 DEF DeltaNext

\* Whatever happens to a delta file or to the slot, ApplyDelta hands over the target
\* image or nothing; and an intact delta of an image of whole blocks is applied.
THEOREM DeltasAreExact == DeltaSpec => []DeltaIsExact
  <1>1. DeltaInit => DeltaInv
    BY DEF DeltaInit, DeltaInv, OnlyTargetIsHanded, Nothing
  <1>2. DeltaInv => DeltaIsExact
    <2> SUFFICES ASSUME DeltaInv, handed # Nothing, ~damaged, slotImage = source,
                        Len(target) % BlockSize = 0
                 PROVE  handed.kind = "rebuilt"
      BY DEF DeltaInv, DeltaIsExact, AlignedDeltaApplies
    <2>1. delta = GenerateDelta(source, target) /\ source \in Seq(Byte) /\ target \in Seq(Byte)
      BY DEF DeltaInv
    <2>2. Applies(delta, slotImage)
      BY <2>1, GeneratedApplies
    <2> QED
      BY <2>2 DEF DeltaInv
  <1> QED
    BY <1>1, <1>2, DeltaStep, PTL DEF DeltaSpec

-----------------------------------------------------------------------------
(*****************************************************************************)
(* Clock. The calls of Now overlap between reading the clock and reporting   *)
(* a step. The invariant keeps a balance: what was reported, what the        *)
(* first call passed over and what the calls that exchanged the last         *)
(* reading have still to report add up to the last reading.                  *)
(*****************************************************************************)

\* Where a handler of /events is.
Places == {"out", "read", "numbered", "swapped"}
Calls == [at : Places, reading : Int, seq : Nat, last : Int, after : Nat]

\* The types of the variables.
ClockType ==
    /\ offset \in Int /\ seq \in Nat /\ last \in Int /\ stepCh \in Nat
    /\ now \in [Caller -> Calls]
    /\ emitted \in Int /\ skipped \in Int
    /\ stamps \subseteq 1 .. seq

\* A call has a number once it has taken one; it is no other call's, and larger
\* than those returned before the call began.
NumberOk(c) ==
    /\ now[c].at \in {"out", "read"} => now[c].seq = 0
    /\ now[c].at = "read" => now[c].after <= seq
    /\ now[c].at \in {"numbered", "swapped"} =>
          /\ now[c].seq \in 1 .. seq /\ now[c].seq > now[c].after /\ now[c].seq \notin stamps
          /\ \A d \in Caller \ {c} : now[d].seq # now[c].seq

\* What a call that has exchanged the last reading has yet to report.
Pending == [c \in Caller |-> IF now[c].at = "swapped" THEN now[c].reading - now[c].last ELSE 0]
Swapped == {c \in Caller : now[c].at = "swapped"}
\* sum gives the sum of f over each set of callers.
Sums(sum, f) ==
    /\ sum \in [SUBSET Caller -> Int] /\ sum[{}] = 0
    /\ \A T \in SUBSET Caller : \A c \in T : sum[T] = sum[T \ {c}] + f[c]
\* The parts of the callers add up to total.
Balanced(total, f, callers) ==
    \E sum \in [SUBSET Caller -> Int] : Sums(sum, f) /\ total = sum[callers]
Accounted == ~discarded => Balanced(last - skipped - emitted, Pending, Swapped)

\* The inductive invariant of the clock: until a step is discarded, what was reported
\* and what is still to be reported add up to the last reading.
ClockInv == ClockType /\ (\A c \in Caller : NumberOk(c)) /\ Accounted
-----------------------------------------------------------------------------
\* The sums when caller c's part changes from f to g.
Shifted(sum, f, g, c) == [T \in SUBSET Caller |-> IF c \in T THEN sum[T] + g[c] - f[c] ELSE sum[T]]
AgreeBut(f, g, c) == \A d \in Caller \ {c} : g[d] = f[d]

\* A caller's part of the sum changes, and the sums without it stay.
LEMMA SumChanges ==
    ASSUME NEW f \in [Caller -> Int], NEW g \in [Caller -> Int], NEW sum, Sums(sum, f),
           NEW c \in Caller, AgreeBut(f, g, c)
    PROVE  /\ Shifted(sum, f, g, c) \in [SUBSET Caller -> Int]
           /\ Sums(Shifted(sum, f, g, c), g)
           /\ \A T \in SUBSET Caller : c \notin T => Shifted(sum, f, g, c)[T] = sum[T]
  <1> DEFINE new == [T \in SUBSET Caller |-> IF c \in T THEN sum[T] + g[c] - f[c] ELSE sum[T]]
  <1>1. sum \in [SUBSET Caller -> Int] /\ f[c] \in Int /\ g[c] \in Int
    BY DEF Sums
  <1>2. new \in [SUBSET Caller -> Int]
    BY <1>1
  <1>3. new[{}] = 0
    BY DEF Sums
  <1>4. ASSUME NEW T \in SUBSET Caller, NEW d \in T
        PROVE  new[T] = new[T \ {d}] + g[d]
    <2>1. /\ T \ {d} \in SUBSET Caller /\ sum[T] = sum[T \ {d}] + f[d]
          /\ sum[T] \in Int /\ sum[T \ {d}] \in Int /\ f[d] \in Int
      BY <1>1 DEF Sums
    <2>2. CASE d = c
      BY <1>1, <2>1, <2>2
    <2>3. CASE d # c
      <3>1. g[d] = f[d] /\ (c \in T <=> c \in T \ {d})
        BY <2>3 DEF AgreeBut
      <3> QED
        BY <1>1, <2>1, <3>1
    <2> QED
      BY <2>2, <2>3
  <1>5. Sums(new, g)
    BY Zenon, <1>2, <1>3, <1>4 DEF Sums
  <1> QED
    BY <1>2, <1>5 DEF Shifted

\* The calls that have nothing to report leave the balance alone.
LEMMA BalanceJoins ==
    ASSUME NEW f \in [Caller -> Int], NEW S \in SUBSET Caller, NEW c \in Caller \ S, f[c] = 0,
           NEW v \in Int, NEW total \in Int, Balanced(total, f, S)
    PROVE  Balanced(total + v, [f EXCEPT ![c] = v], S \cup {c})
  <1> DEFINE g == [f EXCEPT ![c] = v]
  <1>1. PICK sum \in [SUBSET Caller -> Int] : Sums(sum, f) /\ total = sum[S]
    BY DEF Balanced
  <1>2. PICK new \in [SUBSET Caller -> Int] :
          Sums(new, g) /\ \A T \in SUBSET Caller : c \notin T => new[T] = sum[T]
    <2>1. c \in Caller /\ g \in [Caller -> Int] /\ AgreeBut(f, g, c)
      BY DEF AgreeBut
    <2> HIDE DEF g
    <2>2. /\ Shifted(sum, f, g, c) \in [SUBSET Caller -> Int]
          /\ Sums(Shifted(sum, f, g, c), g)
          /\ \A T \in SUBSET Caller : c \notin T => Shifted(sum, f, g, c)[T] = sum[T]
      BY <1>1, <2>1, SumChanges
    <2> QED
      BY <2>2
  <1>3. S \cup {c} \in SUBSET Caller /\ (S \cup {c}) \ {c} = S /\ g[c] = v
    OBVIOUS
  <1>4. new[S \cup {c}] = new[S] + v
    BY Zenon, <1>2, <1>3 DEF Sums
  <1>5. new[S] = total
    BY <1>1, <1>2
  <1> QED
    BY <1>2, <1>4, <1>5 DEF Balanced

\* A call that reports its part leaves the balance.
LEMMA BalanceLeaves ==
    ASSUME NEW f \in [Caller -> Int], NEW S \in SUBSET Caller, NEW c \in S,
           NEW total \in Int, Balanced(total, f, S)
    PROVE  Balanced(total - f[c], [f EXCEPT ![c] = 0], S \ {c})
  <1> DEFINE g == [f EXCEPT ![c] = 0]
  <1>1. PICK sum \in [SUBSET Caller -> Int] : Sums(sum, f) /\ total = sum[S]
    BY DEF Balanced
  <1>2. PICK new \in [SUBSET Caller -> Int] :
          Sums(new, g) /\ \A T \in SUBSET Caller : c \notin T => new[T] = sum[T]
    <2>1. c \in Caller /\ g \in [Caller -> Int] /\ AgreeBut(f, g, c)
      BY DEF AgreeBut
    <2> HIDE DEF g
    <2>2. /\ Shifted(sum, f, g, c) \in [SUBSET Caller -> Int]
          /\ Sums(Shifted(sum, f, g, c), g)
          /\ \A T \in SUBSET Caller : c \notin T => Shifted(sum, f, g, c)[T] = sum[T]
      BY SMTT(30), <1>1, <2>1, SumChanges
    <2> QED
      BY <2>2
  <1>3. S \ {c} \in SUBSET Caller /\ sum[S] = sum[S \ {c}] + f[c] /\ sum[S \ {c}] \in Int /\ f[c] \in Int
    BY <1>1 DEF Sums
  <1>4. new[S \ {c}] = sum[S \ {c}]
    BY <1>2, <1>3
  <1>5. total - f[c] = new[S \ {c}]
    BY <1>1, <1>3, <1>4
  <1> QED
    BY <1>2, <1>5 DEF Balanced

\* The largest number returned so far is one of them, or 0.
LEMMA LargestStamp ==
    ASSUME NEW n \in Nat, NEW S \in SUBSET (1 .. n)
    PROVE  Max(S \cup {0}) \in S \cup {0}
  <1> DEFINE D == {n - s : s \in S \cup {0}}
  <1>1. D \in SUBSET Nat /\ D # {}
    <2>1. \A s \in S \cup {0} : n - s \in Nat
      OBVIOUS
    <2> QED
      BY <2>1
  <1>2. PICK x \in D : \A y \in D : ~(<<y, x>> \in OpToRel(<, Nat))
    BY Zenon, <1>1, NatLessThanWellFounded, WFMin
  <1>3. \A y \in D : ~(y < x)
    BY Zenon, <1>1, <1>2 DEF OpToRel
  <1>4. PICK s \in S \cup {0} : x = n - s
    OBVIOUS
  <1>5. ASSUME NEW t \in S \cup {0}
        PROVE  s >= t
    <2>1. n - t \in D
      OBVIOUS
    <2>2. ~(n - t < n - s)
      BY <1>3, <1>4, <2>1
    <2> QED
      BY <2>2
  <1>6. \E r \in S \cup {0} : \A t \in S \cup {0} : r >= t
    BY Zenon, <1>5
  <1> QED
    BY <1>6 DEF Max

-----------------------------------------------------------------------------
\* Before the first call nothing is to be reported.
LEMMA ClockInitInv == ClockInit => ClockInv
  <1> SUFFICES ASSUME ClockInit
               PROVE  ClockInv
    OBVIOUS
  <1>1. NotInNow \in Calls /\ NotInNow.at = "out" /\ NotInNow.seq = 0
    BY DEF NotInNow, Calls, Places
  <1>2. ClockType
    BY <1>1 DEF ClockInit, ClockType
  <1>3. \A c \in Caller : now[c] = NotInNow
    BY DEF ClockInit
  <1>4. \A c \in Caller : NumberOk(c)
    BY <1>1, <1>3 DEF NumberOk
  <1>5. Accounted
    <2> DEFINE sum == [T \in SUBSET Caller |-> 0]
    <2>1. Swapped = {} /\ Pending = [c \in Caller |-> 0]
      BY <1>1, <1>3 DEF Swapped, Pending
    <2>2. Sums(sum, [c \in Caller |-> 0])
      BY DEF Sums
    <2>3. sum \in [SUBSET Caller -> Int] /\ sum[{}] = 0
      OBVIOUS
    <2>4. last - skipped - emitted = 0
      BY DEF ClockInit
    <2> HIDE DEF sum
    <2> QED
      BY <2>1, <2>2, <2>3, <2>4 DEF Accounted, Balanced
  <1> QED
    BY <1>2, <1>4, <1>5 DEF ClockInv

\* A step of one call.
LEMMA CallMoves ==
    ASSUME ClockType, NEW c \in Caller, NEW s \in Calls, now' = [now EXCEPT ![c] = s]
    PROVE  /\ now' \in [Caller -> Calls] /\ now'[c] = s /\ \A d \in Caller \ {c} : now'[d] = now[d]
  BY DEF ClockType

\* The parts of the callers are numbers.
LEMMA PendingType ==
    ASSUME ClockType
    PROVE  Pending \in [Caller -> Int] /\ Swapped \in SUBSET Caller
  BY DEF ClockType, Calls, Pending, Swapped

\* A step that moves c's call leaves what the others have to report.
LEMMA PendingMoves ==
    ASSUME ClockType, NEW c \in Caller, NEW s \in Calls, now' = [now EXCEPT ![c] = s]
    PROVE  LET v == IF s.at = "swapped" THEN s.reading - s.last ELSE 0
           IN  /\ Pending' = [Pending EXCEPT ![c] = v]
               /\ Swapped' = IF s.at = "swapped" THEN Swapped \cup {c} ELSE Swapped \ {c}
  <1>1. now'[c] = s /\ \A d \in Caller \ {c} : now'[d] = now[d]
    BY Zenon, CallMoves
  <1>2. Swapped' = IF s.at = "swapped" THEN Swapped \cup {c} ELSE Swapped \ {c}
    BY <1>1 DEF Swapped
  <1> DEFINE v == IF s.at = "swapped" THEN s.reading - s.last ELSE 0
  <1>3. Pending' = [d \in Caller |-> IF d = c THEN v ELSE Pending[d]]
    BY <1>1 DEF Pending
  <1>4. Pending' = [Pending EXCEPT ![c] = v]
    BY Zenon, <1>3 DEF Pending
  <1> QED
    BY <1>2, <1>4

\* A call that moves without exchanging the last reading keeps the balance.
LEMMA BalanceKept ==
    ASSUME ClockType, Accounted, NEW c \in Caller, NEW s \in Calls, now' = [now EXCEPT ![c] = s],
           now[c].at # "swapped", s.at # "swapped", UNCHANGED <<last, emitted, skipped, discarded>>
    PROVE  Accounted'
  <1>1. Pending' = [Pending EXCEPT ![c] = 0] /\ Swapped' = Swapped \ {c}
    BY Zenon, PendingMoves
  <1>2. Pending[c] = 0 /\ c \notin Swapped
    BY DEF Pending, Swapped
  <1>3. Pending' = Pending /\ Swapped' = Swapped
    BY <1>1, <1>2, PendingType
  <1> QED
    BY <1>3 DEF Accounted

\* Now reads the wall clock.
LEMMA ReadKeeps ==
    ASSUME ClockInv, NEW c \in Caller, ReadClock(c)
    PROVE  ClockInv'
  <1>0. ClockType /\ Accounted /\ \A d \in Caller : NumberOk(d)
    BY DEF ClockInv
  <1> DEFINE m == Max(stamps \cup {0})
             s == [NotInNow EXCEPT !.at = "read", !.reading = offset, !.after = m]
  <1>1. m \in Nat /\ m <= seq
    <2>1. seq \in Nat /\ stamps \in SUBSET (1 .. seq)
      BY <1>0 DEF ClockType
    <2>2. m \in stamps \cup {0}
      BY <2>1, LargestStamp
    <2> HIDE DEF m
    <2> QED
      BY <2>1, <2>2
  <1>2. /\ now[c].at = "out" /\ now' = [now EXCEPT ![c] = s]
        /\ UNCHANGED <<offset, seq, last, stepCh, emitted, discarded, skipped, stamps>>
    BY DEF ReadClock
  <1> HIDE DEF m
  <1>3. s \in Calls /\ s.at = "read" /\ s.seq = 0 /\ s.after = m
    <2>1. offset \in Int
      BY <1>0 DEF ClockType
    <2>2. NotInNow \in Calls /\ NotInNow.seq = 0
      BY DEF NotInNow, Calls, Places
    <2> QED
      BY Zenon, <1>1, <2>1, <2>2 DEF Calls, Places
  <1> HIDE DEF s
  <1>4. now' \in [Caller -> Calls] /\ now'[c] = s /\ \A d \in Caller \ {c} : now'[d] = now[d]
    BY Zenon, <1>0, <1>2, <1>3, CallMoves
  <1>5. ClockType'
    BY Zenon, <1>0, <1>2, <1>4 DEF ClockType
  <1>6. \A d \in Caller : NumberOk(d)'
    BY <1>0, <1>1, <1>2, <1>3, <1>4 DEF NumberOk, ClockType, Calls
  <1>7. Accounted'
    BY Zenon, <1>0, <1>2, <1>3, BalanceKept
  <1> QED
    BY <1>5, <1>6, <1>7 DEF ClockInv

\* Now takes the next number, which is larger than any returned.
LEMMA AddSeqKeeps ==
    ASSUME ClockInv, NEW c \in Caller, AddSeq(c)
    PROVE  ClockInv'
  <1>0. ClockType /\ Accounted /\ \A d \in Caller : NumberOk(d)
    BY DEF ClockInv
  <1> DEFINE s == [now[c] EXCEPT !.at = "numbered", !.seq = seq + 1]
  <1>1. /\ now[c].at = "read" /\ now' = [now EXCEPT ![c] = s] /\ seq' = seq + 1
        /\ UNCHANGED <<offset, last, stepCh, emitted, discarded, skipped, stamps>>
    BY Zenon DEF AddSeq
  <1>2. seq \in Nat /\ stamps \in SUBSET (1 .. seq) /\ now[c] \in Calls /\ now[c].after <= seq
    BY <1>0, <1>1 DEF ClockType, NumberOk
  <1>3. s \in Calls /\ s.at = "numbered" /\ s.seq = seq + 1 /\ s.after = now[c].after
    <2>1. seq + 1 \in Nat
      BY <1>2
    <2> QED
      BY Zenon, <1>2, <2>1 DEF Calls, Places
  <1> HIDE DEF s
  <1>4. now' \in [Caller -> Calls] /\ now'[c] = s /\ \A d \in Caller \ {c} : now'[d] = now[d]
    BY Zenon, <1>0, <1>1, <1>3, CallMoves
  <1>5. ClockType'
    <2>1. stamps \subseteq 1 .. seq + 1 /\ seq + 1 \in Nat
      BY <1>2
    <2> QED
      BY Zenon, <1>0, <1>1, <1>4, <2>1 DEF ClockType
  <1>6. ASSUME NEW d \in Caller
        PROVE  NumberOk(d)'
    <2>1. /\ \A e \in Caller : now[e].seq \in Nat /\ now[e].after \in Nat /\ now[e].at \in Places
          /\ \A e \in Caller : now[e].seq <= seq
      <3>1. \A e \in Caller : now[e] \in Calls /\ NumberOk(e)
        BY <1>0 DEF ClockType
      <3>2. ASSUME NEW e \in Caller
            PROVE  now[e].seq \in Nat /\ now[e].after \in Nat /\ now[e].at \in Places
        BY Zenon, <3>1 DEF Calls
      <3>3. ASSUME NEW e \in Caller
            PROVE  now[e].seq <= seq
        BY <1>2, <3>1, <3>2 DEF NumberOk, Places
      <3> QED
        BY <3>2, <3>3
    <2>2. seq + 1 \notin stamps /\ \A e \in Caller : now[e].seq # seq + 1
      BY <1>2, <2>1
    <2>3. CASE d = c
      BY <1>1, <1>2, <1>3, <1>4, <2>1, <2>2, <2>3 DEF NumberOk
    <2>4. CASE d # c
      BY <1>0, <1>1, <1>2, <1>3, <1>4, <2>1, <2>2, <2>4 DEF NumberOk
    <2> QED
      BY <2>3, <2>4
  <1>7. Accounted'
    BY Zenon, <1>0, <1>1, <1>3, BalanceKept
  <1> QED
    BY <1>5, <1>6, <1>7 DEF ClockInv

\* The exchange under the lock: the difference between the new last reading and the
\* old one is what this call has to report.
LEMMA SwapKeeps ==
    ASSUME ClockInv, NEW c \in Caller, SwapLast(c)
    PROVE  ClockInv'
  <1>0. ClockType /\ Accounted /\ \A d \in Caller : NumberOk(d)
    BY DEF ClockInv
  <1> DEFINE s == [now[c] EXCEPT !.at = "swapped", !.last = last]
  <1>1. /\ now[c].at = "numbered" /\ now' = [now EXCEPT ![c] = s] /\ last' = now[c].reading
        /\ UNCHANGED <<offset, seq, stepCh, emitted, discarded, skipped, stamps>>
    BY Zenon DEF SwapLast
  <1>2. now[c] \in Calls /\ now[c].reading \in Int /\ last \in Int /\ skipped \in Int /\ emitted \in Int
    BY <1>0 DEF ClockType, Calls
  <1>3. /\ s \in Calls /\ s.at = "swapped" /\ s.seq = now[c].seq /\ s.after = now[c].after
        /\ s.reading = now[c].reading /\ s.last = last
    BY Zenon, <1>2 DEF Calls, Places
  <1> HIDE DEF s
  <1>4. now' \in [Caller -> Calls] /\ now'[c] = s /\ \A d \in Caller \ {c} : now'[d] = now[d]
    BY Zenon, <1>0, <1>1, <1>3, CallMoves
  <1>5. ClockType'
    BY Zenon, <1>0, <1>1, <1>2, <1>4 DEF ClockType
  <1>6. \A d \in Caller : NumberOk(d)'
    BY <1>0, <1>1, <1>3, <1>4 DEF NumberOk
  <1>7. Accounted'
    <2> DEFINE v == now[c].reading - last
               total == last - skipped - emitted
    <2>1. Pending' = [Pending EXCEPT ![c] = v] /\ Swapped' = Swapped \cup {c}
      BY Zenon, <1>0, <1>1, <1>3, PendingMoves
    <2>2. Pending[c] = 0 /\ c \in Caller \ Swapped
      BY <1>1 DEF Pending, Swapped
    <2>3. v \in Int /\ total \in Int /\ last' - skipped' - emitted' = total + v
      BY <1>1, <1>2
    <2> HIDE DEF v, total
    <2>4. Balanced(total, Pending, Swapped) =>
             Balanced(total + v, [Pending EXCEPT ![c] = v], Swapped \cup {c})
      BY Zenon, <1>0, <2>2, <2>3, PendingType, BalanceJoins
    <2>5. ~discarded => Balanced(total, Pending, Swapped)
      BY Zenon, <1>0 DEF Accounted, total
    <2> QED
      BY <1>1, <2>1, <2>3, <2>4, <2>5 DEF Accounted
  <1> QED
    BY <1>5, <1>6, <1>7 DEF ClockInv

\* What the call had to report is reported, passed over by the first call, or
\* discarded.
LEMMA DetectKeeps ==
    ASSUME ClockInv, NEW c \in Caller, Detect(c)
    PROVE  ClockInv'
  <1>0. ClockType /\ Accounted /\ \A d \in Caller : NumberOk(d)
    BY DEF ClockInv
  <1> DEFINE step == now[c].reading - now[c].last
  <1>1. /\ now[c].at = "swapped" /\ now' = [now EXCEPT ![c] = NotInNow]
        /\ stamps' = stamps \cup {now[c].seq} /\ UNCHANGED <<offset, seq, last>>
    BY DEF Detect
  <1>2. /\ now[c].reading \in Int /\ now[c].last \in Int /\ now[c].seq \in Nat
        /\ last \in Int /\ skipped \in Int /\ emitted \in Int /\ stepCh \in Nat
        /\ now[c].seq \in 1 .. seq /\ seq \in Nat /\ stamps \in SUBSET (1 .. seq)
    BY <1>0, <1>1 DEF ClockType, Calls, NumberOk
  <1>3. NotInNow \in Calls /\ NotInNow.at = "out" /\ NotInNow.seq = 0
    BY DEF NotInNow, Calls, Places
  <1>4. now' \in [Caller -> Calls] /\ now'[c] = NotInNow /\ \A d \in Caller \ {c} : now'[d] = now[d]
    BY Zenon, <1>0, <1>1, <1>3, CallMoves
  <1>5. /\ emitted' \in Int /\ skipped' \in Int /\ stepCh' \in Nat
        /\ ~discarded' => ~discarded /\ skipped' + emitted' = skipped + emitted + step
    <2>1. CASE now[c].seq > 1 /\ step # 0 /\ stepCh < StepBuffer
      <3>1. ~(now[c].seq = 1 \/ step = 0 \/ stepCh >= StepBuffer)
        BY <1>2, <2>1, ClockAssumption
      <3>2. /\ stepCh' = stepCh + 1 /\ emitted' = emitted + step /\ discarded' = discarded
            /\ skipped' = IF now[c].seq = 1 THEN skipped + step ELSE skipped
        BY Zenon, <3>1 DEF Detect
      <3> QED
        BY <1>2, <3>1, <3>2
    <2>2. CASE /\ now[c].seq = 1 \/ step = 0 \/ stepCh >= StepBuffer
               /\ discarded' = (discarded \/ (now[c].seq > 1 /\ step # 0))
               /\ UNCHANGED <<stepCh, emitted>>
      <3>1. skipped' = IF now[c].seq = 1 THEN skipped + step ELSE skipped
        BY DEF Detect
      <3>2. ~discarded' => ~discarded /\ ~(now[c].seq > 1 /\ step # 0)
        BY Zenon, <2>2
      <3>3. now[c].seq = 1 \/ now[c].seq > 1
        BY <1>2
      <3> QED
        BY <1>2, <2>2, <3>1, <3>2, <3>3
    <2> QED
      BY Zenon, <2>1, <2>2 DEF Detect
  <1>6. ClockType'
    <2>1. stamps' \subseteq 1 .. seq
      BY Zenon, <1>1, <1>2
    <2> QED
      BY <1>0, <1>1, <1>4, <1>5, <2>1 DEF ClockType
  <1>7. \A d \in Caller : NumberOk(d)'
    BY <1>0, <1>1, <1>2, <1>3, <1>4 DEF NumberOk
  <1>8. Accounted'
    <2> DEFINE total == last - skipped - emitted
    <2>1. Pending' = [Pending EXCEPT ![c] = 0] /\ Swapped' = Swapped \ {c}
      BY Zenon, <1>0, <1>1, <1>3, PendingMoves
    <2>2. Pending[c] = step /\ c \in Swapped
      BY Zenon, <1>1 DEF Pending, Swapped
    <2>3. total \in Int /\ (~discarded' => last' - skipped' - emitted' = total - Pending[c])
      BY <1>1, <1>2, <1>5, <2>2
    <2> HIDE DEF total
    <2>4. Balanced(total, Pending, Swapped) =>
             Balanced(total - Pending[c], [Pending EXCEPT ![c] = 0], Swapped \ {c})
      BY Zenon, <1>0, <2>2, <2>3, PendingType, BalanceLeaves
    <2>5. ~discarded => Balanced(total, Pending, Swapped)
      BY <1>0 DEF Accounted, total
    <2> QED
      BY <1>5, <2>1, <2>3, <2>4, <2>5 DEF Accounted
  <1> QED
    BY <1>6, <1>7, <1>8 DEF ClockInv

\* Every step keeps the invariant.
LEMMA ClockStep == ClockInv /\ [ClockNext]_clockVars => ClockInv'
  <1> SUFFICES ASSUME ClockInv, [ClockNext]_clockVars
               PROVE  ClockInv'
    OBVIOUS
  <1>1. CASE LogStep \/ (\E o \in Offset : SetSystemTime(o)) \/ UNCHANGED clockVars
    <2>1. UNCHANGED <<seq, last, now, emitted, discarded, skipped, stamps>>
      BY <1>1 DEF LogStep, SetSystemTime, clockVars
    <2>2. offset' \in Int /\ stepCh' \in Nat
      BY <1>1, ClockAssumption
         DEF LogStep, SetSystemTime, clockVars, ClockInv, ClockType
    <2> QED
      BY <2>1, <2>2 DEF ClockInv, ClockType, NumberOk, Accounted, Pending, Swapped
  <1> QED
    BY Zenon, <1>1, ReadKeeps, AddSeqKeeps, SwapKeeps, DetectKeeps DEF ClockNext

\* However the calls of Now overlap, their numbers order them as they were made, and
\* the steps they report add up to the change of the wall clock.
THEOREM ClockSound == ClockSpec => []ClockIsSound
  <1>1. ASSUME ClockInv
        PROVE  ClockIsSound
    <2>1. SeqIsCausal
      <3>1. \A c \in Caller : now[c].at \in Places /\ NumberOk(c)
        BY <1>1 DEF ClockInv, ClockType, Calls
      <3> QED
        BY <3>1 DEF SeqIsCausal, NumberOk, Places
    <2>2. ASSUME \A c \in Caller : now[c].at = "out", ~discarded
          PROVE  last = skipped + emitted
      <3>1. Swapped = {}
        BY Zenon, <2>2 DEF Swapped
      <3>2. last - skipped - emitted = 0
        BY <1>1, <2>2, <3>1 DEF ClockInv, Accounted, Balanced, Sums
      <3> QED
        BY <1>1, <3>2 DEF ClockInv, ClockType
    <2> QED
      BY Zenon, <2>1, <2>2 DEF ClockIsSound, StepsAddUp
  <1> QED
    BY <1>1, ClockInitInv, ClockStep, PTL DEF ClockSpec

-----------------------------------------------------------------------------
(*****************************************************************************)
(* Resolver. Kahn's algorithm over the unit files: a plan has every unit     *)
(* once, after all it depends on, and Resolve reports a cycle only when      *)
(* there is one. Both directions of the last need an argument by a least     *)
(* set: the units left over when the queue runs dry all wait for units       *)
(* left over, so one of them depends on itself; and no unit that was         *)
(* placed does.                                                              *)
(*****************************************************************************)

\* A set of names has a first one, which Min picks.
LEMMA FirstName ==
    ASSUME NEW T \in SUBSET Nat, T # {}
    PROVE  Min(T) \in T
  <1>1. IsWellFoundedOn(OpToRel(<, Nat), Nat)
    BY Zenon, NatLessThanWellFounded
  <1>2. PICK x \in T : \A y \in T : ~(<<y, x>> \in OpToRel(<, Nat))
    BY Zenon, <1>1, WFMin
  <1>3. \A y \in T : ~(y < x)
    BY Zenon, <1>2 DEF OpToRel
  <1>4. \A y \in T : x <= y
    BY <1>3
  <1> QED
    BY Zenon, <1>4 DEF Min

\* A family of subsets of a finite set has a least one.
LEMMA LeastSet ==
    ASSUME NEW S, IsFiniteSet(S), NEW T \in SUBSET SUBSET S, T # {}
    PROVE  \E U \in T : \A V \in T : V \subseteq U => V = U
  <1>1. T \subseteq FiniteSubsetsOf(S)
    BY FS_FiniteSubsetsOfFinite
  <1>2. PICK U \in T : \A V \in T : ~(<<V, U>> \in StrictSubsetOrdering(S))
    BY <1>1, WFMin, FS_StrictSubsetOrderingWellFounded
  <1>3. \A V \in T : V \subseteq U => V = U
    BY Zenon, <1>2 DEF StrictSubsetOrdering
  <1> QED
    BY <1>3

\* A sequence with no repetition has as many elements as its length.
LEMMA OrderLength ==
    ASSUME NEW S, NEW s \in Seq(S), \A i, j \in 1 .. Len(s) : s[i] = s[j] => i = j
    PROVE  IsFiniteSet(Range(s)) /\ Cardinality(Range(s)) = Len(s)
  <1>1. Len(s) \in Nat /\ DOMAIN s = 1 .. Len(s)
    OBVIOUS
  <1>2. s \in Bijection(1 .. Len(s), Range(s))
    BY <1>1 DEF Bijection, Injection, Surjection, IsInjective, Range
  <1>3. IsFiniteSet(1 .. Len(s)) /\ Cardinality(1 .. Len(s)) = Len(s)
    BY <1>1, FS_Interval
  <1>4. ExistsBijection(1 .. Len(s), Range(s))
    BY <1>2 DEF ExistsBijection
  <1> QED
    BY <1>3, <1>4, <1>2, FS_Bijection

-----------------------------------------------------------------------------
\* The units that are in the order, and what a unit file says.
Placed == Range(order)
UnitFile == [name : Nat, parses : BOOLEAN, enabled : BOOLEAN, deps : SUBSET Nat]

\* What Kahn's algorithm keeps: the count of each unit is the number of its
\* dependencies that are not placed, the queue has the units with none of them, and
\* every unit was placed after all it depends on.
KahnInv ==
    /\ \A n \in Declared : allDeps(n) \subseteq Declared
    /\ Cardinality(Declared) = Cardinality(units)
    /\ order \in Seq(Declared)
    /\ \A i, j \in 1 .. Len(order) : order[i] = order[j] => i = j
    /\ inDegree = [n \in Declared |-> Cardinality(allDeps(n) \ Placed)]
    /\ queue = {n \in Declared \ Placed : allDeps(n) \subseteq Placed}

\* The inductive invariant of Resolve: before the sort there is no order, a plan has
\* all the units, and on a cycle no unit is left that could be placed.
ResolverInv ==
    /\ unitFiles \in Seq(UnitFile) /\ units \subseteq DOMAIN unitFiles
    /\ OrderRespectsDeps
    /\ resolve \in {"kahn", "plan", "cycle"} => KahnInv
    /\ resolve \notin {"kahn", "plan", "cycle"} => order = <<>>
    /\ resolve = "plan" => Len(order) = Cardinality(units)
    /\ resolve = "cycle" => queue = {} /\ Len(order) # Cardinality(units)

\* The names of the units are finitely many numbers.
LEMMA DeclaredFacts ==
    ASSUME unitFiles \in Seq(UnitFile), units \subseteq DOMAIN unitFiles
    PROVE  IsFiniteSet(Declared) /\ Declared \subseteq Nat
  <1>1. DOMAIN unitFiles = 1 .. Len(unitFiles) /\ Len(unitFiles) \in Nat
    OBVIOUS
  <1>2. IsFiniteSet(1 .. Len(unitFiles))
    BY <1>1, FS_Interval
  <1>3. IsFiniteSet(units)
    BY Zenon, <1>1, <1>2, FS_Subset
  <1>4. IsFiniteSet({unitFiles[i].name : i \in units})
    <2> DEFINE f == [i \in units |-> unitFiles[i].name]
    <2>1. f \in Surjection(units, {unitFiles[i].name : i \in units})
      BY DEF Surjection
    <2> QED
      BY <1>3, <2>1, FS_Surjection
  <1>5. \A i \in units : unitFiles[i] \in UnitFile
    BY <1>1
  <1>6. \A i \in units : unitFiles[i].name \in Nat
    BY <1>5 DEF UnitFile
  <1> QED
    BY <1>4, <1>6 DEF Declared

\* Pop places a unit whose dependencies are all placed, and the counts and the queue
\* follow.
LEMMA PopStep ==
    ASSUME ResolverInv, Pop
    PROVE  ResolverInv'
  <1> DEFINE name == Min(queue)
             P == Placed
             Q == P \cup {name}
             n == Len(order)
  <1>0. KahnInv /\ OrderRespectsDeps /\ resolve = "kahn" /\ queue # {}
    BY DEF ResolverInv, Pop
  <1>u. UNCHANGED <<unitFiles, units, resolve>>
    BY DEF Pop
  <1>d. Declared' = Declared /\ \A d : allDeps(d)' = allDeps(d)
    BY <1>u DEF Declared, allDeps
  <1>1. IsFiniteSet(Declared) /\ Declared \subseteq Nat
    BY DeclaredFacts DEF ResolverInv
  <1>2. name \in queue
    <2>1. queue \in SUBSET Nat
      BY Zenon, <1>0, <1>1 DEF KahnInv
    <2> QED
      BY <1>0, <2>1, FirstName
  <1> HIDE DEF name
  <1>3. name \in Declared /\ name \notin P /\ allDeps(name) \subseteq P
    BY Zenon, <1>0, <1>2 DEF KahnInv
  <1>4. /\ order' = Append(order, name)
        /\ inDegree' = [d \in Declared |-> IF name \in allDeps(d) THEN inDegree[d] - 1 ELSE inDegree[d]]
        /\ queue' = (queue \ {name}) \cup {d \in Declared : name \in allDeps(d) /\ inDegree[d] = 1}
    BY DEF Pop, name
  <1>5. order \in Seq(Declared) /\ n \in Nat /\ DOMAIN order = 1 .. n
    BY <1>0 DEF KahnInv
  <1>6. /\ order' \in Seq(Declared) /\ Len(order') = n + 1 /\ DOMAIN order' = 1 .. n + 1
        /\ \A i \in 1 .. n : order'[i] = order[i]
        /\ order'[n + 1] = name
    BY <1>3, <1>4, <1>5
  <1>7. \A i \in 1 .. n + 1 : i \in 1 .. n \/ i = n + 1
    BY <1>5
  <1>8. \A i \in 1 .. n : order[i] \in P
    BY <1>5 DEF Placed, Range
  <1>9. Placed' = Q
    <2>1. Placed' = {order'[i] : i \in 1 .. n + 1}
      BY <1>6 DEF Placed, Range
    <2>2. P = {order[i] : i \in 1 .. n}
      BY <1>5 DEF Placed, Range
    <2>3. n + 1 \in 1 .. n + 1 /\ \A i \in 1 .. n : i \in 1 .. n + 1
      BY <1>5
    <2> QED
      BY Zenon, <1>6, <1>7, <2>1, <2>2, <2>3
  <1>10. \A i, j \in 1 .. n + 1 : order'[i] = order'[j] => i = j
    BY Zenon, <1>0, <1>3, <1>6, <1>7, <1>8 DEF KahnInv
  <1>11. OrderRespectsDeps'
    <2> SUFFICES ASSUME NEW i \in 1 .. n + 1
                 PROVE  allDeps(order'[i]) \subseteq {order'[j] : j \in 1 .. i - 1}
      BY <1>6, <1>d DEF OrderRespectsDeps
    <2>1. \A j \in 1 .. i - 1 : j \in 1 .. n
      BY <1>5
    <2>2. {order'[j] : j \in 1 .. i - 1} = {order[j] : j \in 1 .. i - 1}
      BY Zenon, <1>6, <2>1
    <2>3. CASE i \in 1 .. n
      BY Zenon, <1>0, <1>5, <1>6, <2>2, <2>3 DEF OrderRespectsDeps
    <2>4. CASE i = n + 1
      <3>1. i - 1 = n
        BY <1>5, <2>4
      <3>2. P = {order[j] : j \in 1 .. n}
        BY Zenon, <1>5 DEF Placed, Range
      <3> QED
        BY Zenon, <1>3, <1>6, <2>2, <2>4, <3>1, <3>2
    <2> QED
      BY Zenon, <1>7, <2>3, <2>4
  <1>12. \A d \in P : d \in Declared /\ allDeps(d) \subseteq P
    <2>1. \A i \in 1 .. n : order[i] \in Declared /\ allDeps(order[i]) \subseteq P
      <3>1. \A i \in 1 .. n : allDeps(order[i]) \subseteq {order[j] : j \in 1 .. i - 1}
        BY <1>0, <1>5 DEF OrderRespectsDeps
      <3>2. \A i \in 1 .. n : \A j \in 1 .. i - 1 : j \in 1 .. n
        BY <1>5
      <3> QED
        BY <1>5, <1>8, <3>1, <3>2
    <2> QED
      BY Zenon, <1>5, <2>1 DEF Placed, Range
  <1>13. ASSUME NEW d \in Declared
         PROVE  /\ inDegree[d] = Cardinality(allDeps(d) \ P)
                /\ IsFiniteSet(allDeps(d) \ P) /\ Cardinality(allDeps(d) \ P) \in Nat
    <2>1. IsFiniteSet(allDeps(d) \ P)
      <3>1. allDeps(d) \ P \subseteq Declared
        BY Zenon, <1>0 DEF KahnInv
      <3> QED
        BY Zenon, <1>1, <3>1, FS_Subset
    <2> QED
      BY Zenon, <1>0, <2>1, FS_CardinalityType DEF KahnInv
  <1>14. ASSUME NEW d \in Declared
         PROVE  (IF name \in allDeps(d) THEN inDegree[d] - 1 ELSE inDegree[d]) = Cardinality(allDeps(d) \ Q)
    <2>1. CASE name \in allDeps(d)
      <3>1. allDeps(d) \ Q = (allDeps(d) \ P) \ {name} /\ name \in allDeps(d) \ P
        BY <1>3, <2>1
      <3>2. Cardinality(allDeps(d) \ Q) = Cardinality(allDeps(d) \ P) - 1
        BY Zenon, <1>13, <3>1, FS_RemoveElement
      <3> QED
        BY Zenon, <1>13, <2>1, <3>2
    <2>2. CASE name \notin allDeps(d)
      <3>1. allDeps(d) \ Q = allDeps(d) \ P
        BY <2>2
      <3> QED
        BY Zenon, <1>13, <2>2, <3>1
    <2> QED
      BY Zenon, <2>1, <2>2
  <1>15. ASSUME NEW d \in Declared, name \in allDeps(d)
         PROVE  inDegree[d] = 1 <=> allDeps(d) \subseteq Q
    <2>1. name \in allDeps(d) \ P
      BY <1>3, <1>15
    <2>2. ASSUME inDegree[d] = 1
          PROVE  allDeps(d) \subseteq Q
      <3>1. PICK x : allDeps(d) \ P = {x}
        BY Zenon, <1>13, <2>2, FS_Singleton
      <3> QED
        BY <2>1, <3>1
    <2>3. ASSUME allDeps(d) \subseteq Q
          PROVE  inDegree[d] = 1
      <3>1. allDeps(d) \ P = {name}
        BY <2>1, <2>3
      <3> QED
        BY Zenon, <1>13, <3>1, FS_Singleton
    <2> QED
      BY <2>2, <2>3
  <1>16. queue' = {d \in Declared \ Q : allDeps(d) \subseteq Q}
    <2>1. ASSUME NEW d \in Declared
          PROVE  d \in queue' <=> d \notin Q /\ allDeps(d) \subseteq Q
      <3>1. d \in queue <=> d \notin P /\ allDeps(d) \subseteq P
        BY Zenon, <1>0, <2>1 DEF KahnInv
      <3>2. CASE name \in allDeps(d)
        <4>1. d \notin Q
          BY Zenon, <1>3, <1>12, <3>2
        <4>2. d \notin queue
          BY Zenon, <1>3, <3>1, <3>2
        <4> QED
          BY Zenon, <1>4, <1>15, <3>2, <4>1, <4>2
      <3>3. CASE name \notin allDeps(d)
        <4>1. allDeps(d) \subseteq Q <=> allDeps(d) \subseteq P
          BY Zenon, <3>3
        <4> QED
          BY Zenon, <1>4, <3>1, <3>3, <4>1
      <3> QED
        BY <3>2, <3>3
    <2>2. queue' \subseteq Declared
      BY Zenon, <1>0, <1>4 DEF KahnInv
    <2> QED
      BY Zenon, <2>1, <2>2
  <1>17. KahnInv'
    <2>1. inDegree' = [d \in Declared |-> Cardinality(allDeps(d) \ Q)]
      BY <1>4, <1>14
    <2> QED
      BY Zenon, <1>0, <1>u, <1>d, <1>6, <1>9, <1>10, <1>16, <2>1 DEF KahnInv
  <1> QED
    BY Zenon, <1>0, <1>u, <1>11, <1>17 DEF ResolverInv

\* Every step keeps what Kahn's algorithm relies on.
LEMMA ResolverStep == ResolverInv /\ [ResolverNext]_resolverVars => ResolverInv'
  <1> SUFFICES ASSUME ResolverInv, [ResolverNext]_resolverVars
               PROVE  ResolverInv'
    OBVIOUS
  <1>1. CASE LoadDir
    <2>1. /\ resolve = "load" /\ unitFiles' = unitFiles /\ order' = order /\ order = <<>>
          /\ units' = units \/ units' = {i \in DOMAIN unitFiles : unitFiles[i].enabled}
          /\ resolve' \in {"unparsable", "empty", "validate"}
      BY <1>1 DEF LoadDir, ResolverInv
    <2>2. OrderRespectsDeps'
      BY <2>1 DEF OrderRespectsDeps
    <2> QED
      BY Zenon, <2>1, <2>2 DEF ResolverInv
  <1>2. CASE Validate
    <2>1. /\ resolve = "validate" /\ UNCHANGED <<unitFiles, units, order>> /\ order = <<>>
      BY <1>2 DEF Validate, ResolverInv
    <2>2. OrderRespectsDeps'
      BY <2>1 DEF OrderRespectsDeps
    <2>3. CASE resolve' \in {"duplicate", "unknown"}
      BY Zenon, <2>1, <2>2, <2>3 DEF ResolverInv
    <2>4. CASE resolve' = "kahn"
      <3>1. /\ Cardinality(Declared) = Cardinality(units)
            /\ \A n \in Declared : allDeps(n) \subseteq Declared
            /\ inDegree' = [n \in Declared |-> Cardinality(allDeps(n))]
            /\ queue' = {n \in Declared : allDeps(n) = {}}
        BY Zenon, <1>2, <2>4 DEF Validate
      <3>2. Declared' = Declared /\ \A d : allDeps(d)' = allDeps(d)
        BY <2>1 DEF Declared, allDeps
      <3>3. Placed' = {} /\ order' = <<>>
        BY <2>1 DEF Placed, Range
      <3>4. \A n : allDeps(n) \ {} = allDeps(n)
        OBVIOUS
      <3>5. KahnInv'
        BY <2>1, <3>1, <3>2, <3>3, <3>4 DEF KahnInv
      <3> QED
        BY Zenon, <2>1, <2>2, <2>4, <3>5 DEF ResolverInv
    <2> QED
      BY Zenon, <1>2, <2>3, <2>4 DEF Validate
  <1>3. CASE Pop
    BY Zenon, <1>3, PopStep
  <1>4. CASE Finish
    <2>1. /\ resolve = "kahn" /\ queue = {} /\ UNCHANGED <<unitFiles, units, inDegree, queue, order>>
          /\ resolve' = IF Len(order) # Cardinality(units) THEN "cycle" ELSE "plan"
      BY Zenon, <1>4 DEF Finish
    <2>2. OrderRespectsDeps' /\ KahnInv'
      <3>1. Declared' = Declared /\ (\A d : allDeps(d)' = allDeps(d)) /\ Placed' = Placed
        BY Zenon, <2>1 DEF Declared, allDeps, Placed
      <3> QED
        BY <2>1, <3>1 DEF ResolverInv, OrderRespectsDeps, KahnInv
    <2> QED
      BY <2>1, <2>2 DEF ResolverInv
  <1>5. CASE UNCHANGED resolverVars
    <2>1. Declared' = Declared /\ (\A d : allDeps(d)' = allDeps(d)) /\ Placed' = Placed
      BY Zenon, <1>5 DEF resolverVars, Declared, allDeps, Placed
    <2>2. (KahnInv => KahnInv') /\ (OrderRespectsDeps => OrderRespectsDeps')
      BY <1>5, <2>1 DEF resolverVars, KahnInv, OrderRespectsDeps
    <2> QED
      BY Zenon, <1>5, <2>2 DEF resolverVars, ResolverInv
  <1> QED
    BY Zenon, <1>1, <1>2, <1>3, <1>4, <1>5 DEF ResolverNext

\* In an order with every unit after its dependencies no unit depends on itself: what
\* is placed before a unit has all it depends on.
LEMMA OrderedIsAcyclic ==
    ASSUME KahnInv, OrderRespectsDeps, Placed = Declared, NEW u \in Declared
    PROVE  ~DependsOn(u, u)
  <1>0. order \in Seq(Declared) /\ Len(order) \in Nat /\ DOMAIN order = 1 .. Len(order)
    BY DEF KahnInv
  <1>1. PICK i \in 1 .. Len(order) : order[i] = u
    BY <1>0 DEF Placed, Range
  <1> DEFINE C == {order[j] : j \in 1 .. i - 1}
  <1>2. \A j \in 1 .. i - 1 : j \in 1 .. Len(order) /\ j # i /\ \A k \in 1 .. j - 1 : k \in 1 .. i - 1
    BY <1>0
  <1>3. C \in SUBSET Declared
    BY <1>0, <1>2
  <1>4. allDeps(u) \subseteq C
    BY Zenon, <1>0, <1>1 DEF OrderRespectsDeps
  <1>5. ASSUME NEW k \in C
        PROVE  allDeps(k) \subseteq C
    <2>1. PICK j \in 1 .. i - 1 : k = order[j]
      OBVIOUS
    <2>2. allDeps(order[j]) \subseteq {order[x] : x \in 1 .. j - 1}
      BY Zenon, <1>0, <1>2 DEF OrderRespectsDeps
    <2> QED
      BY Zenon, <1>2, <2>1, <2>2
  <1>6. u \notin C
    BY Zenon, <1>1, <1>2 DEF KahnInv
  <1> HIDE DEF C
  <1> QED
    BY Zenon, <1>3, <1>4, <1>5, <1>6 DEF DependsOn

\* Units each of which waits for another one of them are on a cycle or behind one: the
\* one with the fewest dependencies depends on a unit that depends on itself.
LEMMA StuckIsCyclic ==
    ASSUME IsFiniteSet(Declared), \A n \in Declared : allDeps(n) \subseteq Declared,
           NEW L \in SUBSET Declared, L # {}, \A n \in L : allDeps(n) \cap L # {}
    PROVE  \E n \in Declared : DependsOn(n, n)
  <1> DEFINE Down(n) == {m \in Declared : DependsOn(n, m)}
             T == {Down(n) : n \in L}
  <1>1. T \in SUBSET SUBSET Declared /\ T # {}
    BY Zenon
  <1> HIDE DEF T
  <1>2. PICK U \in T : \A V \in T : V \subseteq U => V = U
    BY <1>1, LeastSet
  <1> USE DEF T
  <1>3. PICK n \in L : U = Down(n)
    BY <1>2
  <1>4. PICK m \in L : m \in allDeps(n)
    OBVIOUS
  <1>5. m \in Down(n)
    BY Zenon, <1>4 DEF DependsOn
  <1>6. Down(m) \subseteq Down(n)
    <2> SUFFICES ASSUME NEW x \in Declared, DependsOn(m, x),
                        NEW C \in SUBSET Declared, allDeps(n) \subseteq C, \A k \in C : allDeps(k) \subseteq C
                 PROVE  x \in C
      BY DEF DependsOn
    <2>1. allDeps(m) \subseteq C
      BY <1>4
    <2> QED
      BY Zenon, <2>1 DEF DependsOn
  <1>7. Down(m) = Down(n)
    BY Zenon, <1>2, <1>3, <1>6
  <1> QED
    BY <1>5, <1>7

\* Resolve finds an order in which every unit comes after all it depends on, exactly
\* when no enabled unit depends on itself through others, for every directory of
\* unit files.
THEOREM PlansAreRight == ResolverSpec => []PlanIsRight
  <1>1. ResolverInit => ResolverInv
    BY ResolverAssumption DEF ResolverInit, ResolverInv, OrderRespectsDeps, UnitFile
  <1>2. ResolverInv => PlanIsRight
    <2> SUFFICES ASSUME ResolverInv
                 PROVE  PlanIsRight
      OBVIOUS
    <2>0. IsFiniteSet(Declared)
      BY Zenon, DeclaredFacts DEF ResolverInv
    <2>1. ASSUME resolve \in {"plan", "cycle"}
          PROVE  /\ KahnInv /\ Placed \subseteq Declared /\ IsFiniteSet(Placed)
                 /\ Cardinality(Placed) = Len(order) /\ Cardinality(Declared) = Cardinality(units)
      <3>1. KahnInv
        BY <2>1 DEF ResolverInv
      <3>2. IsFiniteSet(Placed) /\ Cardinality(Placed) = Len(order)
        BY Zenon, <3>1, OrderLength DEF KahnInv, Placed
      <3>3. Placed \subseteq Declared
        BY <3>1 DEF KahnInv, Placed, Range
      <3> QED
        BY <3>1, <3>2, <3>3 DEF KahnInv
    <2>2. ASSUME resolve = "plan"
          PROVE  Range(order) = Declared /\ \A n \in Declared : ~DependsOn(n, n)
      <3>1. Placed = Declared
        BY Zenon, <2>0, <2>1, <2>2, FS_Subset DEF ResolverInv
      <3> QED
        BY Zenon, <2>1, <2>2, <3>1, OrderedIsAcyclic DEF ResolverInv, Placed
    <2>3. ASSUME resolve = "cycle"
          PROVE  \E n \in Declared : DependsOn(n, n)
      <3> DEFINE L == Declared \ Placed
      <3>0. Placed # Declared
        BY <2>1, <2>3 DEF ResolverInv
      <3>1. L \in SUBSET Declared /\ L # {}
        BY Zenon, <2>1, <2>3, <3>0
      <3>2. \A n \in L : allDeps(n) \cap L # {}
        BY Zenon, <2>1, <2>3 DEF ResolverInv, KahnInv
      <3>3. \A n \in Declared : allDeps(n) \subseteq Declared
        BY <2>1, <2>3 DEF KahnInv
      <3> HIDE DEF L
      <3> QED
        BY Zenon, <2>0, <3>1, <3>2, <3>3, StuckIsCyclic
    <2> QED
      BY <2>2, <2>3 DEF ResolverInv, PlanIsRight, ResolvesIffAcyclic
  <1> QED
    BY <1>1, <1>2, ResolverStep, PTL DEF ResolverSpec

-----------------------------------------------------------------------------
(*****************************************************************************)
(* CrashCapture. Rotation and diagnostic bundles go by name, that is by      *)
(* service and then by time. Among the files of one service the first        *)
(* names are the oldest ones: the files before one of them are among those   *)
(* before any later one.                                                     *)
(*****************************************************************************)

\* What the name of a file is made of.
FileNames(S) == \A f \in S : f.prefix \in Int /\ f.at \in Int

\* The files under /data/crashes are finitely many and have names; so will the file
\* of a capture in progress.
CrashInv ==
    /\ second \in Int
    /\ IsFiniteSet(files) /\ FileNames(files)
    /\ capture = NoCapture \/ (capture.service \in Int /\ capture.time \in Int)

\* A file among the n first names is older than a file of the same prefix that is not:
\* what comes before a file comes before every later one of its prefix.
LEMMA FirstAreOldest ==
    ASSUME NEW S, IsFiniteSet(S), FileNames(S), NEW n \in Int,
           NEW f \in FirstNames(S, n), NEW g \in S \ FirstNames(S, n), f.prefix = g.prefix
    PROVE  Older(f, g)
  <1> DEFINE P(x) == {h \in S : Before(h, x)}
  <1>1. f \in S /\ Cardinality(P(f)) < n /\ ~(Cardinality(P(g)) < n)
    BY DEF FirstNames
  <1>2. f.at \in Int /\ g.at \in Int /\ g.prefix \in Int /\ \A h \in S : h.at \in Int /\ h.prefix \in Int
    BY Zenon, <1>1 DEF FileNames
  <1>3. ASSUME ~(f.at < g.at)
        PROVE  FALSE
    <2>1. P(g) \subseteq P(f)
      BY <1>2, <1>3 DEF Before
    <2>2. IsFiniteSet(P(f)) /\ IsFiniteSet(P(g))
      BY Zenon, FS_Subset
    <2>3. Cardinality(P(g)) <= Cardinality(P(f))
      BY Zenon, <2>1, <2>2, FS_Subset
    <2>4. Cardinality(P(g)) \in Nat /\ Cardinality(P(f)) \in Nat
      BY Zenon, <2>2, FS_CardinalityType
    <2> QED
      BY <1>1, <2>3, <2>4
  <1> QED
    BY Zenon, <1>3 DEF Older

\* A step writes files with names, and removes any.
LEMMA CrashStep == CrashInv /\ [CrashNext]_captureVars => CrashInv'
  <1> SUFFICES ASSUME CrashInv, [CrashNext]_captureVars
               PROVE  CrashInv'
    OBVIOUS
  <1>a. Service \subseteq Int /\ PanicPrefix \in Int
    BY CaptureAssumption
  <1>1. ASSUME NEW s \in Service, NEW tail, StartCapture(s, tail)
        PROVE  CrashInv'
    BY Zenon, <1>a, <1>1 DEF StartCapture, CrashInv
  <1>2. CASE ShortenTail
    BY <1>2 DEF ShortenTail, CrashInv, NoCapture
  <1>3. CASE WriteBundle
    <2> DEFINE f == [prefix |-> capture.service, at |-> capture.time, size |-> BundleSize(capture.tail)]
               rest == {g \in files : g.prefix # f.prefix \/ g.at # f.at}
    <2>1. /\ capture # NoCapture /\ files' = rest \cup {f}
          /\ capture' = [capture EXCEPT !.at = "rotate"] /\ second' = second
      BY <1>3 DEF WriteBundle, NoCapture
    <2>2. f.prefix \in Int /\ f.at \in Int
      BY Zenon, <2>1 DEF CrashInv
    <2>3. IsFiniteSet(rest)
      BY Zenon, FS_Subset DEF CrashInv
    <2>4. IsFiniteSet({f})
      BY Zenon, FS_Singleton
    <2>5. IsFiniteSet(files')
      BY Zenon, <2>1, <2>3, <2>4, FS_Union
    <2> QED
      BY <2>1, <2>2, <2>5 DEF CrashInv, FileNames
  <1>4. CASE RotateBundles
    <2>1. files' \subseteq files /\ capture' = NoCapture /\ second' = second
      BY Zenon, <1>4 DEF RotateBundles
    <2>2. IsFiniteSet(files')
      BY Zenon, <2>1, FS_Subset DEF CrashInv
    <2> QED
      BY Zenon, <2>1, <2>2 DEF CrashInv, FileNames
  <1>5. CASE CaptureStops
    BY Zenon, <1>5 DEF CaptureStops, CrashInv
  <1>6. CASE Panics
    BY Zenon, <1>6 DEF Panics, CrashInv
  <1>7. CASE Diag
    <2> DEFINE p == [prefix |-> PanicPrefix, at |-> second, size |-> 0]
    <2>1. files' = files \/ files' = files \cup {p}
      BY Zenon, <1>7 DEF Diag
    <2>2. p.prefix \in Int /\ p.at \in Int
      BY Zenon, <1>a DEF CrashInv
    <2> HIDE DEF p
    <2>3. IsFiniteSet({p})
      BY Zenon, FS_Singleton
    <2>4. IsFiniteSet(files \cup {p})
      BY Zenon, <2>3, FS_Union DEF CrashInv
    <2>5. IsFiniteSet(files') /\ FileNames(files')
      BY Zenon, <2>1, <2>2, <2>4 DEF CrashInv, FileNames
    <2> QED
      BY Zenon, <1>7, <2>5 DEF Diag, CrashInv
  <1>8. CASE SecondPasses
    BY <1>8 DEF SecondPasses, CrashInv
  <1>9. CASE UNCHANGED captureVars
    BY Zenon, <1>9 DEF captureVars, CrashInv
  <1> QED
    BY <1>1, <1>2, <1>3, <1>4, <1>5, <1>6, <1>7, <1>8, <1>9 DEF CrashNext, CaptureStep

\* A rotation removes the first names among the bundles, which are the oldest of
\* their service.
LEMMA RotationStep ==
    CrashInv /\ [CrashNext]_captureVars =>
        [capture.at = "rotate" =>
            \A gone \in files \ files', kept \in files' :
                kept.prefix = gone.prefix => Older(gone, kept)]_captureVars
  <1> SUFFICES ASSUME CrashInv, CrashNext, capture.at = "rotate",
                      NEW gone \in files \ files', NEW kept \in files', kept.prefix = gone.prefix
               PROVE  Older(gone, kept)
    OBVIOUS
  <1>1. RotateBundles
    BY Zenon
       DEF CrashNext, CaptureStep, StartCapture, ShortenTail, WriteBundle, CaptureStops,
       Panics, Diag,
       SecondPasses, NoCapture
  <1> DEFINE n == Cardinality(Bundles) - MaxBundles
  <1>2. files' = files \ FirstNames(Bundles, n)
    BY Zenon, <1>1 DEF RotateBundles
  <1>3. IsFiniteSet(Bundles) /\ FileNames(Bundles)
    BY Zenon, FS_Subset DEF CrashInv, Bundles, FileNames
  <1>4. n \in Int
    BY <1>3, FS_CardinalityType, CaptureAssumption
  <1> HIDE DEF n
  <1>5. gone \in FirstNames(Bundles, n) /\ kept \notin FirstNames(Bundles, n) /\ kept \in files
    BY Zenon, <1>2
  <1>6. gone \in Bundles
    BY Zenon, <1>5 DEF FirstNames
  <1>7. kept \in Bundles
    BY Zenon, <1>5, <1>6 DEF Bundles
  <1> QED
    BY <1>3, <1>4, <1>5, <1>7, FirstAreOldest

\* Rotation and diagnostic bundles leave out the oldest files of each service first,
\* whatever the services, the limits and the order of the names are.
THEOREM KeepsNewest == CrashSpec => NewestAreKept
  <1>1. CrashInit => CrashInv
    BY FS_EmptySet DEF CrashInit, CrashInv, FileNames
  <1>2. CrashInv => BundledAreNewest
    <2> SUFFICES ASSUME CrashInv, NEW out \in files \ Bundled, NEW f \in Bundled, out.prefix = f.prefix
                 PROVE  Older(out, f)
      BY Zenon DEF BundledAreNewest
    <2> DEFINE n == Cardinality(files) - DiagFiles
    <2>1. n \in Int
      BY FS_CardinalityType, CaptureAssumption DEF CrashInv
    <2>2. out \in FirstNames(files, n) /\ f \in files \ FirstNames(files, n)
      BY DEF Bundled
    <2> QED
      BY Zenon, <2>1, <2>2, FirstAreOldest DEF CrashInv
  <1> QED
    BY <1>1, <1>2, CrashStep, RotationStep, PTL DEF CrashSpec, NewestAreKept,
       OldestOfServiceFirst
=============================================================================
