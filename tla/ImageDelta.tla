----------------------------- MODULE ImageDelta -----------------------------
(***************************************************************************)
(* Block deltas between root images (src/services/internal/delta, with     *)
(* update/delta_apply.go and nuractl update delta-generate, delta-apply).  *)
(*                                                                         *)
(* An image is a sequence of bytes and SHA-256 is taken to be injective,   *)
(* so a digest is the bytes themselves.  A delta is [blockSize, src, dst,  *)
(* ops]; it may be damaged on its way to the appliance, or be applied to   *)
(* another image than the one it was made from.                            *)
(***************************************************************************)
EXTENDS Integers, Sequences, FiniteSetsExt

CONSTANTS
    Byte,       \* byte values, 0 among them
    BlockSize,  \* the block size of Generate
    MaxImage    \* bound: bytes in an image

ASSUME DeltaAssumption == 0 \in Byte /\ BlockSize \in Nat \ {0} /\ MaxImage \in Nat

VARIABLES
    source,     \* the image the delta is made from
    target,     \* the image it is to produce
    delta,      \* the delta file, or NoDelta
    damaged,    \* the delta file differs from what Generate wrote
    slotImage,  \* the image of the slot the delta is applied to
    fallback,   \* "given" or "none": the --fallback argument
    handed      \* what ApplyDelta hands to the update transaction

deltaVars == <<source, target, delta, damaged, slotImage, fallback, handed>>

Images == UNION {[1 .. n -> Byte] : n \in 0 .. MaxImage}
NoDelta == [blockSize |-> 0, src |-> <<>>, dst |-> <<>>, ops |-> <<>>]
Nothing == [kind |-> "nothing", image |-> <<>>]

-----------------------------------------------------------------------------
\* The last block is padded with zeros.
SplitBlocks(data, bs) ==
    [k \in 1 .. (Len(data) + bs - 1) \div bs |->
        [j \in 1 .. bs |-> LET i == (k - 1) * bs + j IN IF i <= Len(data) THEN data[i] ELSE 0]]

\* A plausible slip: a match of the first byte counts as a match of the block.
MutOps(src, dst) ==
    [k \in 1 .. Len(dst) |->
        LET same == {i \in 1 .. Len(src) : src[i][1] = dst[k][1]}
        IN  IF same # {} THEN [type |-> "copy", idx |-> Max(same), data |-> <<>>]
            ELSE [type |-> "data", idx |-> 0, data |-> dst[k]]]

\* The index keeps, for each content, the last source block that has it.
Ops(src, dst) ==
    [k \in 1 .. Len(dst) |->
        LET same == {i \in 1 .. Len(src) : src[i] = dst[k]}
        IN  IF same # {} THEN [type |-> "copy", idx |-> Max(same), data |-> <<>>]
            ELSE [type |-> "data", idx |-> 0, data |-> dst[k]]]

GenerateDelta(src, dst) ==
    [blockSize |-> BlockSize, src |-> src, dst |-> dst,
     ops |-> Ops(SplitBlocks(src, BlockSize), SplitBlocks(dst, BlockSize))]

\* The block an operation contributes; the block of a data operation is cut or
\* padded to the size of the header.
BlockOf(op, srcBlocks, bs) ==
    IF op.type = "copy" THEN srcBlocks[op.idx]
    ELSE [j \in 1 .. bs |-> IF j <= Len(op.data) THEN op.data[j] ELSE 0]

\* What the operations of d reconstruct from the image: whole blocks.
Rebuilt(d, image) ==
    LET bs == d.blockSize
        blocks == SplitBlocks(image, bs)
    IN  [i \in 1 .. Len(d.ops) * bs |->
            BlockOf(d.ops[(i - 1) \div bs + 1], blocks, bs)[((i - 1) % bs) + 1]]

InRange(d, image) ==
    \A k \in DOMAIN d.ops :
        d.ops[k].type = "copy" => d.ops[k].idx \in 1 .. Len(SplitBlocks(image, d.blockSize))

\* Apply succeeds: the image is the delta's source, every operation reads, and
\* what was rebuilt has the digest of the target.
Applies(d, image) ==
    /\ d.src = image
    /\ InRange(d, image)
    /\ Rebuilt(d, image) = d.dst

-----------------------------------------------------------------------------
DeltaInit ==
    /\ source = <<>> /\ target = <<>> /\ slotImage = <<>>
    /\ delta = NoDelta
    /\ damaged = FALSE
    /\ fallback = "none"
    /\ handed = Nothing

\* nuractl update delta-generate <old> <new>, for the image now in the slot.
Generate(src, dst) ==
    /\ delta = NoDelta
    /\ source' = src /\ target' = dst /\ slotImage' = src
    /\ delta' = GenerateDelta(src, dst)
    /\ UNCHANGED <<damaged, fallback, handed>>

\* The delta file is cut short, or one of its operations changes.  A file cut
\* short fails in readOp, as an operation that copies no block does here.
Damage(k, op) ==
    /\ delta # NoDelta /\ ~damaged /\ handed = Nothing
    /\ k \in DOMAIN delta.ops /\ delta.ops[k] # op
    /\ delta' = [delta EXCEPT !.ops[k] = op]
    /\ damaged' = TRUE
    /\ UNCHANGED <<source, target, slotImage, fallback, handed>>

\* The slot is given another image between the generation and the application.
SlotChanges(img) ==
    /\ delta # NoDelta /\ handed = Nothing /\ slotImage = source
    /\ img # slotImage
    /\ slotImage' = img
    /\ UNCHANGED <<source, target, delta, damaged, fallback, handed>>

\* ApplyDelta: the rebuilt image, or else the fallback, goes to the update
\* transaction.  nuractl hands a nil *os.File over where there is no fallback,
\* which is not a nil io.Reader: a transaction is started that cannot read.
ApplyDelta(fb) ==
    /\ delta # NoDelta /\ handed = Nothing
    /\ fallback' = fb
    /\ handed' =
         IF Applies(delta, slotImage) THEN [kind |-> "rebuilt", image |-> Rebuilt(delta, slotImage)]
         ELSE IF fb = "given" THEN [kind |-> "full", image |-> target]
         ELSE [kind |-> "unreadable", image |-> <<>>]
    /\ UNCHANGED <<source, target, delta, damaged, slotImage>>

Damages == [type : {"copy"}, idx : 0 .. 2, data : {<<>>}]
               \cup [type : {"data"}, idx : {0}, data : {<<b>> : b \in Byte}]

DeltaNext ==
    \/ \E src, dst \in Images : Generate(src, dst)
    \/ \E k \in 1 .. MaxImage \div BlockSize + 1, op \in Damages : Damage(k, op)
    \/ \E img \in {<<>>} \cup {<<b>> : b \in Byte} : SlotChanges(img)
    \/ \E fb \in {"given", "none"} : ApplyDelta(fb)

DeltaSpec == DeltaInit /\ [][DeltaNext]_deltaVars

-----------------------------------------------------------------------------
\* Apply's two digest checks are enough: whatever happened to the delta file or
\* to the slot, the image handed to the transaction is the target, and one that
\* was rebuilt has as many bytes as the target (apply.go:36-40, 77-81).
OnlyTargetIsHanded ==
    handed.kind \in {"rebuilt", "full"} => handed.image = target

\* A delta of an image of whole blocks that arrives intact, for the image in the
\* slot, is applied: repeated blocks, and blocks of the padded source, never
\* rebuild something else (generate.go:19-48, apply.go:45-75).
AlignedDeltaApplies ==
    (/\ handed # Nothing
     /\ ~damaged
     /\ slotImage = source
     /\ Len(target) % BlockSize = 0)
        => handed.kind = "rebuilt"

\* The two together: a delta produces its target or is refused, and is not
\* refused without a reason (apply.go:45-75).
DeltaIsExact == OnlyTargetIsHanded /\ AlignedDeltaApplies

\* apply.go:71: "Concatenate blocks and trim to expected target length".  An
\* intact delta for the image in the slot is applied, whatever the length of
\* its target.
IntactDeltaApplies ==
    (handed # Nothing /\ ~damaged /\ slotImage = source) => handed.kind = "rebuilt"
=============================================================================
