--------------------------- MODULE VersionHistory ---------------------------
(***************************************************************************)
(* The version history of services/internal/history: the sequence of       *)
(* entries of update/history.json, oldest first, as its operations change  *)
(* it.  Entries carry ascending timestamps, so the code's sort by          *)
(* timestamp leaves the sequence as it is; a timestamp is a position.      *)
(***************************************************************************)
EXTENDS Naturals, Sequences, FiniteSets

\* The entries of h at the positions in keep, in order.
AtPositions(h, keep) ==
    [k \in 1 .. Cardinality(keep) |->
        h[CHOOSE i \in keep : Cardinality({j \in keep : j <= i}) = k]]

\* How many entries up to position i are not known good.
NotGoodUpTo(h, i) == Cardinality({j \in 1 .. i : ~h[j].good})

MutPruneOldest(h, max) ==
    IF Len(h) <= max THEN h ELSE SubSeq(h, Len(h) - max + 1, Len(h))

\* prune: drop the oldest entries that are not known good, then, if that was
\* not enough, the oldest of the rest.
Prune(h, max) ==
    LET excess == Len(h) - max
        kept == AtPositions(h, {i \in DOMAIN h : h[i].good \/ NotGoodUpTo(h, i) > excess})
    IN CASE Len(h) <= max -> h
         [] Len(h) > max /\ Len(kept) <= max -> kept
         [] OTHER -> SubSeq(kept, Len(kept) - max + 1, Len(kept))

Added(h, e, max) == Prune(Append(h, e), max)

Has(h, id) == \E i \in DOMAIN h : h[i].id = id

\* Get: the first entry with the id.
Entry(h, id) == h[CHOOSE i \in DOMAIN h : h[i].id = id /\ \A j \in 1 .. i - 1 : h[j].id # id]

MarkedGood(h, id) ==
    [i \in DOMAIN h |->
        IF h[i].id = id /\ \A j \in 1 .. i - 1 : h[j].id # id
        THEN [h[i] EXCEPT !.good = TRUE] ELSE h[i]]

\* LatestKnownGood, as a position; 0 when there is none.
LatestKnownGood(h) ==
    LET good == {i \in DOMAIN h : h[i].good}
    IN IF good = {} THEN 0 ELSE CHOOSE i \in good : \A j \in good : j <= i
=============================================================================
