---------------------------- MODULE FirstComers -----------------------------
(***************************************************************************)
(* What a bounded table that is filled as packets come should hold, said   *)
(* of the capture as a whole.  The packets that compete for it are given   *)
(* by their positions in the capture: keys is a function from these to     *)
(* what the table is keyed by.                                             *)
(***************************************************************************)
EXTENDS Integers, FiniteSets

UpTo(set, i) == {j \in set : j <= i}

PositionsOf(keys, key) == {i \in DOMAIN keys : keys[i] = key}

\* The positions at which a key is seen for the first time.
Openings(keys) == {i \in DOMAIN keys : UpTo(PositionsOf(keys, keys[i]), i) = {i}}

\* The first max keys to appear.
FirstKeys(keys, max) ==
    LET first == Openings(keys)
    IN  {keys[i] : i \in {k \in first : Cardinality(UpTo(first, k)) <= max}}

\* The first perKey positions of each of the first max keys.
FirstOfEach(keys, max, perKey) ==
    {i \in DOMAIN keys : /\ keys[i] \in FirstKeys(keys, max)
                         /\ Cardinality(UpTo(PositionsOf(keys, keys[i]), i)) <= perKey}

Nth(set, k) == CHOOSE i \in set : Cardinality(UpTo(set, i)) = k

\* The elements of s at the positions of a set, in order.
Listing(set, s) == [k \in 1 .. Cardinality(set) |-> s[Nth(set, k)]]
=============================================================================
