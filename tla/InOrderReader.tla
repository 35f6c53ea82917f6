--------------------------- MODULE InOrderReader ----------------------------
(***************************************************************************)
(* What reassembling one direction promises.  Bytes 1 .. StreamLen of a    *)
(* stream are captured in any order and any number of times; the reader    *)
(* has delivered, in order, exactly the bytes before the first one that is *)
(* still missing.                                                          *)
(***************************************************************************)
EXTENDS Integers

CONSTANT StreamLen

VARIABLES captured, delivered

\* The first byte that is missing, less one.
Front(S) == CHOOSE n \in 0 .. StreamLen : 1 .. n \subseteq S /\ n + 1 \notin S

Init == captured = {} /\ delivered = << >>

Capture(bytes) ==
    /\ captured' = captured \union bytes
    /\ delivered' = [i \in 1 .. Front(captured') |-> i]

Next == \E bytes \in SUBSET (1 .. StreamLen) : Capture(bytes)

Spec == Init /\ [][Next]_<<captured, delivered>>
=============================================================================
