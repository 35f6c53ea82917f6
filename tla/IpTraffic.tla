----------------------------- MODULE IpTraffic ------------------------------
(***************************************************************************)
(* IpDefragmenter fed by a capture of fragmented datagrams.  The datagrams *)
(* of one key are numbered (an identification is used again after a        *)
(* while); a unit of payload is the number of its datagram and its         *)
(* position, so that a rebuilt payload shows what it was made of.          *)
(***************************************************************************)
EXTENDS IpDefrag, FiniteSets

CONSTANTS
    Keys,          \* (pair of addresses, identification)
    DatagramLen,   \* units of payload in every datagram
    HeaderLen,     \* units of transport header at its start
    MaxFragments   \* bound on the fragments of the capture

ASSUME IpTrafficAssumption ==
    /\ NoKey \notin Keys
    /\ DatagramLen \in Nat \ {0}
    /\ HeaderLen \in 0 .. DatagramLen
    /\ MaxFragments \in Nat

VARIABLES
    datagram,  \* key -> number of its current datagram
    missing,   \* key -> units of that datagram not captured yet
    count      \* fragments captured so far

vars == <<fragments, passed, datagram, missing, count>>

Positions == 0 .. DatagramLen - 1

Unit(key, n, pos) == [key |-> key, datagram |-> n, pos |-> pos]

Slice(key, n, p, q) == [i \in 1 .. q - p + 1 |-> Unit(key, n, p + i - 1)]

Whole(key, n) == Slice(key, n, 0, DatagramLen - 1)

\* The units p .. q of a datagram as a packet.
Cut(key, p, q) == Fragment(p, q < DatagramLen - 1, Slice(key, datagram[key], p, q))

Init ==
    /\ DefragInit
    /\ datagram = [k \in Keys |-> 1]
    /\ missing = [k \in Keys |-> Positions]
    /\ count = 0

\* PcapReader._decode_packet (pcap_reader.py:260-338) parses a transport
\* header at the start of every fragment and never sets ip_id.
DecodePacket(frag) == [frag EXCEPT !.payload = SubSeq(@, HeaderLen + 1, Len(@))]

Capture(key, p, q) ==
    /\ count < MaxFragments
    /\ Process(key, Cut(key, p, q))
    /\ count' = count + 1
    /\ missing' = [missing EXCEPT ![key] = @ \ p .. q]

\* The key's current datagram, until all of it was captured: as one packet,
\* or as fragments that are cut in any way, in any order, overlapping and
\* repeated.
CaptureFragment(key) ==
    /\ missing[key] # {}
    /\ \E p \in Positions : \E q \in p .. DatagramLen - 1 :
         /\ p .. q = Positions => missing[key] = Positions
         /\ Capture(key, p, q)
    /\ UNCHANGED datagram

\* The identification is used again, for the next datagram.
NextDatagram(key) ==
    /\ missing[key] = {}
    /\ datagram' = [datagram EXCEPT ![key] = @ + 1]
    /\ missing' = [missing EXCEPT ![key] = Positions]
    /\ UNCHANGED <<fragments, passed, count>>

\* The fragments as the capture file's reader hands them to the engine.
ReadFragment(key) ==
    /\ count < MaxFragments
    /\ missing[key] # {}
    /\ \E p \in missing[key] : \E q \in p .. DatagramLen - 1 :
         /\ p .. q \subseteq missing[key]
         /\ Process(NoKey, DecodePacket(Cut(key, p, q)))
         /\ missing' = [missing EXCEPT ![key] = @ \ p .. q]
    /\ count' = count + 1
    /\ UNCHANGED datagram

FragmentsSpec == Init /\ [][\E key \in Keys : CaptureFragment(key) \/ NextDatagram(key)]_vars
ReaderSpec == Init /\ [][\E key \in Keys : ReadFragment(key)]_vars

-----------------------------------------------------------------------------
Covered(frags) == UNION {frags[i].offset .. frags[i].offset + Len(frags[i].payload) - 1 :
                           i \in DOMAIN frags}

\* A datagram does not stay in the table once its fragments cover it,
\* whatever overlaps or repetitions there are among them (lines 22-39).
NothingCompleteHeld == \A key \in DOMAIN fragments : Covered(fragments[key]) # Positions

RebuiltFor(key) == {i \in DOMAIN passed : passed[i].key = key}

\* The datagrams of a key are handed on one by one, each as soon as all of it
\* was captured: every unit once, in its place, none of another key or of an
\* earlier datagram with the same identification, and nothing of one is left
\* for the next (lines 19-40).
RebuiltInTurn ==
    \A key \in Keys :
        LET done == IF missing[key] = {} THEN datagram[key] ELSE datagram[key] - 1 IN
        /\ Cardinality(RebuiltFor(key)) = done
        /\ \A i \in RebuiltFor(key) :
             passed[i].payload = Whole(key, Cardinality({j \in RebuiltFor(key) : j <= i}))
        /\ missing[key] \in {{}, Positions} => key \notin DOMAIN fragments

\* A fragmented datagram is defragmented before it goes on (README.md:12):
\* what is passed on holds a datagram's payload from its first unit after
\* the header to its last.
OnlyWholeDatagrams ==
    \A i \in DOMAIN passed :
        \E key \in Keys : \E n \in 1 .. datagram[key] :
            passed[i].payload \in {Whole(key, n), Slice(key, n, HeaderLen, DatagramLen - 1)}
=============================================================================
