----------------------------- MODULE TcpCapture -----------------------------
(***************************************************************************)
(* One DirectionalReassembler fed by a capture of a real sender: the       *)
(* sender numbers its bytes from the initial sequence number and cuts them *)
(* into segments, a retransmission may cut them differently, and the       *)
(* capture has the segments in any order, several times or not at all.     *)
(* A byte is its position in the stream, so that the buffer shows where    *)
(* every byte went.                                                        *)
(***************************************************************************)
EXTENDS TcpDirection

CONSTANTS
    Isns,         \* initial sequence numbers
    StreamLen,    \* bytes the sender sends
    MaxSegments   \* bound on the segments of the capture

ASSUME CaptureAssumption ==
    /\ Isns \subseteq SeqNumber
    /\ StreamLen \in Nat /\ StreamLen < SeqSpace \div 2
    /\ MaxSegments \in Nat

VARIABLES
    with_syn,  \* the capture has the handshake, or else began after it
    isn,       \* the sender's initial sequence number
    dir,       \* the reassembler
    captured,  \* positions of the stream captured so far
    ended,     \* a FIN or RST was captured
    count      \* segments captured so far, and a SYN that was missed

vars == <<with_syn, isn, dir, captured, ended, count>>

Stream == 1 .. StreamLen

Bytes(p, q) == [i \in 1 .. q - p + 1 |-> p + i - 1]

-----------------------------------------------------------------------------
Init ==
    /\ with_syn \in BOOLEAN
    /\ isn \in Isns
    /\ dir = NewDirection
    /\ captured = {}
    /\ ended = FALSE
    /\ count = IF with_syn THEN 0 ELSE 1

\* The sender's bytes p .. q (none if q < p) with the given flags; a SYN
\* takes the sequence number before the first byte.
Receive(p, q, flags) ==
    /\ count < MaxSegments
    /\ dir' = AddSegment(dir, [seq |-> SeqAdd(isn, p), data |-> Bytes(p, q), flags |-> flags])
    /\ captured' = captured \union p .. q
    /\ ended' = (ended \/ flags \intersect {"FIN", "RST"} # {})
    /\ count' = count + 1
    /\ UNCHANGED <<with_syn, isn>>

ReceiveSyn == Receive(0, -1, {"SYN"})

\* A SYN that carries the first bytes of the stream (TCP Fast Open): they
\* follow the number the SYN takes.
ReceiveSynData(q) ==
    /\ count < MaxSegments
    /\ dir' = AddSegment(dir, [seq |-> isn, data |-> Bytes(1, q), flags |-> {"SYN"}])
    /\ captured' = captured \union 1 .. q
    /\ count' = count + 1
    /\ UNCHANGED <<with_syn, isn, ended>>

ReceiveData == \E p \in Stream : \E q \in p .. StreamLen : Receive(p, q, {})

\* The last bytes together with the FIN, or the FIN alone.
ReceiveFin == \E p \in 1 .. StreamLen + 1 : Receive(p, StreamLen, {"FIN"})

ReceiveRst == \E p \in Stream : Receive(p, p - 1, {"RST"})

\* Whatever follows the handshake in a direction.
ReceiveOther == ReceiveData \/ ReceiveFin \/ ReceiveRst

\* If the capture has the handshake, the SYN comes before everything else,
\* and comes again only while nothing else has.
Next ==
    \/ with_syn /\ captured = {} /\ ~ended /\ ReceiveSyn
    \/ with_syn /\ dir.base_seq # None /\ ReceiveOther
    \/ ~with_syn /\ ReceiveOther

\* The capture begins with a SYN that has data.
NextFastOpen ==
    \/ with_syn /\ dir.base_seq = None /\ \E q \in Stream : ReceiveSynData(q)
    \/ with_syn /\ dir.base_seq # None /\ ReceiveData

Spec == Init /\ [][Next]_vars
SpecFastOpen == Init /\ [][NextFastOpen]_vars

-----------------------------------------------------------------------------
Held == UNION {ToSet(dir.out_of_order[i].data) : i \in DOMAIN dir.out_of_order}

\* With the handshake captured, the buffer is the part of the stream before
\* the first missing byte, after every segment, whatever the order, the
\* overlaps and the repetitions (README.md:16).
Reader == INSTANCE InOrderReader WITH
    captured <- IF with_syn THEN captured ELSE {},
    delivered <- IF with_syn THEN dir.data_buffer ELSE << >>
InOrderPrefix == Reader!Spec

\* With the handshake, every captured byte is in the buffer or held for
\* later: an overlapping segment never takes an uncaptured byte's place, and
\* nothing captured is forgotten while a gap lasts (tcp_reassembly.py:63-78
\* and 88-104).
NothingForgotten == with_syn => captured = ToSet(dir.data_buffer) \union Held

\* What is held starts strictly beyond the next expected byte, so the list
\* of held segments is empty as soon as no byte is missing.
HeldBeyondGap ==
    with_syn => \A i \in DOMAIN dir.out_of_order :
        dir.out_of_order[i].data[1] > Len(dir.data_buffer) + 1

\* The segment log that goes with the stream accounts for the buffer byte by
\* byte: the segments' data, in order, is the buffer, and every segment has
\* the sequence number its sender gave to its first byte, even when a part of
\* it was cut off as overlap (lines 46, 56, 85 and 100).
SegmentLogMatches ==
    /\ FlattenSeq([i \in DOMAIN dir.segments |-> dir.segments[i].data]) = dir.data_buffer
    /\ \A i \in DOMAIN dir.segments : dir.segments[i].seq = SeqAdd(isn, dir.segments[i].data[1])

\* With the handshake, the direction is closed exactly when its end has been
\* captured, however the FIN or RST came: alone, with data, or in a segment
\* that is old.
ClosedWhenEnded == with_syn => (dir.is_closed <=> ended)

\* Without the handshake nothing says where the stream begins, yet what is
\* delivered is in stream order and no byte is delivered twice
\* (README.md:16: out-of-order segments, overlaps, retransmissions).
OrderKept ==
    LET data == GetData(dir)
    IN  ~with_syn => \A i, j \in DOMAIN data : i < j => data[i] < data[j]

\* Out-of-order segments are handled (README.md:16): once the captured bytes
\* are a run from the first one on, they are all delivered, once and in order.
RunDelivered == \A q \in Stream : captured = 1 .. q => GetData(dir) = Bytes(1, q)
=============================================================================
