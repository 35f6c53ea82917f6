----------------------------- MODULE TcpTraffic -----------------------------
(***************************************************************************)
(* TcpReassembler fed by captures of real conversations.  A conversation   *)
(* is the flow from its client to its server; each side sends SYN, its     *)
(* bytes and FIN.  A byte is the record of who sent it, to whom, and its   *)
(* position, so that the streams show where every byte went.               *)
(***************************************************************************)
EXTENDS TcpConnections

CONSTANTS
    Conversations,  \* flows from client to server
    Disordered,     \* those of them that a disordered capture has
    SendLen,        \* flow of a side -> number of bytes the side sends
    Isn,            \* flow of a side -> its initial sequence number
    MaxPackets      \* bound on the packets of a disordered capture

Sides == Conversations \union {Reversed(c) : c \in Conversations}

ASSUME TrafficAssumption ==
    /\ Conversations \subseteq Flow
    /\ Disordered \subseteq Conversations
    /\ SendLen \in [Sides -> Nat]
    /\ Isn \in [Sides -> SeqNumber]
    /\ MaxPackets \in Nat
    /\ \A side \in Sides : SendLen[side] < SeqSpace \div 2

\* A conversation has two ends, and no two have the same ends.
ASSUME ConversationsAssumption ==
    /\ \A c \in Conversations : c.src # c.dst
    /\ \A c, d \in Conversations : Normalized(c) = Normalized(d) => c = d

VARIABLES
    orderly,  \* whether the capture is
    sent,     \* side -> bytes sent so far, or None before its SYN
    finished, \* sides that have sent FIN
    received  \* packets given to the reassembler

vars == <<connections, streams, reading, orderly, sent, finished, received>>

Bytes(side, p, q) == [i \in 1 .. q - p + 1 |-> [src |-> side.src, dst |-> side.dst, pos |-> p + i - 1]]

\* The packet with the bytes p .. q of a side; a SYN takes the number before
\* the first byte.
Packet(side, p, q, flags) ==
    [src |-> side.src, dst |-> side.dst, seq |-> SeqAdd(Isn[side], p),
     data |-> Bytes(side, p, q), flags |-> flags]

-----------------------------------------------------------------------------
Init ==
    /\ TcpInit
    /\ orderly \in BOOLEAN
    /\ sent = [side \in Sides |-> None]
    /\ finished = {}
    /\ received = 0

Deliver(packet) == ProcessPacket(packet) /\ received' = received + 1 /\ UNCHANGED orderly

Opened(side) == sent[side] # None

\* An orderly capture: every packet once, each side's in the order it sent
\* them, the two sides and the conversations interleaved in any way that the
\* handshake allows.
SendSyn(side) ==
    /\ ~Opened(side)
    /\ side \notin Conversations => Opened(Reversed(side))
    /\ sent' = [sent EXCEPT ![side] = 0]
    /\ Deliver(Packet(side, 0, -1, IF side \in Conversations THEN {"SYN"} ELSE {"SYN", "ACK"}))
    /\ UNCHANGED finished

Established(side) == Opened(side) /\ Opened(Reversed(side)) /\ side \notin finished

SendData(side) ==
    /\ Established(side)
    /\ \E q \in sent[side] + 1 .. SendLen[side] :
         /\ sent' = [sent EXCEPT ![side] = q]
         /\ Deliver(Packet(side, sent[side] + 1, q, {"ACK"}))
    /\ UNCHANGED finished

\* FIN comes with the last bytes, or alone after them.
SendFin(side) ==
    /\ Established(side)
    /\ sent' = [sent EXCEPT ![side] = SendLen[side]]
    /\ finished' = finished \union {side}
    /\ Deliver(Packet(side, sent[side] + 1, SendLen[side], {"FIN", "ACK"}))

\* The acknowledgement of the last FIN, which ends every orderly teardown.
SendLastAck(side) ==
    /\ {side, Reversed(side)} \subseteq finished
    /\ received < MaxPackets
    /\ Deliver(Packet(side, SendLen[side] + 2, SendLen[side] + 1, {"ACK"}))
    /\ UNCHANGED <<sent, finished>>

Read == EndOfCapture /\ UNCHANGED <<orderly, sent, finished, received>>

Finalize == FinalizeConnection /\ UNCHANGED <<orderly, sent, finished, received>>

OrderlySend == orderly /\ \E side \in Sides : SendSyn(side) \/ SendData(side) \/ SendFin(side)

\* A disordered capture: any packet of any side, in any order, repeated or
\* missing, and resets.
PacketsOf(side) ==
    {Packet(side, 0, -1, {"SYN"}), Packet(side, 1, 0, {"RST"})}
    \union (UNION {{Packet(side, p, q, {"ACK"}) : q \in p .. SendLen[side]} : p \in 1 .. SendLen[side]})
    \union {Packet(side, p, SendLen[side], {"FIN", "ACK"}) : p \in 1 .. SendLen[side] + 1}

Disorder ==
    /\ ~orderly
    /\ received < MaxPackets
    /\ \E side \in Disordered \union {Reversed(c) : c \in Disordered} :
         \E packet \in PacketsOf(side) : Deliver(packet)
    /\ UNCHANGED <<sent, finished>>

Next == OrderlySend \/ Disorder \/ Read \/ Finalize

\* The file has an end, and both loops go on until there is nothing left.
Spec == Init /\ [][Next]_vars /\ WF_vars(Read) /\ WF_vars(Finalize)

\* What was sent may be captured again at any time.
Retransmit ==
    /\ received < MaxPackets
    /\ \E side \in Sides : \E p \in 1 .. sent[side] : Deliver(Packet(side, p, sent[side], {"ACK"}))
    /\ UNCHANGED <<sent, finished>>

\* A capture that goes on after both sides have finished: the last ACK, and
\* retransmissions.
AfterCloseNext ==
    \/ OrderlySend \/ Read \/ Finalize
    \/ orderly /\ (Retransmit \/ \E side \in Sides : SendLastAck(side))

AfterCloseSpec == Init /\ [][AfterCloseNext]_vars

-----------------------------------------------------------------------------
AllFinished(c) == {c, Reversed(c)} \subseteq finished

IsReported(c) == \E i \in DOMAIN streams : streams[i].flow = c

\* A stream of an orderly capture is a whole conversation: its flow runs from
\* the client to the server, and each direction has exactly the bytes that
\* side has sent (test_tcp_reassembly.py:29-70).
WholeStreams ==
    orderly => \A i \in DOMAIN streams :
        LET s == streams[i] IN
        /\ s.flow \in Conversations
        /\ s.client_to_server = Bytes(s.flow, 1, sent[s.flow])
        /\ s.server_to_client = Bytes(Reversed(s.flow), 1, sent[Reversed(s.flow)])

\* Bidirectional tracking: a conversation is one stream, not one for each
\* direction, nor one more for what comes after its end (README.md:15, and
\* the single stream that test_tcp_reassembly.py:66 expects).  It holds while
\* nothing is captured after the second FIN (Spec), and not with the last ACK
\* or a retransmission after it (AfterCloseSpec).
OneStreamEach ==
    orderly => \A i, j \in DOMAIN streams :
        Normalized(streams[i].flow) = Normalized(streams[j].flow) => i = j

\* A conversation is handed over with the packet that finishes it, neither
\* earlier, when only one side has finished, nor as late as the end of the
\* capture - except one without a byte, which waits for the end.
ReportedWhenFinished ==
    orderly /\ reading => \A c \in Conversations :
        IsReported(c) <=> AllFinished(c) /\ SendLen[c] + SendLen[Reversed(c)] > 0

\* Each packet of the capture is counted in exactly one stream, whatever is
\* closed, reset and begun again in between (lines 127, 177-181 and 188).
PacketsAccounted ==
    received = FoldFunction(LAMBDA s, n : n + s.packets_count, 0, streams)
                 + MapThenSumSet(LAMBDA key : connections[key].packets_count, DOMAIN connections)

SentBy(data, side) == \A i \in DOMAIN data : data[i].src = side.src /\ data[i].dst = side.dst

\* A direction of a stream or of a tracker never has a byte of the other
\* direction or of another conversation, whichever packet opened the
\* connection and whichever of the endpoints is the lower one.
DirectionsNeverMix ==
    /\ \A i \in DOMAIN streams :
         /\ SentBy(streams[i].client_to_server, streams[i].flow)
         /\ SentBy(streams[i].server_to_client, Reversed(streams[i].flow))
    /\ \A key \in DOMAIN connections :
         LET t == connections[key] IN
         /\ SentBy(GetData(t.client_to_server), t.client_flow)
         /\ SentBy(GetData(t.server_to_client), Reversed(t.client_flow))

Buffered == UNION {ToSet(connections[key].client_to_server.data_buffer)
                     \union ToSet(connections[key].server_to_client.data_buffer) :
                       key \in DOMAIN connections}

Delivered == UNION {ToSet(streams[i].client_to_server) \union ToSet(streams[i].server_to_client) :
                      i \in DOMAIN streams}

\* No step loses a byte that has been put in its place in a buffer: it stays
\* there or is handed over with its stream.
NoBufferedByteLost == [][Buffered \union Delivered \subseteq (Buffered \union Delivered)']_vars

AllBytes == UNION {ToSet(Bytes(side, 1, SendLen[side])) : side \in Sides}

\* In the end it is handed over: closing with a tracker still in the table,
\* or resetting a connection, never keeps a stream from the decoders.
EveryBufferedByteDelivered == \A b \in AllBytes : b \in Buffered ~> b \in Delivered
=============================================================================
