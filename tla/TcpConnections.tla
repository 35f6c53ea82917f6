--------------------------- MODULE TcpConnections ---------------------------
(***************************************************************************)
(* ConnectionTracker and TcpReassembler (pcap_decode/tcp_reassembly.py):   *)
(* the table of TCP connections, keyed by normalised flow, that turns the  *)
(* packets of a capture into one stream of bytes per direction.  A packet  *)
(* has the fields src, dst, seq, data and flags.                           *)
(***************************************************************************)
EXTENDS FlowKey, TcpDirection, FiniteSets

VARIABLES
    connections,  \* normalised flow -> tracker
    streams,      \* the streams handed to the protocol decoders, in order
    reading       \* packets are still being read; afterwards, finalize runs

tcpVars == <<connections, streams, reading>>

Key(packet) == Normalized(FlowOf(packet))

NewTracker(flow) ==
    [client_flow |-> flow, packets_count |-> 0, is_closed |-> FALSE,
     client_to_server |-> NewDirection, server_to_client |-> NewDirection]

\* Fault: the lower endpoint is always taken for the client.
TrackerForKey(packet) ==
    IF Key(packet) \in DOMAIN connections THEN connections[Key(packet)]
    ELSE NewTracker(Key(packet))

\* Fault: a SYN replaces the connection that is in the table.
TrackerForFresh(packet) ==
    IF Key(packet) \in DOMAIN connections /\ "SYN" \notin packet.flags
    THEN connections[Key(packet)]
    ELSE NewTracker(IF "SYN" \in packet.flags THEN FlowOf(packet) ELSE Key(packet))

\* The tracker of a packet.  A new one takes the sender of a SYN for the
\* client, and without a SYN the lower endpoint.
TrackerFor(packet) ==
    IF Key(packet) \in DOMAIN connections THEN connections[Key(packet)]
    ELSE NewTracker(IF "SYN" \in packet.flags THEN FlowOf(packet) ELSE Key(packet))

\* Fault: the direction is taken from the key of the table.
TrackByKey(tracker, packet) ==
    LET side == IF packet.src = Key(packet).src THEN "client_to_server" ELSE "server_to_client"
        t == [tracker EXCEPT ![side] = AddSegment(@, packet)]
    IN  [t EXCEPT !.packets_count = @ + 1,
                  !.is_closed = \/ @
                                \/ t.client_to_server.is_closed /\ t.server_to_client.is_closed
                                \/ "RST" \in packet.flags]

\* Fault: one side's end closes the connection.
TrackHalfClosed(tracker, packet) ==
    LET side == IF packet.src = tracker.client_flow.src THEN "client_to_server" ELSE "server_to_client"
        t == [tracker EXCEPT ![side] = AddSegment(@, packet)]
    IN  [t EXCEPT !.packets_count = @ + 1,
                  !.is_closed = \/ @
                                \/ t.client_to_server.is_closed
                                \/ t.server_to_client.is_closed
                                \/ "RST" \in packet.flags]

\* ConnectionTracker.process_packet
TrackPacket(tracker, packet) ==
    LET side == IF packet.src = tracker.client_flow.src THEN "client_to_server" ELSE "server_to_client"
        t == [tracker EXCEPT ![side] = AddSegment(@, packet)]
    IN  [t EXCEPT !.packets_count = @ + 1,
                  !.is_closed = \/ @
                                \/ t.client_to_server.is_closed /\ t.server_to_client.is_closed
                                \/ "RST" \in packet.flags]

\* ConnectionTracker.build_stream
BuildStream(tracker) ==
    [flow |-> tracker.client_flow,
     client_to_server |-> GetData(tracker.client_to_server),
     server_to_client |-> GetData(tracker.server_to_client),
     packets_count |-> tracker.packets_count,
     is_closed |-> tracker.is_closed]

IsComplete(tracker) ==
    /\ tracker.is_closed
    /\ \/ tracker.client_to_server.data_buffer # << >>
       \/ tracker.server_to_client.data_buffer # << >>

\* Fault: the connection is not forgotten.
WithoutNone(key) == connections

Without(key) == [k \in DOMAIN connections \ {key} |-> connections[k]]

-----------------------------------------------------------------------------
TcpInit == connections = << >> /\ streams = << >> /\ reading = TRUE

\* The packet leaves its connection open, or closed with nothing in it.
KeepTracking(packet) ==
    LET tracker == TrackPacket(TrackerFor(packet), packet) IN
    /\ ~IsComplete(tracker)
    /\ connections' = [k \in DOMAIN connections \union {Key(packet)} |->
                         IF k = Key(packet) THEN tracker ELSE connections[k]]
    /\ UNCHANGED streams

\* The packet closes a connection that has data: its stream is handed over
\* and the connection forgotten.
CloseConnection(packet) ==
    LET tracker == TrackPacket(TrackerFor(packet), packet) IN
    /\ IsComplete(tracker)
    /\ streams' = Append(streams, BuildStream(tracker))
    /\ connections' = Without(Key(packet))

ProcessPacket(packet) ==
    /\ reading
    /\ KeepTracking(packet) \/ CloseConnection(packet)
    /\ UNCHANGED reading

\* The capture is read; the loop over finalize begins.
EndOfCapture == reading /\ reading' = FALSE /\ UNCHANGED <<connections, streams>>

\* Fault: only closed connections are yielded.
FinalizeClosed ==
    /\ ~reading
    /\ \E key \in DOMAIN connections :
         /\ streams' = IF connections[key].is_closed
                       THEN Append(streams, BuildStream(connections[key])) ELSE streams
         /\ connections' = Without(key)
    /\ UNCHANGED reading

\* finalize yields one connection after the other and then clears the table;
\* here a connection leaves the table when it is yielded, in any order.
FinalizeConnection ==
    /\ ~reading
    /\ \E key \in DOMAIN connections :
         /\ streams' = IF connections[key].packets_count > 0
                       THEN Append(streams, BuildStream(connections[key])) ELSE streams
         /\ connections' = Without(key)
    /\ UNCHANGED reading
=============================================================================
