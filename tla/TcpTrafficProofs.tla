--------------------------- MODULE TcpTrafficProofs ---------------------------
(***************************************************************************)
(* Proofs about TcpTraffic, for any conversations, of any length below     *)
(* half the sequence space: captures in order and captures in disorder.    *)
(***************************************************************************)
EXTENDS TcpTraffic, OperatorProofs

\* What a side sends.
OwnBytes(side) == [src : {side.src}, dst : {side.dst}, pos : Int]

TrackersOf(c) ==
    [client_flow : {c}, packets_count : Nat \ {0}, is_closed : BOOLEAN,
     client_to_server : DirectionOver(OwnBytes(c)),
     server_to_client : DirectionOver(OwnBytes(Reversed(c)))]

StreamsOf(c) ==
    [flow : {c}, client_to_server : Seq(OwnBytes(c)), server_to_client : Seq(OwnBytes(Reversed(c))),
     packets_count : Nat, is_closed : BOOLEAN]

Trackers == UNION {TrackersOf(c) : c \in Flow}

Streams == UNION {StreamsOf(c) : c \in Flow}

\* Whatever the capture is, a tracker is in the table under the key of its
\* flow, and its directions, like those of the streams, have the bytes of
\* their side.
TcpTyped ==
    /\ \A key \in DOMAIN connections :
         \E c \in Flow : key = Normalized(c) /\ connections[key] \in TrackersOf(c)
    /\ streams \in Seq(Streams)

Typed ==
    /\ TcpTyped
    /\ sent \in [Sides -> Nat \union {None}]
    /\ orderly \in BOOLEAN

-----------------------------------------------------------------------------
\* A direction with the first n bytes of a side, or one that has seen nothing.
SentUpTo(d, side, n, fin) ==
    IF n = None THEN d = NewDirection /\ ~fin
    ELSE /\ d.base_seq = SeqAdd(Isn[side], 1)
         /\ d.next_expected_seq = SeqAdd(Isn[side], n + 1)
         /\ d.data_buffer = Bytes(side, 1, n)
         /\ d.out_of_order = << >>
         /\ d.is_closed <=> fin

\* A tracker of a conversation with n bytes of the client and m of the server.
Tracks(t, c, n, m, client_fin, server_fin) ==
    /\ t.client_flow = c
    /\ SentUpTo(t.client_to_server, c, n, client_fin)
    /\ SentUpTo(t.server_to_client, Reversed(c), m, server_fin)
    /\ t.is_closed <=> client_fin /\ server_fin

\* The invariant of an orderly capture is stated of the values of the
\* variables: the table, the streams, what each side has sent and who has
\* finished.  A side finishes after its last byte, and not before both have
\* sent SYN.
InTurn(sn, fin) ==
    \A c \in Conversations :
       /\ sn[Reversed(c)] # None => sn[c] # None
       /\ \A side \in {c, Reversed(c)} :
            /\ sn[side] <= SendLen[side]
            /\ side \in fin => sn[side] = SendLen[side] /\ sn[Reversed(side)] # None

ReportedIn(ss, c) == \E i \in DOMAIN ss : ss[i].flow = c

OverIn(fin, c) == {c, Reversed(c)} \subseteq fin

\* A conversation that has begun is in the table, with all that was sent, or
\* reported, and never both.
Placed(conn, ss, sn, fin, c) ==
    /\ Normalized(c) \in DOMAIN conn =>
         /\ sn[c] # None
         /\ ~ReportedIn(ss, c)
         /\ Tracks(conn[Normalized(c)], c, sn[c], sn[Reversed(c)], c \in fin, Reversed(c) \in fin)
    /\ sn[c] # None => Normalized(c) \in DOMAIN conn \/ ReportedIn(ss, c)

WholeIn(ss, sn) ==
    \A i \in DOMAIN ss :
       /\ ss[i].flow \in Conversations
       /\ ss[i].client_to_server = Bytes(ss[i].flow, 1, sn[ss[i].flow])
       /\ ss[i].server_to_client = Bytes(Reversed(ss[i].flow), 1, sn[Reversed(ss[i].flow)])

InTime(ss, fin) ==
    \A c \in Conversations :
       ReportedIn(ss, c) <=> OverIn(fin, c) /\ SendLen[c] + SendLen[Reversed(c)] > 0

OrderlyState(conn, ss, rd, sn, fin) ==
    /\ InTurn(sn, fin)
    /\ \A key \in DOMAIN conn : \E c \in Conversations : key = Normalized(c)
    /\ \A c \in Conversations : Placed(conn, ss, sn, fin, c)
    /\ WholeIn(ss, sn)
    /\ rd => InTime(ss, fin)

OrderlyInv == orderly => OrderlyState(connections, streams, reading, sent, finished)

-----------------------------------------------------------------------------
\* The two flows of a conversation.
LEMMA Ends ==
    ASSUME NEW c \in Flow
    PROVE  /\ Reversed(c) \in Flow /\ Reversed(Reversed(c)) = c
           /\ Normalized(c) \in Flow /\ Normalized(Reversed(c)) = Normalized(c)
           /\ \A d \in Flow : Normalized(d) = Normalized(c) => d = c \/ d = Reversed(c)
           /\ Normalized(c) \in {c, Reversed(c)}
  <1>1. c.src \in Nat /\ c.dst \in Nat /\ c = [src |-> c.src, dst |-> c.dst]
    BY EndpointAssumption DEF Flow
  <1>2. Reversed(c) \in Flow /\ Reversed(c).src = c.dst /\ Reversed(c).dst = c.src
    BY DEF Flow, Reversed
  <1>3. Reversed(Reversed(c)) = c
    BY <1>1, <1>2 DEF Reversed
  <1>4. Normalized(Reversed(c)) = Normalized(c)
    <2>1. CASE c.src = c.dst
      BY <1>1, <1>2, <2>1 DEF Normalized, Reversed
    <2>2. CASE c.src # c.dst
      BY <1>1, <1>2, <1>3, <2>2 DEF Normalized
    <2> QED
      BY <2>1, <2>2
  <1>5. ASSUME NEW d \in Flow, Normalized(d) = Normalized(c) PROVE d = c \/ d = Reversed(c)
    <2>1. d = [src |-> d.src, dst |-> d.dst]
      BY DEF Flow
    <2>2. d = Normalized(d) \/ Reversed(d) = Normalized(d)
      BY DEF Normalized
    <2>3. Normalized(c) = c \/ Normalized(c) = Reversed(c)
      BY DEF Normalized
    <2>4. Reversed(Reversed(d)) = d
      BY <2>1 DEF Reversed
    <2> QED
      BY <1>3, <1>5, <2>2, <2>3, <2>4
  <1> QED
    BY <1>2, <1>3, <1>4, <1>5 DEF Normalized

LEMMA SidesAreFlows == \A side \in Sides : side \in Flow /\ Reversed(side) \in Sides
  <1>1. \A c \in Conversations : c \in Flow
    BY TrafficAssumption
  <1>2. \A side \in Sides : \E c \in Conversations : side = c \/ side = Reversed(c)
    BY DEF Sides
  <1> QED
    BY <1>1, <1>2, Ends DEF Sides

LEMMA BytesType ==
    ASSUME NEW side, NEW p \in Int, NEW q \in Int
    PROVE  Bytes(side, p, q) \in Seq(OwnBytes(side))
  <1> DEFINE B == OwnBytes(side)
             n == q - p + 1
  <1>1. n \in Int
    OBVIOUS
  <1>2. ASSUME NEW i \in 1 .. n
        PROVE  [src |-> side.src, dst |-> side.dst, pos |-> p + i - 1] \in B
    BY DEF OwnBytes
  <1> HIDE DEF B
  <1>3. Bytes(side, p, q) \in [1 .. n -> B]
    BY <1>2 DEF Bytes
  <1> HIDE DEF n
  <1>4. CASE n \in Nat
    BY <1>3, <1>4 DEF B
  <1>5. CASE n \notin Nat
    <2>1. 1 .. n = 1 .. 0
      BY <1>1, <1>5
    <2>2. Bytes(side, p, q) \in [1 .. 0 -> B]
      BY <1>3, <2>1
    <2> QED
      BY <2>2 DEF B
  <1> QED
    BY <1>4, <1>5

\* What a side's packets are to the reassembler.
IsPacketOf(packet, side) ==
    /\ packet.src = side.src /\ packet.dst = side.dst
    /\ packet.seq \in Int
    /\ packet.data \in Seq(OwnBytes(side))

LEMMA PacketIsOf ==
    ASSUME NEW side \in Sides, NEW p \in Int, NEW q \in Int, NEW flags
    PROVE  IsPacketOf(Packet(side, p, q, flags), side)
  <1>1. Isn[side] \in Int
    BY TrafficAssumption, SeqSpaceAssumption DEF SeqNumber
  <1>2. SeqAdd(Isn[side], p) \in Int
    BY <1>1, SeqAddInt
  <1> QED
    BY <1>2, BytesType DEF IsPacketOf, Packet

\* The key and the flow of a side's packet.
LEMMA KeyIs ==
    ASSUME NEW side \in Flow, NEW packet, packet.src = side.src, packet.dst = side.dst
    PROVE  FlowOf(packet) = side /\ Key(packet) = Normalized(side)
  BY DEF FlowOf, Key, Flow
-----------------------------------------------------------------------------
\* A tracker of flow c, before it is in the table: no packet may have been
\* counted yet.
FreshTrackers(c) ==
    [client_flow : {c}, packets_count : Nat, is_closed : BOOLEAN,
     client_to_server : DirectionOver(OwnBytes(c)),
     server_to_client : DirectionOver(OwnBytes(Reversed(c)))]

NewDirectionType == \A B : NewDirection \in DirectionOver(B)

LEMMA NewDirectionTyped == NewDirectionType
  <1> SUFFICES ASSUME NEW B PROVE NewDirection \in DirectionOver(B)
    BY DEF NewDirectionType
  <1>1. << >> \in Seq(B) /\ << >> \in Seq(SegmentOver(B)) /\ None \in Int
    BY DEF None
  <1> QED
    BY <1>1 DEF NewDirection, DirectionOver

\* The tracker that a side's packet is for.
LEMMA TrackerForType ==
    ASSUME TcpTyped, NEW side \in Flow, NEW packet, IsPacketOf(packet, side)
    PROVE  \E c \in Flow : Normalized(c) = Normalized(side) /\ TrackerFor(packet) \in FreshTrackers(c)
  <1>1. FlowOf(packet) = side /\ Key(packet) = Normalized(side)
    BY KeyIs DEF IsPacketOf
  <1>2. CASE Key(packet) \in DOMAIN connections
    <2>1. PICK c \in Flow : Key(packet) = Normalized(c) /\ connections[Key(packet)] \in TrackersOf(c)
      BY <1>2 DEF TcpTyped
    <2>2. connections[Key(packet)] \in FreshTrackers(c)
      BY <2>1 DEF TrackersOf, FreshTrackers
    <2>3. TrackerFor(packet) = connections[Key(packet)]
      BY <1>2 DEF TrackerFor
    <2> QED
      BY <1>1, <2>1, <2>2, <2>3
  <1>3. CASE Key(packet) \notin DOMAIN connections
    <2>1. PICK c \in Flow : Normalized(c) = Normalized(side) /\ TrackerFor(packet) = NewTracker(c)
      <3>1. Normalized(side) \in Flow /\ Normalized(Normalized(side)) = Normalized(side)
        BY Ends
      <3> QED
        BY <1>1, <1>3, <3>1 DEF TrackerFor
    <2>2. NewDirection \in DirectionOver(OwnBytes(c)) /\ NewDirection \in DirectionOver(OwnBytes(Reversed(c)))
      BY NewDirectionTyped DEF NewDirectionType
    <2>3. NewTracker(c) \in FreshTrackers(c)
      BY <2>2 DEF NewTracker, FreshTrackers
    <2> QED
      BY <2>1, <2>3
  <1> QED
    BY <1>2, <1>3

\* From t to u no direction has lost a byte of its buffer.
TrackerTakes(t, u) ==
    /\ ToSet(t.client_to_server.data_buffer) \subseteq ToSet(u.client_to_server.data_buffer)
    /\ ToSet(t.server_to_client.data_buffer) \subseteq ToSet(u.server_to_client.data_buffer)

\* The packet goes to its direction, and is counted.
Directed(t, packet) ==
    IF packet.src = t.client_flow.src
    THEN [t EXCEPT !.client_to_server = AddSegment(@, packet)]
    ELSE [t EXCEPT !.server_to_client = AddSegment(@, packet)]

Counted(u, packet) ==
    [u EXCEPT !.packets_count = @ + 1,
              !.is_closed = \/ @
                            \/ u.client_to_server.is_closed /\ u.server_to_client.is_closed
                            \/ "RST" \in packet.flags]

LEMMA TrackPacketIs ==
    ASSUME NEW t, NEW packet
    PROVE  TrackPacket(t, packet) = Counted(Directed(t, packet), packet)
  <1>1. CASE packet.src = t.client_flow.src
    BY <1>1, Zenon DEF TrackPacket, Counted, Directed
  <1>2. CASE packet.src # t.client_flow.src
    BY <1>2, Zenon DEF TrackPacket, Counted, Directed
  <1> QED
    BY <1>1, <1>2

LEMMA DirectedType ==
    ASSUME NEW c \in Flow, NEW t \in FreshTrackers(c), NEW side \in Flow, Normalized(side) = Normalized(c),
           NEW packet, IsPacketOf(packet, side)
    PROVE  Directed(t, packet) \in FreshTrackers(c) /\ TrackerTakes(t, Directed(t, packet))
  <1>1. /\ t.client_flow = c
        /\ t.client_to_server \in DirectionOver(OwnBytes(c))
        /\ t.server_to_client \in DirectionOver(OwnBytes(Reversed(c)))
    BY DEF FreshTrackers
  <1>2. side = c \/ side = Reversed(c)
    BY Ends
  <1>3. packet.seq \in Int /\ packet.data \in Seq(OwnBytes(side)) /\ packet.src = side.src
    BY DEF IsPacketOf
  <1>4. CASE packet.src = c.src
    <2>1. side = c
      <3>1. CASE side = Reversed(c)
        <4>1. c.dst = c.src
          BY <1>3, <1>4, <3>1 DEF Reversed
        <4> QED
          BY <3>1, <4>1 DEF Reversed, Flow
      <3> QED
        BY <1>2, <3>1
    <2> DEFINE d == AddSegment(t.client_to_server, packet)
    <2>2. Takes(OwnBytes(c), t.client_to_server, d)
      BY <1>1, <1>3, <2>1, AddSegmentTakes
    <2> HIDE DEF d
    <2>3. Directed(t, packet) = [t EXCEPT !.client_to_server = d]
      BY <1>1, <1>4, Zenon DEF Directed, d
    <2>4. d \in DirectionOver(OwnBytes(c))
          /\ ToSet(t.client_to_server.data_buffer) \subseteq ToSet(d.data_buffer)
      BY <2>2 DEF Takes
    <2> DEFINE u == [t EXCEPT !.client_to_server = d]
    <2>5. u \in FreshTrackers(c) /\ u.client_to_server = d /\ u.server_to_client = t.server_to_client
      BY <2>4 DEF FreshTrackers
    <2> HIDE DEF u
    <2>6. TrackerTakes(t, u)
      BY <2>4, <2>5 DEF TrackerTakes
    <2> QED
      BY <2>3, <2>5, <2>6 DEF u
  <1>5. CASE packet.src # c.src
    <2>1. side = Reversed(c)
      BY <1>2, <1>3, <1>5
    <2> DEFINE d == AddSegment(t.server_to_client, packet)
    <2>2. Takes(OwnBytes(Reversed(c)), t.server_to_client, d)
      BY <1>1, <1>3, <2>1, AddSegmentTakes
    <2> HIDE DEF d
    <2>3. Directed(t, packet) = [t EXCEPT !.server_to_client = d]
      BY <1>1, <1>5, Zenon DEF Directed, d
    <2>4. d \in DirectionOver(OwnBytes(Reversed(c)))
          /\ ToSet(t.server_to_client.data_buffer) \subseteq ToSet(d.data_buffer)
      BY <2>2 DEF Takes
    <2> DEFINE u == [t EXCEPT !.server_to_client = d]
    <2>5. u \in FreshTrackers(c) /\ u.server_to_client = d /\ u.client_to_server = t.client_to_server
      BY <2>4 DEF FreshTrackers
    <2> HIDE DEF u
    <2>6. TrackerTakes(t, u)
      BY <2>4, <2>5 DEF TrackerTakes
    <2> QED
      BY <2>3, <2>5, <2>6 DEF u
  <1> QED
    BY <1>4, <1>5

LEMMA CountedType ==
    ASSUME NEW c, NEW u \in FreshTrackers(c), NEW packet
    PROVE  Counted(u, packet) \in TrackersOf(c) /\ TrackerTakes(u, Counted(u, packet))
  <1> DEFINE closed == \/ u.is_closed
                       \/ u.client_to_server.is_closed /\ u.server_to_client.is_closed
                       \/ "RST" \in packet.flags
             v == [u EXCEPT !.packets_count = u.packets_count + 1, !.is_closed = closed]
  <1>1. Counted(u, packet) = v
    BY DEF Counted
  <1>2. closed \in BOOLEAN
    BY Zenon
  <1>3. u.packets_count + 1 \in Nat \ {0}
    BY DEF FreshTrackers
  <1> HIDE DEF closed
  <1>4. v \in TrackersOf(c) /\ v.client_to_server = u.client_to_server /\ v.server_to_client = u.server_to_client
    BY <1>2, <1>3 DEF FreshTrackers, TrackersOf
  <1> HIDE DEF v
  <1>5. TrackerTakes(u, v)
    BY <1>4 DEF TrackerTakes
  <1> QED
    BY <1>1, <1>4, <1>5

LEMMA TrackType ==
    ASSUME NEW c \in Flow, NEW t \in FreshTrackers(c), NEW side \in Flow, Normalized(side) = Normalized(c),
           NEW packet, IsPacketOf(packet, side)
    PROVE  TrackPacket(t, packet) \in TrackersOf(c) /\ TrackerTakes(t, TrackPacket(t, packet))
  <1> DEFINE u == Directed(t, packet)
  <1>1. u \in FreshTrackers(c) /\ TrackerTakes(t, u)
    BY DirectedType
  <1>2. Counted(u, packet) \in TrackersOf(c) /\ TrackerTakes(u, Counted(u, packet))
    BY <1>1, CountedType
  <1>3. TrackerTakes(t, Counted(u, packet))
    BY <1>1, <1>2 DEF TrackerTakes
  <1> QED
    BY <1>2, <1>3, TrackPacketIs

\* What is handed over has all that is in the buffers.
LEMMA BuildType ==
    ASSUME NEW c \in Flow, NEW t \in TrackersOf(c)
    PROVE  /\ BuildStream(t) \in StreamsOf(c)
           /\ ToSet(t.client_to_server.data_buffer) \subseteq ToSet(BuildStream(t).client_to_server)
           /\ ToSet(t.server_to_client.data_buffer) \subseteq ToSet(BuildStream(t).server_to_client)
  <1> DEFINE x == GetData(t.client_to_server)
             y == GetData(t.server_to_client)
  <1>1. /\ x \in Seq(OwnBytes(c)) /\ ToSet(t.client_to_server.data_buffer) \subseteq ToSet(x)
        /\ y \in Seq(OwnBytes(Reversed(c))) /\ ToSet(t.server_to_client.data_buffer) \subseteq ToSet(y)
    BY GetDataType DEF TrackersOf
  <1>2. BuildStream(t) = [flow |-> t.client_flow, client_to_server |-> x, server_to_client |-> y,
                          packets_count |-> t.packets_count, is_closed |-> t.is_closed]
    BY DEF BuildStream
  <1> HIDE DEF x, y
  <1> QED
    BY <1>1, <1>2 DEF StreamsOf, TrackersOf

-----------------------------------------------------------------------------
\* A stream has what is in the buffers of a tracker.
StreamTakes(t, s) ==
    /\ ToSet(t.client_to_server.data_buffer) \subseteq ToSet(s.client_to_server)
    /\ ToSet(t.server_to_client.data_buffer) \subseteq ToSet(s.server_to_client)

\* A tracker is kept with all that is in its buffers, or they are handed over.
KeptOrHandedOver(key) ==
    \/ key \in DOMAIN connections' /\ TrackerTakes(connections[key], connections'[key])
    \/ \E i \in DOMAIN streams' : StreamTakes(connections[key], streams'[i])

NothingLost ==
    /\ \A key \in DOMAIN connections : KeptOrHandedOver(key)
    /\ \A i \in DOMAIN streams : i \in DOMAIN streams' /\ streams'[i] = streams[i]

\* The result of a step of the reassembler.
Stepped == TcpTyped' /\ NothingLost

LEMMA AppendedStream ==
    ASSUME streams \in Seq(Streams), NEW c \in Flow, NEW t \in TrackersOf(c),
           streams' = Append(streams, BuildStream(t))
    PROVE  /\ streams' \in Seq(Streams)
           /\ \A i \in DOMAIN streams : i \in DOMAIN streams' /\ streams'[i] = streams[i]
           /\ \E i \in DOMAIN streams' : StreamTakes(t, streams'[i])
  <1> DEFINE x == BuildStream(t)
  <1>1. x \in StreamsOf(c) /\ StreamTakes(t, x)
    BY BuildType DEF StreamTakes
  <1>2. x \in Streams
    BY <1>1 DEF Streams
  <1> HIDE DEF x
  <1>3. /\ streams' \in Seq(Streams) /\ Len(streams') = Len(streams) + 1 /\ Len(streams) \in Nat
        /\ \A i \in 1 .. Len(streams) : streams'[i] = streams[i]
        /\ streams'[Len(streams) + 1] = x
    BY <1>2, AppendProperties DEF x
  <1>4. DOMAIN streams = 1 .. Len(streams) /\ DOMAIN streams' = 1 .. Len(streams) + 1
    BY <1>3
  <1>5. Len(streams) + 1 \in DOMAIN streams'
    BY <1>3, <1>4
  <1>6. \A i \in DOMAIN streams : i \in DOMAIN streams' /\ streams'[i] = streams[i]
    BY <1>3, <1>4
  <1> QED
    BY <1>1, <1>3, <1>5, <1>6

\* A tracker leaves the table, the others stay as they are.
LEMMA WithoutOne ==
    ASSUME TcpTyped, NEW key, connections' = Without(key)
    PROVE  /\ DOMAIN connections' = DOMAIN connections \ {key}
           /\ \A k \in DOMAIN connections' : connections'[k] = connections[k]
           /\ \A k \in DOMAIN connections \ {key} : KeptOrHandedOver(k)
           /\ \A k \in DOMAIN connections' :
                \E c \in Flow : k = Normalized(c) /\ connections'[k] \in TrackersOf(c)
  <1>1. /\ DOMAIN connections' = DOMAIN connections \ {key}
        /\ \A k \in DOMAIN connections' : connections'[k] = connections[k]
    BY DEF Without
  <1>2. \A k \in DOMAIN connections \ {key} : KeptOrHandedOver(k)
    BY <1>1 DEF KeptOrHandedOver, TrackerTakes
  <1> QED
    BY <1>1, <1>2 DEF TcpTyped

LEMMA ProcessTyped ==
    ASSUME TcpTyped, NEW side \in Flow, NEW packet, IsPacketOf(packet, side),
           KeepTracking(packet) \/ CloseConnection(packet)
    PROVE  Stepped
  <1> DEFINE key == Key(packet)
             t == TrackerFor(packet)
             u == TrackPacket(t, packet)
  <1>1. PICK c \in Flow : Normalized(c) = Normalized(side) /\ t \in FreshTrackers(c)
    BY TrackerForType
  <1>2. key = Normalized(c)
    BY <1>1, KeyIs DEF IsPacketOf
  <1>3. u \in TrackersOf(c) /\ TrackerTakes(t, u)
    BY <1>1, TrackType
  <1>4. key \in DOMAIN connections => t = connections[key]
    BY DEF TrackerFor
  <1>5. CASE KeepTracking(packet)
    <2>1. /\ connections' = [k \in DOMAIN connections \union {key} |-> IF k = key THEN u ELSE connections[k]]
          /\ streams' = streams
      BY <1>5, Zenon DEF KeepTracking
    <2> HIDE DEF key, t, u
    <2>2. /\ DOMAIN connections' = DOMAIN connections \union {key}
          /\ connections'[key] = u
          /\ \A k \in DOMAIN connections \ {key} : connections'[k] = connections[k]
      BY <2>1
    <2>3. TcpTyped'
      <3>1. ASSUME NEW k \in DOMAIN connections'
            PROVE  \E d \in Flow : k = Normalized(d) /\ connections'[k] \in TrackersOf(d)
        <4>1. CASE k = key
          BY <1>2, <1>3, <2>2, <4>1
        <4>2. CASE k # key
          <5>1. k \in DOMAIN connections /\ connections'[k] = connections[k]
            BY <2>2, <4>2
          <5> QED
            BY <5>1 DEF TcpTyped
        <4> QED
          BY <4>1, <4>2
      <3>2. streams' \in Seq(Streams)
        BY <2>1 DEF TcpTyped
      <3> QED
        BY <3>1, <3>2, Zenon DEF TcpTyped
    <2>4. ASSUME NEW k \in DOMAIN connections PROVE KeptOrHandedOver(k)
      <3>1. CASE k = key
        BY <1>3, <1>4, <2>2, <3>1 DEF KeptOrHandedOver
      <3>2. CASE k # key
        <4>1. k \in DOMAIN connections' /\ connections'[k] = connections[k]
          BY <2>2, <3>2
        <4> QED
          BY <4>1 DEF KeptOrHandedOver, TrackerTakes
      <3> QED
        BY <3>1, <3>2
    <2>5. NothingLost
      BY <2>1, <2>4, Zenon DEF NothingLost
    <2> QED
      BY <2>3, <2>5 DEF Stepped
  <1>6. CASE CloseConnection(packet)
    <2>1. streams' = Append(streams, BuildStream(u)) /\ connections' = Without(key)
      BY <1>6, Zenon DEF CloseConnection
    <2> HIDE DEF key, t, u
    <2>2. /\ streams' \in Seq(Streams)
          /\ \A i \in DOMAIN streams : i \in DOMAIN streams' /\ streams'[i] = streams[i]
          /\ \E i \in DOMAIN streams' : StreamTakes(u, streams'[i])
      BY <1>3, <2>1, AppendedStream DEF TcpTyped
    <2>3. /\ \A k \in DOMAIN connections \ {key} : KeptOrHandedOver(k)
          /\ \A k \in DOMAIN connections' :
               \E d \in Flow : k = Normalized(d) /\ connections'[k] \in TrackersOf(d)
      BY <2>1, WithoutOne
    <2>4. ASSUME key \in DOMAIN connections PROVE KeptOrHandedOver(key)
      <3>1. PICK i \in DOMAIN streams' : StreamTakes(u, streams'[i])
        BY <2>2
      <3>2. StreamTakes(connections[key], streams'[i])
        BY <1>3, <1>4, <2>4, <3>1 DEF StreamTakes, TrackerTakes
      <3> QED
        BY <3>2 DEF KeptOrHandedOver
    <2>5. TcpTyped'
      BY <2>2, <2>3, Zenon DEF TcpTyped
    <2>6. NothingLost
      BY <2>2, <2>3, <2>4 DEF NothingLost
    <2> QED
      BY <2>5, <2>6 DEF Stepped
  <1> QED
    BY <1>5, <1>6

LEMMA FinalizeTyped ==
    ASSUME TcpTyped, FinalizeConnection
    PROVE  Stepped
  <1>1. PICK key \in DOMAIN connections :
          /\ streams' = IF connections[key].packets_count > 0
                        THEN Append(streams, BuildStream(connections[key])) ELSE streams
          /\ connections' = Without(key)
    BY Zenon DEF FinalizeConnection
  <1> DEFINE u == connections[key]
  <1>2. PICK c \in Flow : key = Normalized(c) /\ u \in TrackersOf(c)
    BY DEF TcpTyped
  <1>3. u.packets_count > 0
    BY <1>2 DEF TrackersOf
  <1>4. streams' = Append(streams, BuildStream(u))
    BY <1>1, <1>3
  <1> HIDE DEF u
  <1>5. /\ streams' \in Seq(Streams)
        /\ \A i \in DOMAIN streams : i \in DOMAIN streams' /\ streams'[i] = streams[i]
        /\ \E i \in DOMAIN streams' : StreamTakes(u, streams'[i])
    BY <1>2, <1>4, AppendedStream DEF TcpTyped
  <1>6. /\ \A k \in DOMAIN connections \ {key} : KeptOrHandedOver(k)
        /\ \A k \in DOMAIN connections' :
             \E d \in Flow : k = Normalized(d) /\ connections'[k] \in TrackersOf(d)
    BY <1>1, WithoutOne
  <1>7. KeptOrHandedOver(key)
    BY <1>5 DEF KeptOrHandedOver, u
  <1>8. TcpTyped'
    BY <1>5, <1>6, Zenon DEF TcpTyped
  <1>9. NothingLost
    BY <1>5, <1>6, <1>7 DEF NothingLost
  <1> QED
    BY <1>8, <1>9 DEF Stepped

LEMMA UnchangedTyped ==
    ASSUME TcpTyped, UNCHANGED <<connections, streams>>
    PROVE  Stepped
  <1>1. TcpTyped'
    BY Zenon DEF TcpTyped
  <1>2. NothingLost
    BY DEF NothingLost, KeptOrHandedOver, TrackerTakes
  <1> QED
    BY <1>1, <1>2 DEF Stepped

\* Every step hands a packet of a side to the reassembler, or none at all.
LEMMA NextIs ==
    ASSUME Typed, Next
    PROVE  \/ \E side \in Flow : \E packet :
                IsPacketOf(packet, side) /\ ProcessPacket(packet) /\ received' = received + 1
           \/ FinalizeConnection /\ UNCHANGED received
           \/ UNCHANGED <<connections, streams, received>>
  <1>1. /\ \A side \in Sides : side \in Flow
        /\ \A side \in Sides : sent[side] \in Int /\ SendLen[side] \in Int /\ -1 \in Int
    BY SidesAreFlows, TrafficAssumption DEF Typed, None
  <1>2. CASE OrderlySend
    <2>1. PICK side \in Sides : SendSyn(side) \/ SendData(side) \/ SendFin(side)
      BY <1>2 DEF OrderlySend
    <2>2. CASE SendSyn(side)
      <3>1. \E flags : Deliver(Packet(side, 0, -1, flags))
        BY <2>2 DEF SendSyn
      <3> QED
        BY <1>1, <3>1, PacketIsOf DEF Deliver
    <2>3. CASE SendData(side)
      <3>1. PICK q \in sent[side] + 1 .. SendLen[side] : Deliver(Packet(side, sent[side] + 1, q, {"ACK"}))
        BY <2>3, Zenon DEF SendData
      <3>2. q \in Int /\ sent[side] + 1 \in Int
        BY <1>1
      <3> QED
        BY <1>1, <3>1, <3>2, PacketIsOf DEF Deliver
    <2>4. CASE SendFin(side)
      <3>1. Deliver(Packet(side, sent[side] + 1, SendLen[side], {"FIN", "ACK"}))
        BY <2>4, Zenon DEF SendFin
      <3>2. sent[side] + 1 \in Int
        BY <1>1
      <3> QED
        BY <1>1, <3>1, <3>2, PacketIsOf DEF Deliver
    <2> QED
      BY <2>1, <2>2, <2>3, <2>4
  <1>3. CASE Disorder
    <2>1. PICK side \in Disordered \union {Reversed(c) : c \in Disordered} :
            \E packet \in PacketsOf(side) : Deliver(packet)
      BY <1>3, Zenon DEF Disorder
    <2>2. side \in Sides
      BY <2>1, TrafficAssumption DEF Sides
    <2>3. PICK packet \in PacketsOf(side) : Deliver(packet)
      BY <2>1
    <2>4. \E p, q \in Int : \E flags : packet = Packet(side, p, q, flags)
      <3>1. CASE packet \in {Packet(side, 0, -1, {"SYN"}), Packet(side, 1, 0, {"RST"})}
        BY <3>1
      <3>2. CASE packet \in UNION {{Packet(side, p, q, {"ACK"}) : q \in p .. SendLen[side]} : p \in 1 .. SendLen[side]}
        <4>1. PICK p \in 1 .. SendLen[side] : packet \in {Packet(side, p, q, {"ACK"}) : q \in p .. SendLen[side]}
          BY <3>2
        <4>2. PICK q \in p .. SendLen[side] : packet = Packet(side, p, q, {"ACK"})
          BY <4>1
        <4>3. p \in Int /\ q \in Int
          BY <1>1, <2>2
        <4> QED
          BY <4>2, <4>3
      <3>3. CASE packet \in {Packet(side, p, SendLen[side], {"FIN", "ACK"}) : p \in 1 .. SendLen[side] + 1}
        <4>1. PICK p \in 1 .. SendLen[side] + 1 : packet = Packet(side, p, SendLen[side], {"FIN", "ACK"})
          BY <3>3
        <4>2. p \in Int /\ SendLen[side] \in Int
          BY <1>1, <2>2
        <4> QED
          BY <4>1, <4>2
      <3> DEFINE bare == {Packet(side, 0, -1, {"SYN"}), Packet(side, 1, 0, {"RST"})}
                 data == UNION {{Packet(side, p, q, {"ACK"}) : q \in p .. SendLen[side]} : p \in 1 .. SendLen[side]}
                 last == {Packet(side, p, SendLen[side], {"FIN", "ACK"}) : p \in 1 .. SendLen[side] + 1}
      <3>4. PacketsOf(side) = bare \union data \union last
        BY Zenon DEF PacketsOf
      <3>5. packet \in bare \/ packet \in data \/ packet \in last
              => \E p, q \in Int : \E flags : packet = Packet(side, p, q, flags)
        BY <3>1, <3>2, <3>3, Zenon
      <3> HIDE DEF bare, data, last
      <3> QED
        BY <3>4, <3>5
    <2> QED
      BY <1>1, <2>2, <2>3, <2>4, PacketIsOf DEF Deliver
  <1>4. CASE Read
    BY <1>4 DEF Read, EndOfCapture
  <1>5. CASE Finalize
    BY <1>5 DEF Finalize
  <1> QED
    BY <1>2, <1>3, <1>4, <1>5 DEF Next

\* The step of the reassembler in a step of the capture.
LEMMA StepTyped ==
    ASSUME Typed, [Next]_vars
    PROVE  Stepped
  <1>1. TcpTyped
    BY DEF Typed
  <1>2. ASSUME NEW side \in Flow, \E packet : IsPacketOf(packet, side) /\ ProcessPacket(packet)
        PROVE  Stepped
    <2>1. PICK packet : IsPacketOf(packet, side) /\ ProcessPacket(packet)
      BY <1>2
    <2>2. KeepTracking(packet) \/ CloseConnection(packet)
      BY <2>1 DEF ProcessPacket
    <2> QED
      BY <1>1, <2>1, <2>2, ProcessTyped
  <1>3. CASE UNCHANGED vars
    BY <1>1, <1>3, UnchangedTyped DEF vars
  <1> QED
    BY <1>1, <1>2, <1>3, NextIs, FinalizeTyped, UnchangedTyped

LEMMA SentTyped ==
    ASSUME Typed, [Next]_vars
    PROVE  sent' \in [Sides -> Nat \union {None}] /\ orderly' \in BOOLEAN
  <1>1. sent \in [Sides -> Nat \union {None}] /\ orderly \in BOOLEAN
    BY DEF Typed
  <1>2. CASE OrderlySend
    <2>1. PICK side \in Sides : SendSyn(side) \/ SendData(side) \/ SendFin(side)
      BY <1>2 DEF OrderlySend
    <2>2. PICK n \in Nat : sent' = [sent EXCEPT ![side] = n]
      <3>1. CASE SendSyn(side)
        BY <3>1 DEF SendSyn
      <3>2. CASE SendData(side)
        <4>1. PICK q \in sent[side] + 1 .. SendLen[side] : sent' = [sent EXCEPT ![side] = q]
          BY <3>2, Zenon DEF SendData
        <4>2. sent[side] + 1 \in Nat
          BY <1>1 DEF None
        <4>3. q \in Nat
          BY <4>2, TrafficAssumption
        <4> QED
          BY <4>1, <4>3
      <3>3. CASE SendFin(side)
        BY <3>3, TrafficAssumption DEF SendFin
      <3> QED
        BY <2>1, <3>1, <3>2, <3>3
    <2>3. orderly' = orderly
      BY <2>1 DEF SendSyn, SendData, SendFin, Deliver
    <2> QED
      BY <1>1, <2>2, <2>3
  <1>3. CASE Disorder
    BY <1>1, <1>3 DEF Disorder, Deliver
  <1>4. CASE Read
    BY <1>1, <1>4 DEF Read
  <1>5. CASE Finalize
    BY <1>1, <1>5 DEF Finalize
  <1>6. CASE UNCHANGED vars
    BY <1>1, <1>6 DEF vars
  <1> QED
    BY <1>2, <1>3, <1>4, <1>5, <1>6 DEF Next

LEMMA InitTyped == Init => Typed
  <1> SUFFICES ASSUME Init PROVE Typed
    OBVIOUS
  <1>1. connections = << >> /\ streams = << >>
    BY DEF Init, TcpInit
  <1>2. streams \in Seq(Streams) /\ DOMAIN connections = {}
    BY <1>1
  <1>3. TcpTyped
    BY <1>2 DEF TcpTyped
  <1>4. sent \in [Sides -> Nat \union {None}] /\ orderly \in BOOLEAN
    BY DEF Init
  <1> QED
    BY <1>3, <1>4 DEF Typed

LEMMA NextTyped == Typed /\ [Next]_vars => Typed'
  <1> SUFFICES ASSUME Typed, [Next]_vars PROVE Typed'
    OBVIOUS
  <1>1. TcpTyped'
    BY StepTyped DEF Stepped
  <1>2. sent' \in [Sides -> Nat \union {None}] /\ orderly' \in BOOLEAN
    BY SentTyped
  <1> QED
    BY <1>1, <1>2, Zenon DEF Typed

LEMMA SpecNext == Spec => Init /\ [][Next]_vars
  BY PTL DEF Spec

LEMMA AlwaysTyped == Spec => []Typed
  <1>1. Init /\ [][Next]_vars => []Typed
    BY InitTyped, NextTyped, PTL
  <1> QED
    BY <1>1, SpecNext, PTL

-----------------------------------------------------------------------------
LEMMA OwnBytesSent ==
    ASSUME NEW side, NEW data \in Seq(OwnBytes(side))
    PROVE  SentBy(data, side)
  <1>1. \A i \in DOMAIN data : data[i] \in OwnBytes(side)
    OBVIOUS
  <1> QED
    BY <1>1 DEF OwnBytes, SentBy

LEMMA TypedDirections == Typed => DirectionsNeverMix
  <1> SUFFICES ASSUME Typed PROVE DirectionsNeverMix
    OBVIOUS
  <1>1. ASSUME NEW i \in DOMAIN streams
        PROVE  /\ SentBy(streams[i].client_to_server, streams[i].flow)
               /\ SentBy(streams[i].server_to_client, Reversed(streams[i].flow))
    <2>1. streams[i] \in Streams
      BY DEF Typed, TcpTyped
    <2>2. PICK c \in Flow : streams[i] \in StreamsOf(c)
      BY <2>1 DEF Streams
    <2>3. /\ streams[i].flow = c /\ streams[i].client_to_server \in Seq(OwnBytes(c))
          /\ streams[i].server_to_client \in Seq(OwnBytes(Reversed(c)))
      BY <2>2 DEF StreamsOf
    <2> QED
      BY <2>3, OwnBytesSent
  <1>2. ASSUME NEW key \in DOMAIN connections
        PROVE  /\ SentBy(GetData(connections[key].client_to_server), connections[key].client_flow)
               /\ SentBy(GetData(connections[key].server_to_client), Reversed(connections[key].client_flow))
    <2>1. PICK c \in Flow : connections[key] \in TrackersOf(c)
      BY DEF Typed, TcpTyped
    <2>2. /\ connections[key].client_flow = c
          /\ connections[key].client_to_server \in DirectionOver(OwnBytes(c))
          /\ connections[key].server_to_client \in DirectionOver(OwnBytes(Reversed(c)))
      BY <2>1 DEF TrackersOf
    <2>3. /\ GetData(connections[key].client_to_server) \in Seq(OwnBytes(c))
          /\ GetData(connections[key].server_to_client) \in Seq(OwnBytes(Reversed(c)))
      BY <2>2, GetDataType
    <2> QED
      BY <2>2, <2>3, OwnBytesSent
  <1> QED
    BY <1>1, <1>2, Zenon DEF DirectionsNeverMix

\* No capture of any packets in any order, repeated or missing, makes a byte
\* cross over to the other direction or to another connection (lines 160-183
\* and 199-221): DirectionsNeverMix.
THEOREM DirectionsNeverMixHolds == Spec => []DirectionsNeverMix
  BY AlwaysTyped, TypedDirections, PTL

\* The bytes of the buffers and of the streams, one by one.
LEMMA BufferedIs ==
    \A b : b \in Buffered <=> \E key \in DOMAIN connections :
                                 \/ b \in ToSet(connections[key].client_to_server.data_buffer)
                                 \/ b \in ToSet(connections[key].server_to_client.data_buffer)
  BY DEF Buffered

LEMMA DeliveredIs ==
    \A b : b \in Delivered <=> \E i \in DOMAIN streams :
                                  b \in ToSet(streams[i].client_to_server) \/ b \in ToSet(streams[i].server_to_client)
  BY DEF Delivered

LEMMA NextKeepsBytes == Typed /\ [Next]_vars => Buffered \union Delivered \subseteq (Buffered \union Delivered)'
  <1> SUFFICES ASSUME Typed, [Next]_vars, NEW b \in Buffered \union Delivered
               PROVE  b \in Buffered' \/ b \in Delivered'
    OBVIOUS
  <1>1. NothingLost
    BY StepTyped DEF Stepped
  <1>2. (\E key \in DOMAIN connections' :
            \/ b \in ToSet(connections'[key].client_to_server.data_buffer)
            \/ b \in ToSet(connections'[key].server_to_client.data_buffer)) => b \in Buffered'
    BY DEF Buffered
  <1>3. (\E i \in DOMAIN streams' :
            b \in ToSet(streams'[i].client_to_server) \/ b \in ToSet(streams'[i].server_to_client))
         => b \in Delivered'
    BY DEF Delivered
  <1>4. CASE b \in Buffered
    <2>1. PICK key \in DOMAIN connections :
                 \/ b \in ToSet(connections[key].client_to_server.data_buffer)
                 \/ b \in ToSet(connections[key].server_to_client.data_buffer)
      BY <1>4, BufferedIs
    <2>2. KeptOrHandedOver(key)
      BY <1>1 DEF NothingLost
    <2>3. CASE key \in DOMAIN connections' /\ TrackerTakes(connections[key], connections'[key])
      BY <1>2, <2>1, <2>3 DEF TrackerTakes
    <2>4. CASE \E i \in DOMAIN streams' : StreamTakes(connections[key], streams'[i])
      BY <1>3, <2>1, <2>4 DEF StreamTakes
    <2> QED
      BY <2>2, <2>3, <2>4 DEF KeptOrHandedOver
  <1>5. CASE b \in Delivered
    <2>1. PICK i \in DOMAIN streams :
                 b \in ToSet(streams[i].client_to_server) \/ b \in ToSet(streams[i].server_to_client)
      BY <1>5, DeliveredIs
    <2>2. i \in DOMAIN streams' /\ streams'[i] = streams[i]
      BY <1>1 DEF NothingLost
    <2> QED
      BY <1>3, <2>1, <2>2
  <1> QED
    BY <1>4, <1>5

\* A byte in a buffer stays in one until its stream has it, whatever is
\* captured next and whichever connections are closed, reset or begun again
\* (lines 38-116 and 127-148, 211-227): NoBufferedByteLost.
THEOREM NoBufferedByteLostHolds == Spec => NoBufferedByteLost
  <1>1. Typed /\ [Next]_vars => [Buffered \union Delivered \subseteq (Buffered \union Delivered)']_vars
    BY NextKeepsBytes
  <1>2. []Typed /\ [][Next]_vars => NoBufferedByteLost
    BY <1>1, PTL DEF NoBufferedByteLost
  <1> QED
    BY <1>2, AlwaysTyped, SpecNext, PTL

-----------------------------------------------------------------------------
LEMMA Limits ==
    /\ SeqSpace \in Nat /\ SeqSpace \div 2 \in Nat /\ 2 * (SeqSpace \div 2) = SeqSpace
    /\ \A side \in Sides : SendLen[side] \in Nat /\ SendLen[side] < SeqSpace \div 2 /\ Isn[side] \in SeqNumber
  BY TrafficAssumption, SeqSpaceAssumption, Half

LEMMA BytesAre ==
    ASSUME NEW side, NEW p \in Int, NEW q \in Int, q >= p - 1
    PROVE  /\ Bytes(side, p, q) \in Seq(OwnBytes(side))
           /\ Len(Bytes(side, p, q)) = q - p + 1
           /\ \A i \in 1 .. q - p + 1 :
                Bytes(side, p, q)[i] = [src |-> side.src, dst |-> side.dst, pos |-> p + i - 1]
  <1>1. Bytes(side, p, q) \in Seq(OwnBytes(side))
    BY BytesType
  <1>2. DOMAIN Bytes(side, p, q) = 1 .. q - p + 1 /\ q - p + 1 \in Nat
    BY DEF Bytes
  <1>3. Len(Bytes(side, p, q)) = q - p + 1
    BY <1>1, <1>2
  <1> QED
    BY <1>1, <1>3 DEF Bytes

\* What a side sends next goes behind what it has sent.
LEMMA BytesConcat ==
    ASSUME NEW side, NEW n \in Nat, NEW q \in Nat, n <= q
    PROVE  Bytes(side, 1, n) \o Bytes(side, n + 1, q) = Bytes(side, 1, q)
  <1> DEFINE B == OwnBytes(side)
             u == Bytes(side, 1, n)
             v == Bytes(side, n + 1, q)
             w == Bytes(side, 1, q)
             At(k) == [src |-> side.src, dst |-> side.dst, pos |-> k]
  <1>1. /\ u \in Seq(B) /\ Len(u) = n /\ \A i \in 1 .. n : u[i] = At(i)
        /\ w \in Seq(B) /\ Len(w) = q /\ \A i \in 1 .. q : w[i] = At(i)
    <2>1. \A m \in Nat : m - 1 + 1 = m /\ m >= 1 - 1 /\ m \in Int /\ 1 \in Int /\ \A i \in 1 .. m : 1 + i - 1 = i
      OBVIOUS
    <2>2. /\ u \in Seq(B) /\ Len(u) = n - 1 + 1 /\ \A i \in 1 .. n - 1 + 1 : u[i] = At(1 + i - 1)
          /\ w \in Seq(B) /\ Len(w) = q - 1 + 1 /\ \A i \in 1 .. q - 1 + 1 : w[i] = At(1 + i - 1)
      BY <2>1, BytesAre
    <2> HIDE DEF u, w, B, At
    <2> QED
      BY <2>1, <2>2
  <1>2. v \in Seq(B) /\ Len(v) = q - n /\ \A i \in 1 .. q - n : v[i] = At(n + i)
    <2>1. n + 1 \in Int /\ q \in Int /\ q >= (n + 1) - 1 /\ q - (n + 1) + 1 = q - n
          /\ \A i \in 1 .. q - n : (n + 1) + i - 1 = n + i
      OBVIOUS
    <2>2. /\ v \in Seq(B) /\ Len(v) = q - (n + 1) + 1
          /\ \A i \in 1 .. q - (n + 1) + 1 : v[i] = At((n + 1) + i - 1)
      BY <2>1, BytesAre
    <2> HIDE DEF v, B, At
    <2> QED
      BY <2>1, <2>2
  <1> HIDE DEF u, v, w, B, At
  <1>3. /\ u \o v \in Seq(B) /\ Len(u \o v) = n + (q - n)
        /\ \A i \in 1 .. n + (q - n) : (u \o v)[i] = IF i <= n THEN u[i] ELSE v[i - n]
    <2>1. /\ u \o v \in Seq(B) /\ Len(u \o v) = Len(u) + Len(v)
          /\ \A i \in 1 .. Len(u) + Len(v) : (u \o v)[i] = IF i <= Len(u) THEN u[i] ELSE v[i - Len(u)]
      BY <1>1, <1>2, ConcatProperties
    <2> QED
      BY <1>1, <1>2, <2>1
  <1>4. ASSUME NEW i \in 1 .. q PROVE (u \o v)[i] = w[i]
    <2>1. CASE i <= n
      BY <1>1, <1>3, <2>1
    <2>2. CASE ~(i <= n)
      <3>1. i - n \in 1 .. q - n /\ n + (i - n) = i /\ i \in 1 .. n + (q - n)
        BY <2>2
      <3> QED
        BY <1>1, <1>2, <1>3, <2>2, <3>1
    <2> QED
      BY <2>1, <2>2
  <1>5. n + (q - n) = q
    OBVIOUS
  <1>6. u \o v = w
    BY <1>1, <1>3, <1>4, <1>5, SeqEqual
  <1> QED
    BY <1>6 DEF u, v, w

\* Sequence numbers of a side, counted from the byte before its first.
LEMMA Numbers ==
    ASSUME NEW side \in Sides, NEW n \in Nat, n <= SendLen[side] + 1
    PROVE  /\ SeqAdd(Isn[side], n) \in SeqNumber
           /\ SeqAdd(SeqAdd(Isn[side], n), 0) = SeqAdd(Isn[side], n)
           /\ \A m \in Nat : n + m <= SendLen[side] + 1
                               => SeqAdd(SeqAdd(Isn[side], n), m) = SeqAdd(Isn[side], n + m)
  <1>1. SendLen[side] \in Nat /\ SendLen[side] + 1 <= SeqSpace \div 2 /\ Isn[side] \in SeqNumber
        /\ SeqSpace \in Nat /\ SeqSpace \div 2 < SeqSpace
    BY Limits, SeqSpaceAssumption
  <1>2. \A m \in Int : m % SeqSpace \in 0 .. SeqSpace - 1
    BY SeqSpaceAssumption, Z3
  <1>3. SeqAdd(Isn[side], n) \in SeqNumber
    BY <1>1, <1>2 DEF SeqAdd, SeqNumber
  <1>4. ASSUME NEW m \in Nat, n + m <= SendLen[side] + 1
        PROVE  SeqAdd(SeqAdd(Isn[side], n), m) = SeqAdd(Isn[side], n + m)
    <2>1. n + m < SeqSpace
      BY <1>1, <1>4
    <2> QED
      BY <1>1, <2>1, SeqAddTwice
  <1>5. SeqAdd(SeqAdd(Isn[side], n), 0) = SeqAdd(Isn[side], n)
    <2>1. 0 \in Nat /\ n + 0 = n /\ n + 0 <= SendLen[side] + 1
      BY <1>1
    <2>2. SeqAdd(SeqAdd(Isn[side], n), 0) = SeqAdd(Isn[side], n + 0)
      BY <1>4, <2>1
    <2> QED
      BY <2>1, <2>2
  <1> QED
    BY <1>3, <1>4, <1>5

\* What the flags say of the end of a direction.
Ending(r, x) == [r EXCEPT !.is_closed = @ \/ x]

LEMMA EndingFalse ==
    ASSUME NEW B, NEW r \in DirectionOver(B), NEW x, x = FALSE
    PROVE  Ending(r, x) = r
  <1>1. r.is_closed \in BOOLEAN
    BY DEF DirectionOver
  <1>2. Ending(r, x) = [r EXCEPT !.is_closed = r.is_closed]
    BY <1>1 DEF Ending
  <1> QED
    BY <1>2 DEF DirectionOver

\* e is r, at its end if x says so.
Ended(e, r, x) ==
    /\ e.base_seq = r.base_seq /\ e.next_expected_seq = r.next_expected_seq
    /\ e.data_buffer = r.data_buffer /\ e.out_of_order = r.out_of_order
    /\ e.is_closed <=> r.is_closed \/ x

LEMMA EndingIs ==
    ASSUME NEW B, NEW r \in DirectionOver(B), NEW x
    PROVE  Ended(Ending(r, x), r, x)
  <1> DEFINE e == r.is_closed \/ x
  <1>1. Ending(r, x) = [r EXCEPT !.is_closed = e]
    BY DEF Ending
  <1> HIDE DEF e
  <1>2. /\ Ending(r, x).base_seq = r.base_seq /\ Ending(r, x).next_expected_seq = r.next_expected_seq
        /\ Ending(r, x).data_buffer = r.data_buffer /\ Ending(r, x).out_of_order = r.out_of_order
        /\ Ending(r, x).is_closed = e
    BY <1>1 DEF DirectionOver
  <1> QED
    BY <1>2, Zenon DEF e, Ended

\* A SYN opens the direction.
LEMMA SynOpens ==
    ASSUME NEW side \in Sides, NEW flags, "SYN" \in flags, "RST" \notin flags
    PROVE  SentUpTo(AddSegment(NewDirection, Packet(side, 0, -1, flags)), side, 0, FALSE)
  <1> DEFINE packet == Packet(side, 0, -1, flags)
             first == SeqAdd(Isn[side], 1)
             d == AddSegment(NewDirection, packet)
             q == Ending(NewDirection, "RST" \in packet.flags)
  <1>1. packet.flags = flags /\ packet.seq = SeqAdd(Isn[side], 0) /\ packet.data = Bytes(side, 0, -1)
    BY DEF Packet
  <1>2. q = NewDirection
    <2>1. NewDirection \in DirectionOver({}) /\ ("RST" \in packet.flags) = FALSE
      BY <1>1, NewDirectionTyped DEF NewDirectionType
    <2> QED
      BY <2>1, EndingFalse
  <1>3. Len(Bytes(side, 0, -1)) = 0
    <2>1. -1 - 0 + 1 = 0 /\ -1 >= 0 - 1 /\ -1 \in Int /\ 0 \in Int
      OBVIOUS
    <2> QED
      BY <2>1, BytesAre
  <1>4. d = AddSyn(q, packet.seq, packet.data)
    BY <1>1, Zenon DEF AddSegment, Ending
  <1> HIDE DEF packet, q
  <1>5. d = Reset(NewDirection, SeqAdd(Isn[side], 0))
    BY <1>1, <1>2, <1>3, <1>4, SynWithoutData
  <1>6. SeqAdd(SeqAdd(Isn[side], 0), 1) = first
    <2>1. 0 \in Nat /\ 1 \in Nat /\ 0 + 1 = 1 /\ 0 <= SendLen[side] + 1 /\ 0 + 1 <= SendLen[side] + 1
      BY Limits
    <2> QED
      BY <2>1, Numbers
  <1> HIDE DEF first, d
  <1>7. /\ d.base_seq = first /\ d.next_expected_seq = first /\ d.data_buffer = << >>
        /\ d.out_of_order = << >> /\ d.is_closed = FALSE
    BY <1>5, <1>6 DEF Reset, NewDirection
  <1>8. Bytes(side, 1, 0) = << >> /\ 0 + 1 = 1 /\ 0 # None
    <2>1. 0 - 1 + 1 = 0 /\ 0 >= 1 - 1 /\ 1 \in Int /\ 0 \in Int
      OBVIOUS
    <2>2. Len(Bytes(side, 1, 0)) = 0 /\ Bytes(side, 1, 0) \in Seq(OwnBytes(side))
      BY <2>1, BytesAre
    <2> QED
      BY <2>2 DEF None
  <1> QED
    BY <1>7, <1>8 DEF SentUpTo, first, d, packet

\* A segment that is the next one goes behind what there is.
LEMMA NextSegment ==
    ASSUME NEW B, NEW d \in DirectionOver(B), NEW seq \in SeqNumber, NEW data \in Seq(B), NEW fin,
           d.base_seq # None, d.next_expected_seq = seq, d.out_of_order = << >>, data # << >>,
           SeqDiff(seq, d.base_seq) >= 0, SeqAdd(seq, 0) = seq
    PROVE  AddData(d, seq, data, fin) = Ending(AppendData(d, seq, data), fin)
  <1> DEFINE a == AppendData(d, seq, data)
             overlap == SeqDiff(d.next_expected_seq, seq)
             added == IF SeqDiff(seq, d.next_expected_seq) > 0
                      THEN ProcessOutOfOrder(HoldSegment(d, seq, data))
                      ELSE IF overlap < Len(data)
                           THEN ProcessOutOfOrder(AppendData(d, SeqAdd(seq, overlap), Drop(data, overlap)))
                           ELSE d
  <1>1. SeqDiff(seq, d.base_seq) \in Int
    <2>1. seq \in Int /\ d.base_seq \in Int
      BY SeqSpaceAssumption DEF SeqNumber, DirectionOver
    <2> QED
      BY <2>1, SeqAddInt
  <1>2. AddData(d, seq, data, fin) = AddAfterBase(d, seq, data, fin)
    <2>1. ~(SeqDiff(seq, d.base_seq) < 0)
      BY <1>1
    <2> QED
      BY <2>1, Zenon DEF AddData
  <1>3. AddAfterBase(d, seq, data, fin) = Ending(added, fin)
    BY Zenon DEF AddAfterBase, Ending
  <1>4. SeqDiff(seq, d.next_expected_seq) = 0 /\ overlap = 0
    BY SeqDiffZero
  <1>5. Len(data) > 0 /\ Len(data) \in Nat /\ Drop(data, 0) = data
    <2>1. Len(data) \in Nat /\ Len(data) > 0
      BY EmptySeq
    <2>2. Drop(data, 0) = SubSeq(data, 1, Len(data))
      BY <2>1 DEF Drop
    <2>3. SubSeq(data, 1, Len(data)) = data
      <3> DEFINE n == Len(data)
                 u == SubSeq(data, 1, n)
      <3>1. \A i \in 1 .. n : data[i] \in B
        OBVIOUS
      <3>2. n \in Nat
        BY <2>1
      <3> HIDE DEF n
      <3>3. /\ u \in Seq(B) /\ Len(u) = IF 1 <= n THEN n - 1 + 1 ELSE 0
            /\ \A i \in 1 .. n - 1 + 1 : u[i] = data[1 + i - 1]
        BY <3>1, <3>2, SubSeqProperties
      <3>4. Len(u) = n /\ \A i \in 1 .. n : u[i] = data[i]
        BY <3>2, <3>3
      <3> HIDE DEF u
      <3>5. u = data
        BY <3>3, <3>4, SeqEqual DEF n
      <3> QED
        BY <3>5 DEF u, n
    <2> QED
      BY <2>1, <2>2, <2>3
  <1>6. added = ProcessOutOfOrder(a)
    <2>1. ~(SeqDiff(seq, d.next_expected_seq) > 0) /\ overlap < Len(data)
      BY <1>4, <1>5
    <2> QED
      BY <1>4, <1>5, <2>1
  <1>7. a.out_of_order = << >>
    BY DEF AppendData, DirectionOver
  <1> HIDE DEF a, added
  <1>8. ProcessOutOfOrder(a) = a
    <2>1. Len(a.out_of_order) = 0 /\ Len(a.out_of_order) \in Nat
      BY <1>7
    <2>2. PICK f : f[0] = a /\ ProcessOutOfOrder(a) = f[Len(a.out_of_order)]
      BY <2>1, ProcessIs
    <2> QED
      BY <2>1, <2>2
  <1> QED
    BY <1>2, <1>3, <1>6, <1>8 DEF a

\* The next bytes of a side, up to q, with or without FIN.
LEMMA DataFollows ==
    ASSUME NEW side \in Sides, NEW d \in DirectionOver(OwnBytes(side)),
           NEW n \in Nat, SentUpTo(d, side, n, FALSE), NEW q \in n .. SendLen[side],
           NEW flags, "SYN" \notin flags, "RST" \notin flags, q > n \/ "FIN" \in flags
    PROVE  SentUpTo(AddSegment(d, Packet(side, n + 1, q, flags)), side, q, "FIN" \in flags)
  <1> DEFINE packet == Packet(side, n + 1, q, flags)
             data == Bytes(side, n + 1, q)
             seq == SeqAdd(Isn[side], n + 1)
             fin == "FIN" \in flags
             r == Ending(d, "RST" \in packet.flags)
             e == AddSegment(d, packet)
  <1>1. packet.flags = flags /\ packet.seq = seq /\ packet.data = data
    BY DEF Packet
  <1>2. /\ d.base_seq = SeqAdd(Isn[side], 1) /\ d.next_expected_seq = seq
        /\ d.data_buffer = Bytes(side, 1, n) /\ d.out_of_order = << >> /\ d.is_closed = FALSE
    <2>1. n # None
      BY DEF None
    <2>2. d.is_closed \in BOOLEAN
      BY DEF DirectionOver
    <2> QED
      BY <2>1, <2>2 DEF SentUpTo
  <1>3. /\ SendLen[side] \in Nat /\ q \in Nat /\ n <= q /\ q <= SendLen[side] /\ SendLen[side] < SeqSpace \div 2
        /\ n + 1 <= SendLen[side] + 1 /\ 1 <= SendLen[side] + 1 /\ n + 1 \in Nat /\ 1 \in Nat
    BY Limits
  <1>4. r = d
    <2>1. ("RST" \in packet.flags) = FALSE
      BY <1>1
    <2> QED
      BY <2>1, EndingFalse
  <1>5. e = IF data = << >> THEN Ending(d, fin) ELSE AddData(d, seq, data, fin)
    <2>1. e = IF packet.data = << >> THEN Ending(r, "FIN" \in packet.flags)
              ELSE AddData(r, packet.seq, packet.data, "FIN" \in packet.flags)
      BY <1>1, Zenon DEF AddSegment, Ending
    <2> HIDE DEF r, e, packet, data, seq
    <2> QED
      BY <1>1, <1>4, <2>1
  <1>6. data \in Seq(OwnBytes(side)) /\ Len(data) = q - n
    <2>1. n + 1 \in Int /\ q \in Int /\ q >= (n + 1) - 1 /\ q - (n + 1) + 1 = q - n
      BY <1>3
    <2> QED
      BY <2>1, BytesAre
  <1> HIDE DEF packet, r, e
  <1>7. CASE data = << >>
    <2>1. q = n
      BY <1>3, <1>6, <1>7
    <2>2. fin
      BY <2>1
    <2>3. e = Ending(d, fin)
      BY <1>5, <1>7
    <2>4. Ended(e, d, fin)
      <3>1. Ended(Ending(d, fin), d, fin)
        BY EndingIs
      <3> HIDE DEF fin
      <3> QED
        BY <2>3, <3>1, Zenon
    <2>5. /\ e.base_seq = SeqAdd(Isn[side], 1) /\ e.next_expected_seq = SeqAdd(Isn[side], q + 1)
          /\ e.data_buffer = Bytes(side, 1, q) /\ e.out_of_order = << >>
      BY <1>2, <2>1, <2>4 DEF Ended
    <2>6. e.is_closed <=> fin
      BY <2>2, <2>4, Zenon DEF Ended
    <2>7. q # None
      BY <1>3 DEF None
    <2> QED
      BY <2>5, <2>6, <2>7, Zenon DEF SentUpTo, e, packet
  <1>8. CASE data # << >>
    <2>1. seq \in SeqNumber /\ SeqAdd(seq, 0) = seq /\ d.base_seq \in SeqNumber /\ d.base_seq # None
      <3>1. seq \in SeqNumber /\ SeqAdd(seq, 0) = seq /\ d.base_seq \in SeqNumber
        BY <1>2, <1>3, Numbers
      <3> HIDE DEF seq
      <3> QED
        BY <3>1, SeqSpaceAssumption DEF SeqNumber, None
    <2>2. SeqDiff(seq, d.base_seq) >= 0
      <3>1. seq = SeqAdd(d.base_seq, n)
        <4>1. 1 + n = n + 1 /\ 1 + n <= SendLen[side] + 1
          BY <1>3
        <4>2. SeqAdd(SeqAdd(Isn[side], 1), n) = SeqAdd(Isn[side], 1 + n)
          BY <1>3, <4>1, Numbers
        <4> QED
          BY <1>2, <4>1, <4>2
      <3>2. n \in 0 .. (SeqSpace \div 2) - 1
        BY <1>3, Limits
      <3>3. SeqDiff(seq, d.base_seq) = n
        BY <2>1, <3>1, <3>2, SeqDiffOfSeqAdd
      <3> QED
        BY <3>3
    <2>3. e = Ending(AppendData(d, seq, data), fin)
      <3> HIDE DEF seq, data, fin
      <3> QED
        BY <1>2, <1>5, <1>6, <1>8, <2>1, <2>2, NextSegment
    <2> DEFINE a == AppendData(d, seq, data)
    <2>4. /\ a.base_seq = d.base_seq /\ a.next_expected_seq = SeqAdd(seq, q - n)
          /\ a.data_buffer = d.data_buffer \o data /\ a.out_of_order = d.out_of_order
          /\ a.is_closed = d.is_closed
      <3> HIDE DEF seq, data
      <3> QED
        BY <1>2, <1>6 DEF AppendData, DirectionOver
    <2>5. a \in DirectionOver(OwnBytes(side))
      <3>1. seq \in Int
        BY <2>1, SeqSpaceAssumption DEF SeqNumber
      <3> QED
        BY <1>6, <3>1, AppendTakes DEF Takes
    <2>6. SeqAdd(seq, q - n) = SeqAdd(Isn[side], q + 1)
      <3>1. q - n \in Nat /\ (n + 1) + (q - n) = q + 1 /\ (n + 1) + (q - n) <= SendLen[side] + 1
        BY <1>3
      <3>2. SeqAdd(seq, q - n) = SeqAdd(Isn[side], (n + 1) + (q - n))
        BY <1>3, <3>1, Numbers
      <3> QED
        BY <3>1, <3>2
    <2>7. a.data_buffer = Bytes(side, 1, q)
      <3>1. Bytes(side, 1, n) \o data = Bytes(side, 1, q)
        BY <1>3, BytesConcat
      <3> QED
        BY <1>2, <2>4, <3>1
    <2> HIDE DEF a
    <2>8. Ended(e, a, fin)
      <3>1. Ended(Ending(a, fin), a, fin)
        BY <2>5, EndingIs
      <3>2. e = Ending(a, fin)
        BY <2>3 DEF a
      <3> HIDE DEF fin
      <3> QED
        BY <3>1, <3>2, Zenon
    <2>9. /\ e.base_seq = SeqAdd(Isn[side], 1) /\ e.next_expected_seq = SeqAdd(Isn[side], q + 1)
          /\ e.data_buffer = Bytes(side, 1, q) /\ e.out_of_order = << >>
      BY <1>2, <2>4, <2>6, <2>7, <2>8 DEF Ended
    <2>10. e.is_closed <=> fin
      <3>1. a.is_closed = FALSE
        BY <1>2, <2>4
      <3> QED
        BY <2>8, <3>1, Zenon DEF Ended
    <2>11. q # None
      BY <1>3 DEF None
    <2> QED
      BY <2>9, <2>10, <2>11, Zenon DEF SentUpTo, e, packet
  <1> QED
    BY <1>7, <1>8

-----------------------------------------------------------------------------
LEMMA UpToClosed ==
    ASSUME NEW d, NEW side, NEW n, NEW fin, SentUpTo(d, side, n, fin)
    PROVE  d.is_closed <=> fin
  <1>1. CASE n = None
    <2>1. d = NewDirection /\ ~fin
      BY <1>1, Zenon DEF SentUpTo
    <2>2. NewDirection.is_closed = FALSE
      BY DEF NewDirection
    <2> QED
      BY <2>1, <2>2, Zenon
  <1>2. CASE n # None
    BY <1>2, Zenon DEF SentUpTo
  <1> QED
    BY <1>1, <1>2

LEMMA UpToSame ==
    ASSUME NEW d, NEW side, NEW n, NEW fin, NEW end, SentUpTo(d, side, n, fin), fin <=> end
    PROVE  SentUpTo(d, side, n, end)
  BY Zenon DEF SentUpTo

LEMMA TracksSame ==
    ASSUME NEW t, NEW c, NEW n, NEW m, NEW f, NEW g, Tracks(t, c, n, m, f, g),
           NEW n2, NEW m2, NEW f2, NEW g2, n2 = n, m2 = m, f2 <=> f, g2 <=> g
    PROVE  Tracks(t, c, n2, m2, f2, g2)
  <1>1. SentUpTo(t.client_to_server, c, n, f2) /\ SentUpTo(t.server_to_client, Reversed(c), m, g2)
    BY UpToSame, Zenon DEF Tracks
  <1> QED
    BY <1>1, Zenon DEF Tracks

\* get_data of such a direction, and whether it has any data.
LEMMA UpToData ==
    ASSUME NEW d, NEW side, NEW n \in Nat \union {None}, NEW fin, SentUpTo(d, side, n, fin)
    PROVE  /\ GetData(d) = Bytes(side, 1, n)
           /\ d.data_buffer # << >> <=> n > 0
  <1>1. /\ d.out_of_order = << >>
        /\ d.data_buffer = Bytes(side, 1, n)
    <2>1. CASE n = None
      <3>1. d = NewDirection
        BY <2>1 DEF SentUpTo
      <3>2. Bytes(side, 1, n) = << >>
        <4>1. n - 1 + 1 = -1
          BY <2>1 DEF None
        <4>2. 1 .. n - 1 + 1 = {}
          BY <4>1
        <4> QED
          BY <4>2 DEF Bytes
      <3> QED
        BY <3>1, <3>2 DEF NewDirection
    <2>2. CASE n # None
      BY <2>2 DEF SentUpTo
    <2> QED
      BY <2>1, <2>2
  <1>2. GetData(d) = Bytes(side, 1, n)
    <2>1. CASE d.data_buffer = << >>
      <3> DEFINE held == [i \in DOMAIN d.out_of_order |-> d.out_of_order[i].data]
      <3>1. held = << >>
        BY <1>1
      <3>2. FlattenSeq(<< >>) = << >>
        BY Zenon DEF FlattenSeq
      <3>3. GetData(d) = FlattenSeq(held)
        BY <2>1, Zenon DEF GetData
      <3> QED
        BY <1>1, <2>1, <3>1, <3>2, <3>3
    <2>2. CASE d.data_buffer # << >>
      BY <1>1, <2>2, Zenon DEF GetData
    <2> QED
      BY <2>1, <2>2
  <1>3. Bytes(side, 1, n) # << >> <=> n > 0
    <2>1. DOMAIN Bytes(side, 1, n) = 1 .. n - 1 + 1
      BY DEF Bytes
    <2>2. CASE n > 0
      <3>1. 1 \in 1 .. n - 1 + 1
        BY <2>2 DEF None
      <3>2. DOMAIN << >> = {}
        OBVIOUS
      <3> QED
        BY <2>1, <2>2, <3>1, <3>2
    <2>3. CASE ~(n > 0)
      <3>1. 1 .. n - 1 + 1 = {}
        BY <2>3 DEF None
      <3>2. Bytes(side, 1, n) = << >>
        BY <3>1 DEF Bytes
      <3> QED
        BY <2>3, <3>2
    <2> QED
      BY <2>2, <2>3
  <1> QED
    BY <1>1, <1>2, <1>3

\* What is handed over of a tracker, and when.
LEMMA TracksBuilds ==
    ASSUME NEW t, NEW c, NEW n \in Nat \union {None}, NEW m \in Nat \union {None}, NEW f, NEW g,
           Tracks(t, c, n, m, f, g)
    PROVE  /\ BuildStream(t).flow = c
           /\ BuildStream(t).client_to_server = Bytes(c, 1, n)
           /\ BuildStream(t).server_to_client = Bytes(Reversed(c), 1, m)
           /\ IsComplete(t) <=> f /\ g /\ (n > 0 \/ m > 0)
  <1>1. /\ t.client_flow = c
        /\ SentUpTo(t.client_to_server, c, n, f)
        /\ SentUpTo(t.server_to_client, Reversed(c), m, g)
        /\ t.is_closed <=> f /\ g
    BY Zenon DEF Tracks
  <1>2. /\ GetData(t.client_to_server) = Bytes(c, 1, n) /\ (t.client_to_server.data_buffer # << >> <=> n > 0)
        /\ GetData(t.server_to_client) = Bytes(Reversed(c), 1, m)
        /\ (t.server_to_client.data_buffer # << >> <=> m > 0)
    BY <1>1, UpToData
  <1>3. IsComplete(t) <=> f /\ g /\ (n > 0 \/ m > 0)
    BY <1>1, <1>2, Zenon DEF IsComplete
  <1> QED
    BY <1>1, <1>2, <1>3 DEF BuildStream

LEMMA NewTracks ==
    ASSUME NEW c, NEW f, NEW g, ~f, ~g
    PROVE  Tracks(NewTracker(c), c, None, None, f, g)
  <1>1. /\ NewTracker(c).client_flow = c /\ NewTracker(c).is_closed = FALSE
        /\ NewTracker(c).client_to_server = NewDirection /\ NewTracker(c).server_to_client = NewDirection
    BY DEF NewTracker
  <1>2. SentUpTo(NewDirection, c, None, f) /\ SentUpTo(NewDirection, Reversed(c), None, g)
    BY Zenon DEF SentUpTo
  <1> QED
    BY <1>1, <1>2, Zenon DEF Tracks

\* The packet that the client, or the server, sends next.
LEMMA ClientTracks ==
    ASSUME NEW c \in Flow, NEW t \in FreshTrackers(c), NEW n, NEW m, NEW f, NEW g, Tracks(t, c, n, m, f, g),
           NEW packet, packet.src = c.src, "RST" \notin packet.flags,
           NEW n2, NEW f2, SentUpTo(AddSegment(t.client_to_server, packet), c, n2, f2), f => f2
    PROVE  Tracks(TrackPacket(t, packet), c, n2, m, f2, g)
  <1> DEFINE d == AddSegment(t.client_to_server, packet)
             u == [t EXCEPT !.client_to_server = d]
             closed == \/ u.is_closed
                       \/ u.client_to_server.is_closed /\ u.server_to_client.is_closed
                       \/ "RST" \in packet.flags
             v == [u EXCEPT !.packets_count = @ + 1, !.is_closed = closed]
  <1>1. t.client_flow = c /\ SentUpTo(t.server_to_client, Reversed(c), m, g) /\ (t.is_closed <=> f /\ g)
    BY Zenon DEF Tracks
  <1>2. SentUpTo(d, c, n2, f2)
    OBVIOUS
  <1>3. TrackPacket(t, packet) = v
    <2>1. Directed(t, packet) = u
      BY <1>1, Zenon DEF Directed
    <2>2. Counted(u, packet) = v
      BY Zenon DEF Counted
    <2> QED
      BY <2>1, <2>2, TrackPacketIs, Zenon
  <1> HIDE DEF d
  <1>4. /\ u.client_flow = t.client_flow /\ u.client_to_server = d /\ u.server_to_client = t.server_to_client
        /\ u.is_closed = t.is_closed
        /\ u \in [client_flow : {c}, packets_count : Nat, is_closed : BOOLEAN,
                  client_to_server : {d}, server_to_client : DirectionOver(OwnBytes(Reversed(c)))]
    BY DEF FreshTrackers
  <1> HIDE DEF u
  <1>5. closed <=> f2 /\ g
    <2>1. d.is_closed <=> f2
      BY <1>2, UpToClosed
    <2>2. t.server_to_client.is_closed <=> g
      BY <1>1, UpToClosed
    <2> QED
      BY <1>1, <1>4, <2>1, <2>2, Zenon
  <1> HIDE DEF closed
  <1>6. /\ v.client_flow = u.client_flow /\ v.client_to_server = u.client_to_server
        /\ v.server_to_client = u.server_to_client /\ v.is_closed = closed
    BY <1>4
  <1> HIDE DEF v
  <1>7. SentUpTo(v.client_to_server, c, n2, f2) /\ SentUpTo(v.server_to_client, Reversed(c), m, g)
    BY <1>1, <1>2, <1>4, <1>6, Zenon
  <1>8. v.is_closed <=> f2 /\ g
    BY <1>5, <1>6, Zenon
  <1> QED
    BY <1>1, <1>3, <1>4, <1>6, <1>7, <1>8, Zenon DEF Tracks

LEMMA ServerTracks ==
    ASSUME NEW c \in Flow, NEW t \in FreshTrackers(c), NEW n, NEW m, NEW f, NEW g, Tracks(t, c, n, m, f, g),
           NEW packet, packet.src # c.src, "RST" \notin packet.flags,
           NEW m2, NEW g2, SentUpTo(AddSegment(t.server_to_client, packet), Reversed(c), m2, g2), g => g2
    PROVE  Tracks(TrackPacket(t, packet), c, n, m2, f, g2)
  <1> DEFINE d == AddSegment(t.server_to_client, packet)
             u == [t EXCEPT !.server_to_client = d]
             closed == \/ u.is_closed
                       \/ u.client_to_server.is_closed /\ u.server_to_client.is_closed
                       \/ "RST" \in packet.flags
             v == [u EXCEPT !.packets_count = @ + 1, !.is_closed = closed]
  <1>1. t.client_flow = c /\ SentUpTo(t.client_to_server, c, n, f) /\ (t.is_closed <=> f /\ g)
    BY Zenon DEF Tracks
  <1>2. SentUpTo(d, Reversed(c), m2, g2)
    OBVIOUS
  <1>3. TrackPacket(t, packet) = v
    <2>1. Directed(t, packet) = u
      BY <1>1, Zenon DEF Directed
    <2>2. Counted(u, packet) = v
      BY Zenon DEF Counted
    <2> QED
      BY <2>1, <2>2, TrackPacketIs, Zenon
  <1> HIDE DEF d
  <1>4. /\ u.client_flow = t.client_flow /\ u.client_to_server = t.client_to_server /\ u.server_to_client = d
        /\ u.is_closed = t.is_closed
        /\ u \in [client_flow : {c}, packets_count : Nat, is_closed : BOOLEAN,
                  client_to_server : DirectionOver(OwnBytes(c)), server_to_client : {d}]
    BY DEF FreshTrackers
  <1> HIDE DEF u
  <1>5. closed <=> f /\ g2
    <2>1. d.is_closed <=> g2
      BY <1>2, UpToClosed
    <2>2. t.client_to_server.is_closed <=> f
      BY <1>1, UpToClosed
    <2> QED
      BY <1>1, <1>4, <2>1, <2>2, Zenon
  <1> HIDE DEF closed
  <1>6. /\ v.client_flow = u.client_flow /\ v.client_to_server = u.client_to_server
        /\ v.server_to_client = u.server_to_client /\ v.is_closed = closed
    BY <1>4
  <1> HIDE DEF v
  <1>7. SentUpTo(v.client_to_server, c, n, f) /\ SentUpTo(v.server_to_client, Reversed(c), m2, g2)
    BY <1>1, <1>2, <1>4, <1>6, Zenon
  <1>8. v.is_closed <=> f /\ g2
    BY <1>5, <1>6, Zenon
  <1> QED
    BY <1>1, <1>3, <1>4, <1>6, <1>7, <1>8, Zenon DEF Tracks

-----------------------------------------------------------------------------
\* Conversations differ in their ends.
LEMMA Apart ==
    ASSUME NEW c \in Conversations, NEW d \in Conversations, c # d
    PROVE  /\ c \in Flow /\ c \in Sides /\ Reversed(c) \in Sides
           /\ Normalized(d) # Normalized(c)
           /\ d \notin {c, Reversed(c)} /\ Reversed(d) \notin {c, Reversed(c)}
  <1>1. c \in Flow /\ d \in Flow /\ c \in Sides /\ Reversed(c) \in Sides
    BY TrafficAssumption DEF Sides
  <1>2. Normalized(d) # Normalized(c)
    BY ConversationsAssumption
  <1>3. /\ Normalized(Reversed(c)) = Normalized(c) /\ Normalized(Reversed(d)) = Normalized(d)
    BY <1>1, Ends
  <1> QED
    BY <1>1, <1>2, <1>3

\* A packet of c leads to the tracker u: it stays in the table, or its stream
\* is handed over.
Leads(conn, ss, u, key, conn2, ss2) ==
    \/ /\ ~IsComplete(u)
       /\ conn2 = [k \in DOMAIN conn \union {key} |-> IF k = key THEN u ELSE conn[k]]
       /\ ss2 = ss
    \/ /\ IsComplete(u)
       /\ ss2 = Append(ss, BuildStream(u))
       /\ conn2 = [k \in DOMAIN conn \ {key} |-> conn[k]]

\* What the streams are after one more: those there were, and x.
LEMMA OneMoreStream ==
    ASSUME NEW ss \in Seq(Streams), NEW x \in Streams
    PROVE  /\ DOMAIN Append(ss, x) = DOMAIN ss \union {Len(ss) + 1}
           /\ Len(ss) + 1 \notin DOMAIN ss
           /\ Append(ss, x)[Len(ss) + 1] = x
           /\ \A i \in DOMAIN ss : Append(ss, x)[i] = ss[i]
  <1> DEFINE s2 == Append(ss, x)
             n == Len(ss)
  <1>1. /\ s2 \in Seq(Streams) /\ Len(s2) = n + 1 /\ s2[n + 1] = x /\ n \in Nat
        /\ \A i \in 1 .. n : s2[i] = ss[i]
    BY AppendProperties
  <1>2. DOMAIN ss = 1 .. n /\ DOMAIN s2 = 1 .. Len(s2)
    BY <1>1
  <1> HIDE DEF s2, n
  <1>3. DOMAIN s2 = DOMAIN ss \union {n + 1} /\ n + 1 \notin DOMAIN ss
    BY <1>1, <1>2
  <1> QED
    BY <1>1, <1>2, <1>3 DEF s2, n

\* The stream of a conversation that was not reported yet is reported.
Reports(ss, x, c, sn, ss2) ==
    /\ x.flow = c
    /\ x.client_to_server = Bytes(c, 1, sn[c])
    /\ x.server_to_client = Bytes(Reversed(c), 1, sn[Reversed(c)])
    /\ ss2 = Append(ss, x)

LEMMA ReportOne ==
    ASSUME NEW ss \in Seq(Streams), NEW c \in Conversations, NEW x \in Streams, NEW sn, NEW ss2,
           WholeIn(ss, sn), ~ReportedIn(ss, c), Reports(ss, x, c, sn, ss2)
    PROVE  /\ WholeIn(ss2, sn)
           /\ \A d : ReportedIn(ss2, d) <=> d = c \/ ReportedIn(ss, d)
  <1> DEFINE n == Len(ss) + 1
  <1>1. /\ DOMAIN ss2 = DOMAIN ss \union {n} /\ n \notin DOMAIN ss
        /\ ss2[n] = x
        /\ \A i \in DOMAIN ss : ss2[i] = ss[i]
    BY OneMoreStream DEF Reports
  <1> HIDE DEF n
  <1>2. WholeIn(ss2, sn)
    <2> SUFFICES ASSUME NEW i \in DOMAIN ss2
                 PROVE  /\ ss2[i].flow \in Conversations
                        /\ ss2[i].client_to_server = Bytes(ss2[i].flow, 1, sn[ss2[i].flow])
                        /\ ss2[i].server_to_client = Bytes(Reversed(ss2[i].flow), 1, sn[Reversed(ss2[i].flow)])
      BY Zenon DEF WholeIn
    <2>1. CASE i \in DOMAIN ss
      BY <1>1, <2>1, Zenon DEF WholeIn
    <2>2. CASE i = n
      BY <1>1, <2>2, Zenon DEF Reports
    <2> QED
      BY <1>1, <2>1, <2>2
  <1>4. ASSUME NEW d PROVE ReportedIn(ss2, d) <=> d = c \/ ReportedIn(ss, d)
    BY <1>1 DEF ReportedIn, Reports
  <1> QED
    BY <1>2, <1>4

\* Between sn, fin and sn2, fin2 only the sides of c have sent anything.
OnlySent(sn, fin, sn2, fin2, c) ==
    \A d \in Conversations \ {c} :
       /\ sn2[d] = sn[d] /\ sn2[Reversed(d)] = sn[Reversed(d)]
       /\ d \in fin2 <=> d \in fin
       /\ Reversed(d) \in fin2 <=> Reversed(d) \in fin

LEMMA SendState ==
    ASSUME NEW conn, NEW ss \in Seq(Streams), NEW sn, NEW fin, OrderlyState(conn, ss, TRUE, sn, fin),
           NEW c \in Conversations, ~ReportedIn(ss, c),
           NEW sn2 \in [Sides -> Nat \union {None}], NEW fin2, InTurn(sn2, fin2), sn2[c] # None,
           OnlySent(sn, fin, sn2, fin2, c),
           NEW u \in TrackersOf(c), Tracks(u, c, sn2[c], sn2[Reversed(c)], c \in fin2, Reversed(c) \in fin2),
           NEW conn2, NEW ss2, Leads(conn, ss, u, Normalized(c), conn2, ss2)
    PROVE  OrderlyState(conn2, ss2, TRUE, sn2, fin2)
  <1> DEFINE key == Normalized(c)
             r == Reversed(c)
  <1>1. /\ \A k \in DOMAIN conn : \E d \in Conversations : k = Normalized(d)
        /\ \A d \in Conversations : Placed(conn, ss, sn, fin, d)
        /\ WholeIn(ss, sn) /\ InTime(ss, fin)
    BY Zenon DEF OrderlyState
  <1>2. c \in Flow /\ c \in Sides /\ r \in Sides
    BY TrafficAssumption DEF Sides
  <1>3. sn2[c] \in Nat \union {None} /\ sn2[r] \in Nat \union {None}
    BY <1>2
  <1>4. /\ BuildStream(u).flow = c
        /\ BuildStream(u).client_to_server = Bytes(c, 1, sn2[c])
        /\ BuildStream(u).server_to_client = Bytes(r, 1, sn2[r])
        /\ IsComplete(u) <=> c \in fin2 /\ r \in fin2 /\ (sn2[c] > 0 \/ sn2[r] > 0)
    BY <1>3, TracksBuilds
  <1>5. IsComplete(u) <=> OverIn(fin2, c) /\ SendLen[c] + SendLen[r] > 0
    <2>1. c \in fin2 => sn2[c] = SendLen[c]
      BY Zenon DEF InTurn
    <2>2. r \in fin2 => sn2[r] = SendLen[r]
      BY Zenon DEF InTurn
    <2>3. SendLen[c] \in Nat /\ SendLen[r] \in Nat
      BY <1>2, TrafficAssumption
    <2>4. OverIn(fin2, c) <=> c \in fin2 /\ r \in fin2
      BY DEF OverIn
    <2> QED
      BY <1>4, <2>1, <2>2, <2>3, <2>4
  <1>6. WholeIn(ss, sn2)
    <2> SUFFICES ASSUME NEW i \in DOMAIN ss
                 PROVE  /\ ss[i].flow \in Conversations
                        /\ ss[i].client_to_server = Bytes(ss[i].flow, 1, sn2[ss[i].flow])
                        /\ ss[i].server_to_client = Bytes(Reversed(ss[i].flow), 1, sn2[Reversed(ss[i].flow)])
      BY Zenon DEF WholeIn
    <2>1. ss[i].flow # c
      BY DEF ReportedIn
    <2>2. /\ ss[i].flow \in Conversations
          /\ ss[i].client_to_server = Bytes(ss[i].flow, 1, sn[ss[i].flow])
          /\ ss[i].server_to_client = Bytes(Reversed(ss[i].flow), 1, sn[Reversed(ss[i].flow)])
      BY <1>1, Zenon DEF WholeIn
    <2>3. sn2[ss[i].flow] = sn[ss[i].flow] /\ sn2[Reversed(ss[i].flow)] = sn[Reversed(ss[i].flow)]
      BY <2>1, <2>2 DEF OnlySent
    <2> QED
      BY <2>2, <2>3
  <1>7. ASSUME NEW d \in Conversations, d # c PROVE Placed(conn, ss, sn2, fin2, d)
    <2>1. /\ sn2[d] = sn[d] /\ sn2[Reversed(d)] = sn[Reversed(d)]
          /\ d \in fin2 <=> d \in fin
          /\ Reversed(d) \in fin2 <=> Reversed(d) \in fin
      BY <1>7 DEF OnlySent
    <2>2. Placed(conn, ss, sn, fin, d)
      BY <1>1
    <2>3. ASSUME Tracks(conn[Normalized(d)], d, sn[d], sn[Reversed(d)], d \in fin, Reversed(d) \in fin)
          PROVE  Tracks(conn[Normalized(d)], d, sn2[d], sn2[Reversed(d)], d \in fin2, Reversed(d) \in fin2)
      BY <2>1, <2>3, TracksSame
    <2> QED
      BY <2>1, <2>2, <2>3, Zenon DEF Placed
  <1>8. ASSUME NEW d \in Conversations, d # c
        PROVE  OverIn(fin2, d) <=> OverIn(fin, d)
    BY <1>8 DEF OverIn, OnlySent
  <1>9. \A d \in Conversations : d # c => Normalized(d) # key
    BY Apart
  <1>10. CASE ~IsComplete(u)
    <2>1. ss2 = ss /\ conn2 = [k \in DOMAIN conn \union {key} |-> IF k = key THEN u ELSE conn[k]]
      BY <1>10, Zenon DEF Leads
    <2> HIDE DEF key
    <2>2. /\ DOMAIN conn2 = DOMAIN conn \union {key} /\ conn2[key] = u
          /\ \A k \in DOMAIN conn : k # key => conn2[k] = conn[k]
      BY <2>1
    <2>3. ASSUME NEW k \in DOMAIN conn2 PROVE \E d \in Conversations : k = Normalized(d)
      BY <1>1, <2>2 DEF key
    <2>4. ASSUME NEW d \in Conversations PROVE Placed(conn2, ss2, sn2, fin2, d)
      <3>1. CASE d = c
        <4>1. conn2[Normalized(c)] = u /\ Normalized(c) \in DOMAIN conn2
          BY <2>2 DEF key
        <4> QED
          BY <2>1, <3>1, <4>1, Zenon DEF Placed
      <3>2. CASE d # c
        <4>1. Placed(conn, ss, sn2, fin2, d) /\ Normalized(d) # key
          BY <1>7, <1>9, <3>2
        <4>2. Normalized(d) \in DOMAIN conn2 <=> Normalized(d) \in DOMAIN conn
          BY <2>2, <4>1
        <4>3. Normalized(d) \in DOMAIN conn => conn2[Normalized(d)] = conn[Normalized(d)]
          BY <2>2, <4>1
        <4> QED
          BY <2>1, <4>1, <4>2, <4>3, Zenon DEF Placed
      <3> QED
        BY <3>1, <3>2
    <2>5. InTime(ss2, fin2)
      <3> SUFFICES ASSUME NEW d \in Conversations
                   PROVE  ReportedIn(ss, d) <=> OverIn(fin2, d) /\ SendLen[d] + SendLen[Reversed(d)] > 0
        BY <2>1, Zenon DEF InTime
      <3>1. CASE d = c
        BY <1>5, <1>10, <3>1
      <3>2. CASE d # c
        <4>1. ReportedIn(ss, d) <=> OverIn(fin, d) /\ SendLen[d] + SendLen[Reversed(d)] > 0
          BY <1>1, Zenon DEF InTime
        <4> QED
          BY <1>8, <3>2, <4>1
      <3> QED
        BY <3>1, <3>2
    <2>6. WholeIn(ss2, sn2)
      BY <1>1, <1>6, <2>1
    <2> QED
      BY <2>3, <2>4, <2>5, <2>6, Zenon DEF OrderlyState
  <1>11. CASE IsComplete(u)
    <2>1. ss2 = Append(ss, BuildStream(u)) /\ conn2 = [k \in DOMAIN conn \ {key} |-> conn[k]]
      BY <1>11, Zenon DEF Leads
    <2>2. BuildStream(u) \in Streams
      BY <1>2, BuildType DEF Streams
    <2>3. Reports(ss, BuildStream(u), c, sn2, ss2)
      BY <1>4, <2>1 DEF Reports
    <2>4. /\ WholeIn(ss2, sn2)
          /\ \A d : ReportedIn(ss2, d) <=> d = c \/ ReportedIn(ss, d)
      BY <1>1, <1>6, <2>2, <2>3, ReportOne
    <2> HIDE DEF key
    <2>5. /\ DOMAIN conn2 = DOMAIN conn \ {key}
          /\ \A k \in DOMAIN conn2 : conn2[k] = conn[k]
      BY <2>1
    <2>6. ASSUME NEW k \in DOMAIN conn2 PROVE \E d \in Conversations : k = Normalized(d)
      BY <1>1, <2>5
    <2>7. ASSUME NEW d \in Conversations PROVE Placed(conn2, ss2, sn2, fin2, d)
      <3>1. CASE d = c
        <4>1. Normalized(c) \notin DOMAIN conn2 /\ ReportedIn(ss2, c)
          BY <2>4, <2>5 DEF key
        <4> QED
          BY <3>1, <4>1, Zenon DEF Placed
      <3>2. CASE d # c
        <4>1. Placed(conn, ss, sn2, fin2, d) /\ Normalized(d) # key
          BY <1>7, <1>9, <3>2
        <4>2. Normalized(d) \in DOMAIN conn2 <=> Normalized(d) \in DOMAIN conn
          BY <2>5, <4>1
        <4>3. Normalized(d) \in DOMAIN conn2 => conn2[Normalized(d)] = conn[Normalized(d)]
          BY <2>5
        <4>4. ReportedIn(ss2, d) <=> ReportedIn(ss, d)
          BY <2>4, <3>2
        <4> QED
          BY <4>1, <4>2, <4>3, <4>4, Zenon DEF Placed
      <3> QED
        BY <3>1, <3>2
    <2>8. InTime(ss2, fin2)
      <3> SUFFICES ASSUME NEW d \in Conversations
                   PROVE  ReportedIn(ss2, d) <=> OverIn(fin2, d) /\ SendLen[d] + SendLen[Reversed(d)] > 0
        BY Zenon DEF InTime
      <3>1. CASE d = c
        BY <1>5, <1>11, <2>4, <3>1
      <3>2. CASE d # c
        <4>1. ReportedIn(ss, d) <=> OverIn(fin, d) /\ SendLen[d] + SendLen[Reversed(d)] > 0
          BY <1>1, Zenon DEF InTime
        <4> QED
          BY <1>8, <2>4, <3>2, <4>1
      <3> QED
        BY <3>1, <3>2
    <2> QED
      BY <2>4, <2>6, <2>7, <2>8, Zenon DEF OrderlyState
  <1> QED
    BY <1>10, <1>11

\* The end of the capture: what is in the table is reported too.
LEMMA FinalizeState ==
    ASSUME NEW conn, NEW ss \in Seq(Streams), NEW sn \in [Sides -> Nat \union {None}], NEW fin,
           OrderlyState(conn, ss, FALSE, sn, fin),
           NEW key \in DOMAIN conn, NEW t, t = conn[key], t \in Trackers,
           NEW conn2, NEW ss2, ss2 = Append(ss, BuildStream(t)), conn2 = [k \in DOMAIN conn \ {key} |-> conn[k]]
    PROVE  OrderlyState(conn2, ss2, FALSE, sn, fin)
  <1>1. /\ \A k \in DOMAIN conn : \E d \in Conversations : k = Normalized(d)
        /\ \A d \in Conversations : Placed(conn, ss, sn, fin, d)
        /\ WholeIn(ss, sn) /\ InTurn(sn, fin)
    BY Zenon DEF OrderlyState
  <1>2. PICK c \in Conversations : key = Normalized(c)
    BY <1>1
  <1>3. c \in Flow /\ c \in Sides /\ Reversed(c) \in Sides
    BY TrafficAssumption DEF Sides
  <1>4. /\ ~ReportedIn(ss, c)
        /\ Tracks(t, c, sn[c], sn[Reversed(c)], c \in fin, Reversed(c) \in fin)
    <2>1. Placed(conn, ss, sn, fin, c)
      BY <1>1
    <2> QED
      BY <1>2, <2>1, Zenon DEF Placed
  <1>5. /\ BuildStream(t).flow = c
        /\ BuildStream(t).client_to_server = Bytes(c, 1, sn[c])
        /\ BuildStream(t).server_to_client = Bytes(Reversed(c), 1, sn[Reversed(c)])
    <2>1. sn[c] \in Nat \union {None} /\ sn[Reversed(c)] \in Nat \union {None}
      BY <1>3
    <2> DEFINE n == sn[c]
               m == sn[Reversed(c)]
               f == c \in fin
               g == Reversed(c) \in fin
    <2>2. Tracks(t, c, n, m, f, g) /\ n \in Nat \union {None} /\ m \in Nat \union {None}
      BY <1>4, <2>1
    <2> HIDE DEF f, g, n, m
    <2>3. /\ BuildStream(t).flow = c
          /\ BuildStream(t).client_to_server = Bytes(c, 1, n)
          /\ BuildStream(t).server_to_client = Bytes(Reversed(c), 1, m)
      BY <2>2, TracksBuilds, Zenon
    <2> QED
      BY <2>3 DEF n, m
  <1>6. BuildStream(t) \in Streams
    BY BuildType DEF Streams, Trackers
  <1>7. Reports(ss, BuildStream(t), c, sn, ss2)
    BY <1>5 DEF Reports
  <1>8. /\ WholeIn(ss2, sn)
        /\ \A d : ReportedIn(ss2, d) <=> d = c \/ ReportedIn(ss, d)
    BY <1>1, <1>4, <1>6, <1>7, ReportOne
  <1>9. /\ DOMAIN conn2 = DOMAIN conn \ {key}
        /\ \A k \in DOMAIN conn2 : conn2[k] = conn[k]
    OBVIOUS
  <1>10. ASSUME NEW k \in DOMAIN conn2 PROVE \E d \in Conversations : k = Normalized(d)
    BY <1>1, <1>9
  <1>11. ASSUME NEW d \in Conversations PROVE Placed(conn2, ss2, sn, fin, d)
    <2>1. CASE d = c
      <3>1. Normalized(c) \notin DOMAIN conn2 /\ ReportedIn(ss2, c)
        BY <1>2, <1>8, <1>9
      <3> QED
        BY <2>1, <3>1, Zenon DEF Placed
    <2>2. CASE d # c
      <3>1. Placed(conn, ss, sn, fin, d) /\ Normalized(d) # key
        BY <1>1, <1>2, <2>2, Apart
      <3>2. Normalized(d) \in DOMAIN conn2 <=> Normalized(d) \in DOMAIN conn
        BY <1>9, <3>1
      <3>3. Normalized(d) \in DOMAIN conn2 => conn2[Normalized(d)] = conn[Normalized(d)]
        BY <1>9
      <3>4. ReportedIn(ss2, d) <=> ReportedIn(ss, d)
        BY <1>8, <2>2
      <3> QED
        BY <3>1, <3>2, <3>3, <3>4, Zenon DEF Placed
    <2> QED
      BY <2>1, <2>2
  <1> QED
    BY <1>1, <1>8, <1>10, <1>11, Zenon DEF OrderlyState

-----------------------------------------------------------------------------
LEMMA TwoEnds ==
    ASSUME NEW c \in Conversations
    PROVE  /\ Reversed(c) # c /\ Reversed(c).src # c.src /\ Reversed(Reversed(c)) = c
           /\ Reversed(c) \notin Conversations
           /\ c \in Flow /\ Reversed(c) \in Flow /\ c \in Sides /\ Reversed(c) \in Sides
           /\ Normalized(Reversed(c)) = Normalized(c)
  <1>1. c \in Flow /\ c \in Sides /\ Reversed(c) \in Sides /\ c.src # c.dst
    BY TrafficAssumption, ConversationsAssumption DEF Sides
  <1>2. Reversed(c).src = c.dst
    BY DEF Reversed
  <1>3. Normalized(Reversed(c)) = Normalized(c) /\ Reversed(Reversed(c)) = c /\ Reversed(c) \in Flow
    BY <1>1, Ends
  <1>4. Reversed(c) # c
    BY <1>1, <1>2
  <1>5. Reversed(c) \notin Conversations
    BY <1>3, <1>4, ConversationsAssumption
  <1> QED
    BY <1>1, <1>2, <1>3, <1>4, <1>5

\* One side of c goes on, and may finish.
GoesOn(sn, fin, side, n, sn2, fin2) ==
    /\ sn2 = [sn EXCEPT ![side] = n]
    /\ \/ fin2 = fin
       \/ fin2 = fin \union {side} /\ n = SendLen[side] /\ sn[Reversed(side)] # None

LEMMA InTurnAfter ==
    ASSUME NEW sn \in [Sides -> Nat \union {None}], NEW fin, InTurn(sn, fin),
           NEW c \in Conversations, NEW side \in {c, Reversed(c)}, side \notin fin, side # c => sn[c] # None,
           NEW n \in 0 .. SendLen[side], NEW sn2, NEW fin2, GoesOn(sn, fin, side, n, sn2, fin2)
    PROVE  /\ InTurn(sn2, fin2) /\ OnlySent(sn, fin, sn2, fin2, c)
           /\ sn2[c] # None /\ sn2[side] = n /\ sn2[Reversed(side)] = sn[Reversed(side)]
           /\ sn2 \in [Sides -> Nat \union {None}]
           /\ Reversed(side) \in fin2 <=> Reversed(side) \in fin
  <1>1. /\ Reversed(c) # c /\ Reversed(Reversed(c)) = c /\ c \in Sides /\ Reversed(c) \in Sides
    BY TwoEnds
  <1>2. side \in Sides /\ Reversed(side) \in {c, Reversed(c)} /\ Reversed(side) # side /\ Reversed(Reversed(side)) = side
    BY <1>1
  <1>3. n \in Nat /\ n # None /\ n <= SendLen[side]
    BY <1>2, TrafficAssumption DEF None
  <1>4. /\ sn2 \in [Sides -> Nat \union {None}] /\ sn2[side] = n
        /\ \A x \in Sides : x # side => sn2[x] = sn[x]
    BY <1>2, <1>3 DEF GoesOn
  <1>5. \A x : x # side => (x \in fin2 <=> x \in fin)
    BY DEF GoesOn
  <1>6. ASSUME NEW d \in Conversations, d # c
        PROVE  /\ d \in Sides /\ Reversed(d) \in Sides /\ d # side /\ Reversed(d) # side
    <2>1. d \notin {c, Reversed(c)} /\ Reversed(d) \notin {c, Reversed(c)}
      BY <1>6, Apart
    <2>2. d \in Sides /\ Reversed(d) \in Sides
      BY TwoEnds
    <2> QED
      BY <2>1, <2>2
  <1>7. OnlySent(sn, fin, sn2, fin2, c)
    BY <1>4, <1>5, <1>6 DEF OnlySent
  <1>8. sn2[c] # None
    BY <1>1, <1>3, <1>4
  <1>9. ASSUME NEW d \in Conversations, NEW x \in {d, Reversed(d)}
        PROVE  /\ sn2[x] <= SendLen[x]
               /\ x \in fin2 => sn2[x] = SendLen[x] /\ sn2[Reversed(x)] # None
    <2>1. /\ sn[x] <= SendLen[x]
          /\ x \in fin => sn[x] = SendLen[x] /\ sn[Reversed(x)] # None
      BY Zenon DEF InTurn
    <2>2. x \in Sides /\ Reversed(x) \in Sides
      BY TwoEnds
    <2>3. CASE x = side
      <3>1. x \in fin2 => n = SendLen[x] /\ sn[Reversed(x)] # None
        BY <2>3 DEF GoesOn
      <3>2. sn2[Reversed(x)] = sn[Reversed(x)]
        BY <1>2, <1>4, <2>2, <2>3
      <3> QED
        BY <1>3, <1>4, <2>3, <3>1, <3>2
    <2>4. CASE x # side
      <3>1. sn2[x] = sn[x] /\ (x \in fin2 <=> x \in fin)
        BY <1>4, <1>5, <2>2, <2>4
      <3>2. sn[Reversed(x)] # None => sn2[Reversed(x)] # None
        BY <1>3, <1>4, <2>2
      <3> QED
        BY <2>1, <3>1, <3>2
    <2> QED
      BY <2>3, <2>4
  <1>10. ASSUME NEW d \in Conversations, sn2[Reversed(d)] # None PROVE sn2[d] # None
    <2>1. sn[Reversed(d)] # None => sn[d] # None
      BY DEF InTurn
    <2>2. CASE d = c
      BY <1>8, <2>2
    <2>3. CASE d # c
      BY <1>4, <1>6, <1>10, <2>1, <2>3
    <2> QED
      BY <2>2, <2>3
  <1>11. InTurn(sn2, fin2)
    BY <1>9, <1>10, Zenon DEF InTurn
  <1>12. sn2[Reversed(side)] = sn[Reversed(side)] /\ (Reversed(side) \in fin2 <=> Reversed(side) \in fin)
    BY <1>1, <1>2, <1>4, <1>5
  <1> QED
    BY <1>4, <1>7, <1>8, <1>11, <1>12

\* What the conversation of the next packet is before it.
LEMMA TrackerBefore ==
    ASSUME Typed, OrderlyState(connections, streams, TRUE, sent, finished),
           NEW c \in Conversations, NEW side \in {c, Reversed(c)}, side \notin finished,
           NEW packet, IsPacketOf(packet, side), sent[c] # None \/ (side = c /\ "SYN" \in packet.flags)
    PROVE  /\ ~ReportedIn(streams, c)
           /\ Key(packet) = Normalized(c)
           /\ TrackerFor(packet) \in FreshTrackers(c)
           /\ Tracks(TrackerFor(packet), c, sent[c], sent[Reversed(c)], c \in finished, Reversed(c) \in finished)
  <1>1. /\ Reversed(Reversed(c)) = c /\ c \in Flow /\ Reversed(c) \in Flow
        /\ Normalized(Reversed(c)) = Normalized(c)
    BY TwoEnds
  <1>2. InTurn(sent, finished) /\ Placed(connections, streams, sent, finished, c) /\ InTime(streams, finished)
    BY Zenon DEF OrderlyState
  <1>3. ~ReportedIn(streams, c)
    <2>1. ReportedIn(streams, c) => OverIn(finished, c)
      BY <1>2, Zenon DEF InTime
    <2> QED
      BY <2>1 DEF OverIn
  <1>4. FlowOf(packet) = side /\ Key(packet) = Normalized(c)
    BY <1>1, KeyIs DEF IsPacketOf
  <1> DEFINE key == Key(packet)
             f == c \in finished
             g == Reversed(c) \in finished
  <1>5. CASE key \in DOMAIN connections
    <2>1. TrackerFor(packet) = connections[key]
      BY <1>5 DEF TrackerFor
    <2>2. Tracks(connections[key], c, sent[c], sent[Reversed(c)], f, g)
      BY <1>2, <1>4, <1>5, Zenon DEF Placed
    <2>3. PICK d \in Flow : connections[key] \in TrackersOf(d)
      BY <1>5 DEF Typed, TcpTyped
    <2>4. connections[key].client_flow = d
      BY <2>3 DEF TrackersOf
    <2>5. connections[key].client_flow = c
      BY <2>2, Zenon DEF Tracks
    <2>6. connections[key] \in FreshTrackers(c)
      BY <2>3, <2>4, <2>5 DEF TrackersOf, FreshTrackers
    <2> QED
      BY <1>3, <1>4, <2>1, <2>2, <2>6
  <1>6. CASE key \notin DOMAIN connections
    <2>1. sent[c] = None
      BY <1>2, <1>3, <1>4, <1>6, Zenon DEF Placed
    <2>2. side = c /\ "SYN" \in packet.flags
      BY <2>1
    <2>3. TrackerFor(packet) = NewTracker(c)
      BY <1>4, <1>6, <2>2 DEF TrackerFor
    <2>4. sent[Reversed(c)] = None
      BY <1>2, <2>1 DEF InTurn
    <2>5. ~f
      BY <2>2
    <2>6. ~g
      <3>1. g => sent[Reversed(Reversed(c))] # None
        BY <1>2, Zenon DEF InTurn
      <3> QED
        BY <1>1, <2>1, <3>1
    <2> HIDE DEF f, g
    <2>7. Tracks(NewTracker(c), c, None, None, f, g)
      BY <2>5, <2>6, NewTracks
    <2>8. NewTracker(c) \in FreshTrackers(c)
      <3>1. NewDirection \in DirectionOver(OwnBytes(c)) /\ NewDirection \in DirectionOver(OwnBytes(Reversed(c)))
        BY NewDirectionTyped DEF NewDirectionType
      <3> QED
        BY <3>1 DEF NewTracker, FreshTrackers
    <2> QED
      BY <1>3, <1>4, <2>1, <2>3, <2>4, <2>7, <2>8 DEF f, g
  <1> QED
    BY <1>5, <1>6

\* The packet goes behind the n bytes of its side, and makes them m.
Continues(packet, side, n, m, fin) ==
    \A d \in DirectionOver(OwnBytes(side)) :
       SentUpTo(d, side, n, FALSE) => SentUpTo(AddSegment(d, packet), side, m, fin)

LEMMA SendStep ==
    ASSUME Typed, OrderlyState(connections, streams, TRUE, sent, finished),
           NEW c \in Conversations, NEW side \in {c, Reversed(c)}, side \notin finished,
           NEW packet, IsPacketOf(packet, side), "RST" \notin packet.flags, ProcessPacket(packet),
           sent[c] # None \/ (side = c /\ "SYN" \in packet.flags),
           NEW n \in 0 .. SendLen[side], GoesOn(sent, finished, side, n, sent', finished'),
           Continues(packet, side, sent[side], n, side \in finished')
    PROVE  OrderlyState(connections', streams', TRUE, sent', finished')
  <1> DEFINE t == TrackerFor(packet)
             u == TrackPacket(t, packet)
             r == Reversed(c)
             f == c \in finished
             g == r \in finished
             f2 == c \in finished'
             g2 == r \in finished'
  <1>1. /\ r # c /\ r.src # c.src /\ Reversed(r) = c /\ c \in Flow /\ r \in Flow /\ Normalized(r) = Normalized(c)
    BY TwoEnds
  <1>2. /\ ~ReportedIn(streams, c) /\ Key(packet) = Normalized(c)
        /\ t \in FreshTrackers(c)
        /\ Tracks(t, c, sent[c], sent[r], f, g)
    BY TrackerBefore
  <1>3. InTurn(sent, finished) /\ sent \in [Sides -> Nat \union {None}] /\ streams \in Seq(Streams)
    BY Zenon DEF OrderlyState, Typed, TcpTyped
  <1>4. /\ InTurn(sent', finished') /\ OnlySent(sent, finished, sent', finished', c)
        /\ sent'[c] # None /\ sent'[side] = n /\ sent'[Reversed(side)] = sent[Reversed(side)]
        /\ sent' \in [Sides -> Nat \union {None}]
        /\ Reversed(side) \in finished' <=> Reversed(side) \in finished
    BY <1>3, InTurnAfter
  <1>5. u \in TrackersOf(c)
    BY <1>1, <1>2, TrackType
  <1>6. /\ SentUpTo(t.client_to_server, c, sent[c], f) /\ SentUpTo(t.server_to_client, r, sent[r], g)
        /\ t.client_to_server \in DirectionOver(OwnBytes(c))
        /\ t.server_to_client \in DirectionOver(OwnBytes(r))
    <2>1. /\ SentUpTo(t.client_to_server, c, sent[c], f) /\ SentUpTo(t.server_to_client, r, sent[r], g)
      BY <1>2, Zenon DEF Tracks
    <2> QED
      BY <1>2, <2>1 DEF FreshTrackers
  <1>7. Tracks(u, c, sent'[c], sent'[r], f2, g2)
    <2>1. CASE side = c
      <3>1. packet.src = c.src /\ ~f
        BY <2>1 DEF IsPacketOf
      <3>2. SentUpTo(AddSegment(t.client_to_server, packet), c, n, f2)
        <4>1. SentUpTo(t.client_to_server, c, sent[c], FALSE)
          BY <1>6, <3>1, Zenon DEF SentUpTo
        <4> QED
          BY <1>6, <2>1, <4>1, Zenon DEF Continues
      <3>3. g2 <=> g
        BY <1>4, <2>1
      <3> DEFINE m == sent[r]
                 k == sent[c]
      <3>4. f => f2
        BY <3>1
      <3>5. Tracks(t, c, k, m, f, g)
        BY <1>2
      <3> HIDE DEF t, f, g, f2, g2, m, k
      <3>6. Tracks(TrackPacket(t, packet), c, n, m, f2, g)
        BY <1>2, <1>1, <3>1, <3>2, <3>4, <3>5, ClientTracks
      <3>7. Tracks(TrackPacket(t, packet), c, n, m, f2, g2)
        BY <3>3, <3>6, TracksSame
      <3> QED
        BY <1>4, <2>1, <3>7 DEF m
    <2>2. CASE side = r
      <3>1. packet.src # c.src /\ ~g
        BY <1>1, <2>2 DEF IsPacketOf
      <3>2. SentUpTo(AddSegment(t.server_to_client, packet), r, n, g2)
        <4>1. SentUpTo(t.server_to_client, r, sent[r], FALSE)
          BY <1>6, <3>1, Zenon DEF SentUpTo
        <4> QED
          BY <1>6, <2>2, <4>1, Zenon DEF Continues
      <3>3. f2 <=> f
        BY <1>1, <1>4, <2>2
      <3> DEFINE m == sent[r]
                 k == sent[c]
      <3>4. g => g2
        BY <3>1
      <3>5. Tracks(t, c, k, m, f, g)
        BY <1>2
      <3> HIDE DEF t, f, g, f2, g2, m, k
      <3>6. Tracks(TrackPacket(t, packet), c, k, n, f, g2)
        BY <1>2, <1>1, <3>1, <3>2, <3>4, <3>5, ServerTracks
      <3>7. Tracks(TrackPacket(t, packet), c, k, n, f2, g2)
        BY <3>3, <3>6, TracksSame
      <3> QED
        BY <1>1, <1>4, <2>2, <3>7 DEF k
    <2> QED
      BY <2>1, <2>2
  <1>8. Leads(connections, streams, u, Normalized(c), connections', streams')
    <2>1. CASE KeepTracking(packet)
      BY <1>2, <2>1, Zenon DEF KeepTracking, Leads
    <2>2. CASE CloseConnection(packet)
      BY <1>2, <2>2, Zenon DEF CloseConnection, Without, Leads
    <2> QED
      BY <2>1, <2>2 DEF ProcessPacket
  <1> HIDE DEF u
  <1> QED
    BY <1>2, <1>3, <1>4, <1>5, <1>7, <1>8, SendState

-----------------------------------------------------------------------------
LEMMA SynContinues ==
    ASSUME NEW side \in Sides, NEW flags, "SYN" \in flags, "RST" \notin flags, NEW fin, ~fin
    PROVE  Continues(Packet(side, 0, -1, flags), side, None, 0, fin)
  <1> SUFFICES ASSUME NEW d \in DirectionOver(OwnBytes(side)), SentUpTo(d, side, None, FALSE)
               PROVE  SentUpTo(AddSegment(d, Packet(side, 0, -1, flags)), side, 0, fin)
    BY Zenon DEF Continues
  <1>1. d = NewDirection
    BY Zenon DEF SentUpTo
  <1>2. SentUpTo(AddSegment(NewDirection, Packet(side, 0, -1, flags)), side, 0, FALSE)
    BY SynOpens
  <1> QED
    BY <1>1, <1>2, Zenon DEF SentUpTo

LEMMA DataContinues ==
    ASSUME NEW side \in Sides, NEW n \in Nat, NEW q \in n .. SendLen[side],
           NEW flags, "SYN" \notin flags, "RST" \notin flags, q > n \/ "FIN" \in flags,
           NEW fin, fin <=> "FIN" \in flags
    PROVE  Continues(Packet(side, n + 1, q, flags), side, n, q, fin)
  <1> SUFFICES ASSUME NEW d \in DirectionOver(OwnBytes(side)), SentUpTo(d, side, n, FALSE)
               PROVE  SentUpTo(AddSegment(d, Packet(side, n + 1, q, flags)), side, q, fin)
    BY Zenon DEF Continues
  <1>1. SentUpTo(AddSegment(d, Packet(side, n + 1, q, flags)), side, q, "FIN" \in flags)
    BY DataFollows
  <1> QED
    BY <1>1, Zenon DEF SentUpTo

\* The conversation of a side.
LEMMA SideIs ==
    ASSUME NEW side \in Sides
    PROVE  \E c \in Conversations : side = c \/ side = Reversed(c)
  BY DEF Sides

\* What a step keeps of an orderly capture.
LEMMA SynKeeps ==
    ASSUME Typed, OrderlyState(connections, streams, TRUE, sent, finished), NEW side \in Sides, SendSyn(side)
    PROVE  OrderlyState(connections', streams', TRUE, sent', finished')
  <1> DEFINE flags == IF side \in Conversations THEN {"SYN"} ELSE {"SYN", "ACK"}
             packet == Packet(side, 0, -1, flags)
  <1>1. PICK c \in Conversations : side \in {c, Reversed(c)}
    BY SideIs
  <1>2. Reversed(c) \notin Conversations /\ Reversed(Reversed(c)) = c
    BY TwoEnds
  <1>3. /\ sent[side] = None
        /\ side \notin Conversations => sent[Reversed(side)] # None
        /\ sent' = [sent EXCEPT ![side] = 0]
        /\ Deliver(packet) /\ finished' = finished
    BY Zenon DEF SendSyn, Opened
  <1>4. "SYN" \in flags /\ "RST" \notin flags
    OBVIOUS
  <1>5. side \notin finished
    <2>1. side \in finished => sent[side] = SendLen[side]
      BY <1>1, Zenon DEF OrderlyState, InTurn
    <2>2. SendLen[side] # None
      BY TrafficAssumption DEF None
    <2> QED
      BY <1>3, <2>1, <2>2
  <1> HIDE DEF flags
  <1>6. Continues(packet, side, sent[side], 0, side \in finished')
    <2>1. ~(side \in finished')
      BY <1>3, <1>5
    <2> DEFINE fin == side \in finished'
    <2> HIDE DEF fin
    <2>2. Continues(packet, side, None, 0, fin)
      BY <1>4, <2>1, SynContinues DEF fin
    <2> QED
      BY <1>3, <2>2 DEF fin
  <1>7. packet.flags = flags
    BY DEF Packet
  <1>8. IsPacketOf(packet, side)
    BY PacketIsOf
  <1>9. 0 \in 0 .. SendLen[side] /\ GoesOn(sent, finished, side, 0, sent', finished')
    BY <1>3, TrafficAssumption DEF GoesOn
  <1>10. sent[c] # None \/ (side = c /\ "SYN" \in packet.flags)
    BY <1>1, <1>2, <1>3, <1>4, <1>7
  <1>11. ProcessPacket(packet)
    BY <1>3, Zenon DEF Deliver
  <1> HIDE DEF packet
  <1> QED
    BY <1>1, <1>4, <1>5, <1>6, <1>7, <1>8, <1>9, <1>10, <1>11, SendStep

\* Data or FIN, of a side that both sides' SYNs have opened.
LEMMA SegmentKeeps ==
    ASSUME Typed, OrderlyState(connections, streams, TRUE, sent, finished),
           NEW side \in Sides, Established(side),
           NEW q \in sent[side] .. SendLen[side], NEW flags, "SYN" \notin flags, "RST" \notin flags,
           q > sent[side] \/ "FIN" \in flags,
           sent' = [sent EXCEPT ![side] = q],
           IF "FIN" \in flags THEN finished' = finished \union {side} /\ q = SendLen[side] ELSE finished' = finished,
           Deliver(Packet(side, sent[side] + 1, q, flags))
    PROVE  OrderlyState(connections', streams', TRUE, sent', finished')
  <1> DEFINE packet == Packet(side, sent[side] + 1, q, flags)
             n == sent[side]
             fin == side \in finished'
  <1>1. PICK c \in Conversations : side \in {c, Reversed(c)}
    BY SideIs
  <1>2. Reversed(Reversed(c)) = c /\ Reversed(side) \in Sides
    BY TwoEnds, SidesAreFlows
  <1>3. sent[side] # None /\ sent[Reversed(side)] # None /\ side \notin finished
    BY DEF Established, Opened
  <1>4. n \in Nat /\ SendLen[side] \in Nat
    BY <1>3, TrafficAssumption DEF Typed, None
  <1>5. fin <=> "FIN" \in flags
    BY <1>3
  <1>6. Continues(packet, side, n, q, fin)
    <2> HIDE DEF fin, n
    <2>1. q \in n .. SendLen[side] /\ (q > n \/ "FIN" \in flags)
      BY DEF n
    <2>2. Continues(Packet(side, n + 1, q, flags), side, n, q, fin)
      BY <1>4, <1>5, <2>1, DataContinues
    <2> QED
      BY <2>2 DEF n
  <1>7. packet.flags = flags
    BY DEF Packet
  <1>8. q \in 0 .. SendLen[side] /\ sent[side] + 1 \in Int /\ q \in Int
    BY <1>4
  <1>9. IsPacketOf(packet, side)
    BY <1>8, PacketIsOf
  <1>10. GoesOn(sent, finished, side, q, sent', finished')
    BY <1>3 DEF GoesOn
  <1>11. sent[c] # None
    BY <1>1, <1>2, <1>3
  <1>12. ProcessPacket(packet)
    BY Zenon DEF Deliver
  <1> HIDE DEF packet
  <1>13. "RST" \notin packet.flags /\ (sent[c] # None \/ (side = c /\ "SYN" \in packet.flags))
    BY <1>7, <1>11
  <1> QED
    BY <1>1, <1>3, <1>6, <1>8, <1>9, <1>10, <1>12, <1>13, SendStep

LEMMA SendKeeps ==
    ASSUME Typed, OrderlyState(connections, streams, TRUE, sent, finished), OrderlySend
    PROVE  OrderlyState(connections', streams', TRUE, sent', finished')
  <1>1. PICK side \in Sides : SendSyn(side) \/ SendData(side) \/ SendFin(side)
    BY DEF OrderlySend
  <1>2. SendLen[side] \in Nat /\ sent[side] \in Nat \union {None}
    BY TrafficAssumption DEF Typed
  <1>3. CASE SendSyn(side)
    BY <1>3, SynKeeps
  <1>4. CASE SendData(side)
    <2>1. PICK q \in sent[side] + 1 .. SendLen[side] :
            /\ sent' = [sent EXCEPT ![side] = q]
            /\ Deliver(Packet(side, sent[side] + 1, q, {"ACK"}))
      BY <1>4, Zenon DEF SendData
    <2>2. Established(side) /\ finished' = finished
      BY <1>4, Zenon DEF SendData
    <2>3. q \in sent[side] .. SendLen[side] /\ q > sent[side]
      BY <1>2 DEF None
    <2> DEFINE flags == {"ACK"}
    <2>4. "SYN" \notin flags /\ "RST" \notin flags /\ "FIN" \notin flags
      OBVIOUS
    <2>5. Deliver(Packet(side, sent[side] + 1, q, flags))
      BY <2>1
    <2> HIDE DEF flags
    <2> QED
      BY <2>1, <2>2, <2>3, <2>4, <2>5, SegmentKeeps
  <1>5. CASE SendFin(side)
    <2> DEFINE flags == {"FIN", "ACK"}
               q == SendLen[side]
    <2>1. /\ Established(side) /\ sent' = [sent EXCEPT ![side] = q] /\ finished' = finished \union {side}
          /\ Deliver(Packet(side, sent[side] + 1, q, flags))
      BY <1>5, Zenon DEF SendFin
    <2>2. "SYN" \notin flags /\ "RST" \notin flags /\ "FIN" \in flags
      OBVIOUS
    <2>3. q \in sent[side] .. SendLen[side]
      <3>1. sent[side] <= SendLen[side]
        <4>1. PICK c \in Conversations : side \in {c, Reversed(c)}
          BY SideIs
        <4> QED
          BY <4>1, Zenon DEF OrderlyState, InTurn
      <3> QED
        BY <1>2, <3>1 DEF None
    <2> HIDE DEF flags
    <2> QED
      BY <2>1, <2>2, <2>3, SegmentKeeps
  <1> QED
    BY <1>1, <1>3, <1>4, <1>5

LEMMA FinalizeKeeps ==
    ASSUME Typed, OrderlyState(connections, streams, FALSE, sent, finished), FinalizeConnection
    PROVE  OrderlyState(connections', streams', FALSE, sent, finished)
  <1>1. PICK key \in DOMAIN connections :
          /\ streams' = IF connections[key].packets_count > 0
                        THEN Append(streams, BuildStream(connections[key])) ELSE streams
          /\ connections' = Without(key)
    BY Zenon DEF FinalizeConnection
  <1>2. PICK c \in Flow : connections[key] \in TrackersOf(c)
    BY DEF Typed, TcpTyped
  <1>3. connections[key].packets_count > 0 /\ connections[key] \in Trackers
    BY <1>2 DEF TrackersOf, Trackers
  <1>4. streams' = Append(streams, BuildStream(connections[key]))
    BY <1>1, <1>3
  <1>5. connections' = [k \in DOMAIN connections \ {key} |-> connections[k]]
    BY <1>1, Zenon DEF Without
  <1>6. streams \in Seq(Streams) /\ sent \in [Sides -> Nat \union {None}]
    BY Zenon DEF Typed, TcpTyped
  <1> QED
    BY <1>3, <1>4, <1>5, <1>6, FinalizeState

LEMMA NextOrderly == Typed /\ OrderlyInv /\ [Next]_vars => OrderlyInv'
  <1> SUFFICES ASSUME Typed, OrderlyInv, [Next]_vars, orderly'
               PROVE  OrderlyState(connections', streams', reading', sent', finished')
    BY Zenon DEF OrderlyInv
  <1>1. orderly => OrderlyState(connections, streams, reading, sent, finished)
    BY Zenon DEF OrderlyInv
  <1>2. CASE OrderlySend
    <2>1. orderly /\ reading /\ reading' = reading
      BY <1>2 DEF OrderlySend, SendSyn, SendData, SendFin, Deliver, ProcessPacket
    <2>2. OrderlyState(connections, streams, TRUE, sent, finished)
      BY <1>1, <2>1, Zenon DEF OrderlyState
    <2>3. OrderlyState(connections', streams', TRUE, sent', finished')
      BY <1>2, <2>2, SendKeeps
    <2> QED
      BY <2>3, Zenon DEF OrderlyState
  <1>3. CASE Disorder
    BY <1>3 DEF Disorder, Deliver
  <1>4. CASE Read
    <2>1. /\ orderly /\ reading' = FALSE /\ connections' = connections /\ streams' = streams
          /\ sent' = sent /\ finished' = finished
      BY <1>4 DEF Read, EndOfCapture
    <2>2. OrderlyState(connections, streams, FALSE, sent, finished)
      BY <1>1, <2>1, Zenon DEF OrderlyState
    <2> QED
      BY <2>1, <2>2, Zenon
  <1>5. CASE Finalize
    <2>1. /\ orderly /\ ~reading /\ reading' = reading /\ sent' = sent /\ finished' = finished
          /\ FinalizeConnection
      BY <1>5, Zenon DEF Finalize, FinalizeConnection
    <2>2. OrderlyState(connections, streams, FALSE, sent, finished)
      BY <1>1, <2>1, Zenon DEF OrderlyState
    <2>3. OrderlyState(connections', streams', FALSE, sent, finished)
      BY <2>1, <2>2, FinalizeKeeps
    <2> QED
      BY <2>1, <2>3, Zenon DEF OrderlyState
  <1>6. CASE UNCHANGED vars
    <2>1. /\ orderly /\ reading' = reading /\ connections' = connections /\ streams' = streams
          /\ sent' = sent /\ finished' = finished
      BY <1>6 DEF vars
    <2> QED
      BY <1>1, <2>1, Zenon
  <1> QED
    BY <1>2, <1>3, <1>4, <1>5, <1>6 DEF Next

LEMMA InitOrderly == Init => OrderlyInv
  <1> SUFFICES ASSUME Init PROVE OrderlyState(connections, streams, reading, sent, finished)
    BY Zenon DEF OrderlyInv
  <1>1. /\ DOMAIN connections = {} /\ DOMAIN streams = {} /\ finished = {}
        /\ sent = [side \in Sides |-> None]
    BY DEF Init, TcpInit
  <1>2. ASSUME NEW c \in Conversations
        PROVE  /\ sent[c] = None /\ sent[Reversed(c)] = None
               /\ SendLen[c] \in Nat /\ SendLen[Reversed(c)] \in Nat
    BY <1>1, TwoEnds, TrafficAssumption
  <1>3. InTurn(sent, finished)
    BY <1>1, <1>2 DEF InTurn, None
  <1>4. \A c : ~ReportedIn(streams, c) /\ ~OverIn(finished, c)
    BY <1>1 DEF ReportedIn, OverIn
  <1>5. \A c \in Conversations : Placed(connections, streams, sent, finished, c)
    BY <1>1, <1>2, Zenon DEF Placed
  <1>6. InTime(streams, finished)
    BY <1>4, Zenon DEF InTime
  <1>7. WholeIn(streams, sent)
    BY <1>1 DEF WholeIn
  <1>8. \A key \in DOMAIN connections : \E c \in Conversations : key = Normalized(c)
    BY <1>1
  <1> QED
    BY <1>3, <1>5, <1>6, <1>7, <1>8, Zenon DEF OrderlyState

LEMMA AlwaysOrderly == Spec => []OrderlyInv
  <1>1. Init /\ []Typed /\ [][Next]_vars => []OrderlyInv
    BY InitOrderly, NextOrderly, PTL
  <1> QED
    BY <1>1, AlwaysTyped, SpecNext, PTL

\* Every stream of an orderly capture, of any conversations interleaved in
\* any way, is the conversation of its client and has all that each side has
\* sent, in order (lines 38-148 and 199-221): WholeStreams.
THEOREM WholeStreamsHolds == Spec => []WholeStreams
  <1>1. OrderlyInv => WholeStreams
    BY Zenon DEF OrderlyInv, OrderlyState, WholeIn, WholeStreams
  <1> QED
    BY <1>1, AlwaysOrderly, PTL

\* While an orderly capture is being read, the streams that there are belong
\* to the conversations that both sides have finished, if they have a byte:
\* none is early and none is late (lines 179-190 and 211-220):
\* ReportedWhenFinished.
THEOREM ReportedWhenFinishedHolds == Spec => []ReportedWhenFinished
  <1>1. OrderlyInv => ReportedWhenFinished
    <2> SUFFICES ASSUME OrderlyInv, orderly, reading, NEW c \in Conversations
                 PROVE  IsReported(c) <=> AllFinished(c) /\ SendLen[c] + SendLen[Reversed(c)] > 0
      BY Zenon DEF ReportedWhenFinished
    <2>1. InTime(streams, finished)
      BY Zenon DEF OrderlyInv, OrderlyState
    <2>2. (IsReported(c) <=> ReportedIn(streams, c)) /\ (AllFinished(c) <=> OverIn(finished, c))
      BY Zenon DEF IsReported, ReportedIn, AllFinished, OverIn
    <2> QED
      BY <2>1, <2>2, Zenon DEF InTime
  <1> QED
    BY <1>1, AlwaysOrderly, PTL

-----------------------------------------------------------------------------
\* The sums of PacketsAccounted are folds over sets; f has the sum of w over
\* every subset of S.
Sums(f, w, S) ==
    /\ f[{}] = 0
    /\ \A s \in SUBSET S : s # {} =>
          \E x \in s : f[s] = w[x] + f[s \ {x}] \/ f[s] = f[s \ {x}] + w[x]

LEMMA OneLess ==
    ASSUME NEW S, IsFiniteSet(S), NEW s \in SUBSET S, NEW n \in Nat, Cardinality(s) = n + 1, NEW x \in s
    PROVE  s \ {x} \in SUBSET S /\ Cardinality(s \ {x}) = n
  <1>1. IsFiniteSet(s)
    BY FS_Subset
  <1>2. Cardinality(s \ {x}) = Cardinality(s) - 1
    BY <1>1, FS_RemoveElement
  <1> QED
    BY <1>2

LEMMA SumsType ==
    ASSUME NEW S, IsFiniteSet(S), NEW w, \A x \in S : w[x] \in Int, NEW f, Sums(f, w, S)
    PROVE  \A s \in SUBSET S : f[s] \in Int
  <1> DEFINE P == {n \in Nat : \A s \in SUBSET S : Cardinality(s) = n => f[s] \in Int}
  <1>1. 0 \in P
    <2>1. ASSUME NEW s \in SUBSET S, Cardinality(s) = 0 PROVE f[s] \in Int
      <3>1. s = {}
        BY <2>1, FS_Subset, FS_EmptySet
      <3> QED
        BY <3>1 DEF Sums
    <2> QED
      BY <2>1
  <1>2. ASSUME NEW n \in P PROVE n + 1 \in P
    <2>1. ASSUME NEW s \in SUBSET S, Cardinality(s) = n + 1 PROVE f[s] \in Int
      <3>1. IsFiniteSet(s) /\ s # {}
        BY <2>1, FS_Subset, FS_EmptySet
      <3>2. PICK x \in s : f[s] = w[x] + f[s \ {x}] \/ f[s] = f[s \ {x}] + w[x]
        BY <3>1 DEF Sums
      <3>3. Cardinality(s \ {x}) = n /\ s \ {x} \in SUBSET S
        BY <2>1, OneLess
      <3>4. f[s \ {x}] \in Int
        BY <3>3
      <3> QED
        BY <3>2, <3>4
    <2> QED
      BY <2>1
  <1> HIDE DEF P
  <1>3. P = Nat
    <2>1. P \in SUBSET Nat
      BY DEF P
    <2> QED
      BY <1>1, <1>2, <2>1, Induction
  <1> SUFFICES ASSUME NEW s \in SUBSET S PROVE f[s] \in Int
    OBVIOUS
  <1>4. Cardinality(s) \in P
    BY <1>3, FS_Subset, FS_CardinalityType
  <1> QED
    BY <1>4 DEF P

\* The order of the summands does not matter: each can be the first.
AnyFirst(f, w, S) == \A s \in SUBSET S : \A y \in s : f[s] = w[y] + f[s \ {y}]

LEMMA SumsTake ==
    ASSUME NEW S, IsFiniteSet(S), NEW w, \A x \in S : w[x] \in Int, NEW f, Sums(f, w, S)
    PROVE  AnyFirst(f, w, S)
  <1> DEFINE P == {n \in Nat : \A s \in SUBSET S : Cardinality(s) = n => \A y \in s : f[s] = w[y] + f[s \ {y}]}
  <1>1. \A s \in SUBSET S : f[s] \in Int
    BY SumsType
  <1>2. 0 \in P
    <2>1. ASSUME NEW s \in SUBSET S, Cardinality(s) = 0 PROVE s = {}
      BY <2>1, FS_Subset, FS_EmptySet
    <2> QED
      BY <2>1
  <1>3. ASSUME NEW n \in P PROVE n + 1 \in P
    <2>1. ASSUME NEW s \in SUBSET S, Cardinality(s) = n + 1, NEW y \in s PROVE f[s] = w[y] + f[s \ {y}]
      <3>1. IsFiniteSet(s) /\ s # {}
        BY <2>1, FS_Subset
      <3>2. PICK x \in s : f[s] = w[x] + f[s \ {x}] \/ f[s] = f[s \ {x}] + w[x]
        BY <3>1 DEF Sums
      <3>3. /\ Cardinality(s \ {x}) = n /\ s \ {x} \in SUBSET S
            /\ Cardinality(s \ {y}) = n /\ s \ {y} \in SUBSET S
        BY <2>1, OneLess
      <3>4. f[s \ {x}] \in Int /\ f[s \ {y}] \in Int /\ w[x] \in Int /\ w[y] \in Int
        BY <1>1, <3>3
      <3>5. CASE x = y
        BY <3>2, <3>4, <3>5
      <3>6. CASE x # y
        <4> DEFINE rest == (s \ {x}) \ {y}
        <4>1. rest \in SUBSET S /\ rest = (s \ {y}) \ {x} /\ y \in s \ {x} /\ x \in s \ {y}
          BY <3>6
        <4>2. f[s \ {x}] = w[y] + f[rest]
          BY <3>3, <4>1
        <4>3. f[s \ {y}] = w[x] + f[rest]
          BY <3>3, <4>1
        <4>4. f[rest] \in Int
          BY <1>1, <4>1
        <4> HIDE DEF rest
        <4> QED
          BY <3>2, <3>4, <4>2, <4>3, <4>4
      <3> QED
        BY <3>5, <3>6
    <2> QED
      BY <2>1
  <1> HIDE DEF P
  <1>4. P = Nat
    <2>1. P \in SUBSET Nat
      BY DEF P
    <2> QED
      BY <1>2, <1>3, <2>1, Induction
  <1> SUFFICES ASSUME NEW s \in SUBSET S, NEW y \in s PROVE f[s] = w[y] + f[s \ {y}]
    BY DEF AnyFirst
  <1>5. Cardinality(s) \in P
    BY <1>4, FS_Subset, FS_CardinalityType
  <1> QED
    BY <1>5 DEF P

\* Equal summands have equal sums.
LEMMA SumsSame ==
    ASSUME NEW S, IsFiniteSet(S), NEW w, \A x \in S : w[x] \in Int, NEW f, Sums(f, w, S),
           NEW T, IsFiniteSet(T), NEW v, \A x \in T : v[x] \in Int, NEW g, Sums(g, v, T),
           NEW r, r \subseteq S, r \subseteq T, \A x \in r : w[x] = v[x]
    PROVE  f[r] = g[r]
  <1> DEFINE P == {n \in Nat : \A s \in SUBSET r : Cardinality(s) = n => f[s] = g[s]}
  <1>1. AnyFirst(f, w, S) /\ AnyFirst(g, v, T)
    BY SumsTake
  <1>2. IsFiniteSet(r)
    BY FS_Subset
  <1>3. 0 \in P
    <2>1. ASSUME NEW s \in SUBSET r, Cardinality(s) = 0 PROVE f[s] = g[s]
      <3>1. s = {}
        BY <2>1, FS_Subset, FS_EmptySet
      <3> QED
        BY <3>1 DEF Sums
    <2> QED
      BY <2>1
  <1>4. ASSUME NEW n \in P PROVE n + 1 \in P
    <2>1. ASSUME NEW s \in SUBSET r, Cardinality(s) = n + 1 PROVE f[s] = g[s]
      <3>1. IsFiniteSet(s) /\ s # {} /\ s \in SUBSET S /\ s \in SUBSET T
        BY <2>1, FS_Subset, FS_EmptySet
      <3>2. PICK y : y \in s
        BY <3>1
      <3>3. f[s] = w[y] + f[s \ {y}]
        BY <1>1, <3>1, <3>2 DEF AnyFirst
      <3>4. g[s] = v[y] + g[s \ {y}]
        BY <1>1, <3>1, <3>2 DEF AnyFirst
      <3>5. Cardinality(s \ {y}) = n /\ s \ {y} \in SUBSET r
        BY <1>2, <2>1, <3>2, OneLess
      <3>6. f[s \ {y}] = g[s \ {y}]
        BY <3>5
      <3> QED
        BY <3>2, <3>3, <3>4, <3>6
    <2> QED
      BY <2>1
  <1> HIDE DEF P
  <1>5. P = Nat
    <2>1. P \in SUBSET Nat
      BY DEF P
    <2> QED
      BY <1>3, <1>4, <2>1, Induction
  <1>6. Cardinality(r) \in P
    BY <1>5, FS_Subset, FS_CardinalityType
  <1> QED
    BY <1>6 DEF P

\* The member that a fold takes first.
First(s) == CHOOSE x \in s : TRUE

Summed(f, w, s) == IF s = {} THEN 0 ELSE w[First(s)] + f[s \ {First(s)}]

\* The function of a fold is defined, and adds up integers.
HasSums(w, S) == \E f \in [SUBSET S -> Int] : \A s \in SUBSET S : f[s] = Summed(f, w, s)

LEMMA SumsDefined ==
    ASSUME NEW S, IsFiniteSet(S), NEW w, \A x \in S : w[x] \in Int
    PROVE  HasSums(w, S)
  <1> DEFINE Up(n) == {s \in SUBSET S : Cardinality(s) <= n}
             P == {n \in Nat : \E f \in [SUBSET S -> Int] : \A s \in Up(n) : f[s] = Summed(f, w, s)}
  <1>1. \A s \in SUBSET S : s # {} => First(s) \in s
    BY DEF First
  <1>2. 0 \in P
    <2> DEFINE f == [s \in SUBSET S |-> 0]
    <2>1. ASSUME NEW s \in Up(0) PROVE f[s] = Summed(f, w, s)
      <3>1. s = {}
        <4>1. IsFiniteSet(s) /\ Cardinality(s) <= 0 /\ Cardinality(s) \in Nat
          BY FS_Subset, FS_CardinalityType
        <4>2. Cardinality(s) = 0
          BY <4>1
        <4> QED
          BY <4>1, <4>2, FS_EmptySet
      <3> QED
        BY <3>1 DEF Summed
    <2>2. f \in [SUBSET S -> Int]
      OBVIOUS
    <2> QED
      BY <2>1, <2>2
  <1>3. ASSUME NEW n \in P PROVE n + 1 \in P
    <2>1. PICK f \in [SUBSET S -> Int] : \A s \in Up(n) : f[s] = Summed(f, w, s)
      OBVIOUS
    <2> DEFINE g == [s \in SUBSET S |-> Summed(f, w, s)]
    <2>2. ASSUME NEW s \in SUBSET S PROVE Summed(f, w, s) \in Int
      <3>1. CASE s = {}
        BY <3>1 DEF Summed
      <3>2. CASE s # {}
        <4>1. First(s) \in S /\ s \ {First(s)} \in SUBSET S
          BY <1>1, <3>2
        <4>2. w[First(s)] \in Int /\ f[s \ {First(s)}] \in Int
          BY <4>1
        <4> QED
          BY <3>2, <4>2 DEF Summed
      <3> QED
        BY <3>1, <3>2
    <2>3. g \in [SUBSET S -> Int]
      BY <2>2
    <2>4. \A s \in SUBSET S : g[s] = Summed(f, w, s)
      OBVIOUS
    <2> HIDE DEF g
    <2>5. ASSUME NEW s \in Up(n + 1) PROVE g[s] = Summed(g, w, s)
      <3>1. CASE s = {}
        BY <2>4, <3>1 DEF Summed
      <3>2. CASE s # {}
        <4> DEFINE r == s \ {First(s)}
        <4>1. First(s) \in s /\ r \in SUBSET S
          BY <1>1, <3>2
        <4>2. Cardinality(r) <= n
          <5>1. IsFiniteSet(s)
            BY FS_Subset
          <5>2. Cardinality(r) = Cardinality(s) - 1 /\ Cardinality(s) \in Nat
            BY <4>1, <5>1, FS_RemoveElement, FS_CardinalityType
          <5> QED
            BY <5>2
        <4>3. g[r] = f[r]
          BY <2>1, <2>4, <4>1, <4>2
        <4>4. Summed(g, w, s) = Summed(f, w, s)
          BY <4>3 DEF Summed
        <4> QED
          BY <2>4, <4>4
      <3> QED
        BY <3>1, <3>2
    <2> QED
      BY <2>3, <2>5
  <1> HIDE DEF P
  <1>4. P = Nat
    <2>1. P \in SUBSET Nat
      BY DEF P
    <2> QED
      BY <1>2, <1>3, <2>1, Induction
  <1>5. Cardinality(S) \in P
    BY <1>4, FS_CardinalityType
  <1>6. PICK f \in [SUBSET S -> Int] : \A s \in Up(Cardinality(S)) : f[s] = Summed(f, w, s)
    BY <1>5 DEF P
  <1>7. \A s \in SUBSET S : s \in Up(Cardinality(S))
    BY FS_Subset
  <1> QED
    BY <1>6, <1>7 DEF HasSums

-----------------------------------------------------------------------------
\* The packets of trackers or of streams.
Counts(m) == [k \in DOMAIN m |-> m[k].packets_count]

StreamsTotal(ss) == FoldFunction(LAMBDA s, n : n + s.packets_count, 0, ss)

TableTotal(conn) == MapThenSumSet(LAMBDA key : conn[key].packets_count, DOMAIN conn)

\* The functions of the two folds.
AddingStreams(f, ss, S) ==
    f = [s \in SUBSET S |-> IF s = {} THEN 0
                            ELSE f[s \ {CHOOSE x \in s : TRUE}] + ss[CHOOSE x \in s : TRUE].packets_count]

AddingTrackers(f, conn, S) ==
    f = [s \in SUBSET S |-> IF s = {} THEN 0
                            ELSE conn[CHOOSE x \in s : TRUE].packets_count + f[s \ {CHOOSE x \in s : TRUE}]]

\* t is the total of w over S.
Totals(t, w, S) == \E f : Sums(f, w, S) /\ t = f[S]

LEMMA StreamsTotalIs ==
    ASSUME NEW ss, IsFiniteSet(DOMAIN ss), \A i \in DOMAIN ss : ss[i].packets_count \in Int
    PROVE  Totals(StreamsTotal(ss), Counts(ss), DOMAIN ss)
  <1> DEFINE S == DOMAIN ss
             w == Counts(ss)
             g == CHOOSE f : AddingStreams(f, ss, S)
  <1>1. \A x \in S : w[x] = ss[x].packets_count /\ w[x] \in Int
    BY DEF Counts
  <1>2. \A s \in SUBSET S : s # {} => First(s) \in s
    BY DEF First
  <1> HIDE DEF w
  <1>3. \E f : AddingStreams(f, ss, S)
    <2>0. HasSums(w, S)
      BY <1>1, SumsDefined
    <2>1. PICK f \in [SUBSET S -> Int] : \A s \in SUBSET S : f[s] = Summed(f, w, s)
      BY <2>0 DEF HasSums
    <2>2. ASSUME NEW s \in SUBSET S
          PROVE  f[s] = IF s = {} THEN 0 ELSE f[s \ {First(s)}] + ss[First(s)].packets_count
      <3>1. CASE s = {}
        BY <2>1, <3>1 DEF Summed
      <3>2. CASE s # {}
        <4>1. First(s) \in S /\ s \ {First(s)} \in SUBSET S
          BY <1>2, <3>2
        <4>2. f[s \ {First(s)}] \in Int /\ w[First(s)] \in Int /\ w[First(s)] = ss[First(s)].packets_count
          BY <1>1, <4>1
        <4>3. f[s] = w[First(s)] + f[s \ {First(s)}]
          BY <2>1, <3>2 DEF Summed
        <4> QED
          BY <3>2, <4>2, <4>3
      <3> QED
        BY <3>1, <3>2
    <2>3. f = [s \in SUBSET S |-> IF s = {} THEN 0 ELSE f[s \ {First(s)}] + ss[First(s)].packets_count]
      BY <2>2
    <2>4. AddingStreams(f, ss, S)
      BY <2>3, Zenon DEF AddingStreams, First
    <2> QED
      BY <2>4
  <1>4. AddingStreams(g, ss, S)
    BY <1>3
  <1>5. StreamsTotal(ss) = g[S]
    BY Zenon DEF StreamsTotal, FoldFunction, FoldFunctionOnSet, MapThenFoldSet, AddingStreams
  <1> HIDE DEF g
  <1>6. \A s \in SUBSET S : g[s] = IF s = {} THEN 0 ELSE g[s \ {First(s)}] + ss[First(s)].packets_count
    BY <1>4, Zenon DEF AddingStreams, First
  <1>7. Sums(g, w, S)
    <2>1. g[{}] = 0
      BY <1>6
    <2>2. ASSUME NEW s \in SUBSET S, s # {} PROVE \E x \in s : g[s] = g[s \ {x}] + w[x]
      <3>1. First(s) \in s /\ First(s) \in S
        BY <1>2, <2>2
      <3>2. g[s] = g[s \ {First(s)}] + w[First(s)]
        BY <1>1, <1>6, <2>2, <3>1
      <3> QED
        BY <3>1, <3>2
    <2> QED
      BY <2>1, <2>2 DEF Sums
  <1> QED
    BY <1>5, <1>7 DEF Totals, w

LEMMA TableTotalIs ==
    ASSUME NEW conn, IsFiniteSet(DOMAIN conn), \A k \in DOMAIN conn : conn[k].packets_count \in Int
    PROVE  Totals(TableTotal(conn), Counts(conn), DOMAIN conn)
  <1> DEFINE S == DOMAIN conn
             w == Counts(conn)
             g == CHOOSE f : AddingTrackers(f, conn, S)
  <1>1. \A x \in S : w[x] = conn[x].packets_count /\ w[x] \in Int
    BY DEF Counts
  <1>2. \A s \in SUBSET S : s # {} => First(s) \in s
    BY DEF First
  <1> HIDE DEF w
  <1>3. \E f : AddingTrackers(f, conn, S)
    <2>0. HasSums(w, S)
      BY <1>1, SumsDefined
    <2>1. PICK f \in [SUBSET S -> Int] : \A s \in SUBSET S : f[s] = Summed(f, w, s)
      BY <2>0 DEF HasSums
    <2>2. ASSUME NEW s \in SUBSET S
          PROVE  f[s] = IF s = {} THEN 0 ELSE conn[First(s)].packets_count + f[s \ {First(s)}]
      <3>1. s # {} => First(s) \in S
        BY <1>2
      <3> QED
        BY <1>1, <2>1, <3>1 DEF Summed
    <2>3. f = [s \in SUBSET S |-> IF s = {} THEN 0 ELSE conn[First(s)].packets_count + f[s \ {First(s)}]]
      BY <2>2
    <2>4. AddingTrackers(f, conn, S)
      BY <2>3, Zenon DEF AddingTrackers, First
    <2> QED
      BY <2>4
  <1>4. AddingTrackers(g, conn, S)
    BY <1>3
  <1>5. TableTotal(conn) = g[S]
    BY Zenon DEF TableTotal, MapThenSumSet, MapThenFoldSet, AddingTrackers
  <1> HIDE DEF g
  <1>6. \A s \in SUBSET S : g[s] = IF s = {} THEN 0 ELSE conn[First(s)].packets_count + g[s \ {First(s)}]
    BY <1>4, Zenon DEF AddingTrackers, First
  <1>7. Sums(g, w, S)
    <2>1. g[{}] = 0
      BY <1>6
    <2>2. ASSUME NEW s \in SUBSET S, s # {} PROVE \E x \in s : g[s] = w[x] + g[s \ {x}]
      <3>1. First(s) \in s /\ First(s) \in S
        BY <1>2, <2>2
      <3>2. g[s] = w[First(s)] + g[s \ {First(s)}]
        BY <1>1, <1>6, <2>2, <3>1
      <3> QED
        BY <3>1, <3>2
    <2> QED
      BY <2>1, <2>2 DEF Sums
  <1> QED
    BY <1>5, <1>7 DEF Totals, w

LEMMA TotalIsInt ==
    ASSUME NEW S, IsFiniteSet(S), NEW w, \A x \in S : w[x] \in Int, NEW t, Totals(t, w, S)
    PROVE  t \in Int
  <1>1. PICK f : Sums(f, w, S) /\ t = f[S]
    BY DEF Totals
  <1>2. \A s \in SUBSET S : f[s] \in Int
    BY <1>1, SumsType
  <1> QED
    BY <1>1, <1>2

LEMMA TotalSame ==
    ASSUME NEW S, IsFiniteSet(S), NEW w, \A x \in S : w[x] \in Int, NEW t, Totals(t, w, S),
           NEW v, \A x \in S : v[x] = w[x], NEW u, Totals(u, v, S)
    PROVE  u = t
  <1>1. PICK f : Sums(f, w, S) /\ t = f[S]
    BY DEF Totals
  <1>2. PICK g : Sums(g, v, S) /\ u = g[S]
    BY DEF Totals
  <1>3. f[S] = g[S]
    BY <1>1, <1>2, SumsSame
  <1> QED
    BY <1>1, <1>2, <1>3

\* One summand more.
LEMMA TotalWith ==
    ASSUME NEW S, IsFiniteSet(S), NEW w, \A y \in S : w[y] \in Int, NEW t, Totals(t, w, S),
           NEW x, x \notin S, NEW T, T = S \union {x},
           NEW v, v[x] \in Int, \A y \in S : v[y] = w[y], NEW u, Totals(u, v, T)
    PROVE  u = t + v[x] /\ t \in Int
  <1>1. PICK f : Sums(f, w, S) /\ t = f[S]
    BY DEF Totals
  <1>2. PICK g : Sums(g, v, T) /\ u = g[T]
    BY DEF Totals
  <1>3. IsFiniteSet(T) /\ \A y \in T : v[y] \in Int
    BY FS_AddElement
  <1>4. AnyFirst(g, v, T)
    BY <1>2, <1>3, SumsTake
  <1>5. g[T] = v[x] + g[T \ {x}] /\ T \ {x} = S
    BY <1>4 DEF AnyFirst
  <1>6. g[S] = f[S]
    <2>1. S \subseteq T
      OBVIOUS
    <2> QED
      BY <1>1, <1>2, <1>3, <2>1, SumsSame
  <1>7. t \in Int
    BY TotalIsInt
  <1>8. g[T] = v[x] + g[S]
    BY <1>5, Zenon
  <1>9. u = v[x] + t
    BY <1>1, <1>2, <1>6, <1>8, Zenon
  <1> QED
    BY <1>7, <1>9

\* The packets of the table, and of the rest of it without a key.
Rest(conn, key) == [k \in DOMAIN conn \ {key} |-> conn[k]]

Countable(m) == IsFiniteSet(DOMAIN m) /\ \A k \in DOMAIN m : m[k].packets_count \in Int

LEMMA CountsAre ==
    ASSUME NEW m, Countable(m)
    PROVE  \A k \in DOMAIN m : Counts(m)[k] = m[k].packets_count /\ Counts(m)[k] \in Int
  BY DEF Countable, Counts

LEMMA TableWithout ==
    ASSUME NEW conn, Countable(conn), NEW key
    PROVE  /\ Countable(Rest(conn, key)) /\ TableTotal(Rest(conn, key)) \in Int
           /\ key \in DOMAIN conn
                => TableTotal(conn) = TableTotal(Rest(conn, key)) + conn[key].packets_count
           /\ key \notin DOMAIN conn => TableTotal(conn) = TableTotal(Rest(conn, key))
  <1> DEFINE r == Rest(conn, key)
             S == DOMAIN r
             w == Counts(r)
             v == Counts(conn)
             t == TableTotal(r)
             u == TableTotal(conn)
  <1>1. S = DOMAIN conn \ {key} /\ \A k \in S : r[k] = conn[k]
    BY DEF Rest
  <1>2. IsFiniteSet(S)
    BY <1>1, FS_RemoveElement DEF Countable
  <1>3. Countable(r)
    BY <1>1, <1>2 DEF Countable
  <1> HIDE DEF r
  <1>4. Totals(t, w, S)
    BY <1>3, TableTotalIs DEF Countable
  <1>5. Totals(u, v, DOMAIN conn)
    BY TableTotalIs DEF Countable
  <1>6. \A k \in S : w[k] \in Int /\ v[k] = w[k]
    BY <1>1, <1>3, CountsAre
  <1> HIDE DEF S, w, v, t, u
  <1>7. t \in Int
    BY <1>2, <1>4, <1>6, TotalIsInt
  <1>8. CASE key \in DOMAIN conn
    <2>1. key \notin S /\ DOMAIN conn = S \union {key}
      BY <1>1, <1>8
    <2>2. v[key] = conn[key].packets_count /\ v[key] \in Int
      BY <1>8, CountsAre DEF v
    <2>3. u = t + v[key]
      BY <1>2, <1>4, <1>5, <1>6, <2>1, <2>2, TotalWith
    <2> QED
      BY <1>3, <1>7, <1>8, <2>2, <2>3 DEF r, t, u
  <1>9. CASE key \notin DOMAIN conn
    <2>1. DOMAIN conn = S
      BY <1>1, <1>9
    <2>2. Totals(u, v, S)
      BY <1>5, <2>1
    <2>3. u = t
      BY <1>2, <1>4, <1>6, <2>2, TotalSame
    <2> QED
      BY <1>3, <1>7, <1>9, <2>3 DEF r, t, u
  <1> QED
    BY <1>8, <1>9

\* The tracker of a key is put in its place.
LEMMA TableWith ==
    ASSUME NEW conn, Countable(conn), NEW key, NEW u, u.packets_count \in Int,
           NEW conn2, conn2 = [k \in DOMAIN conn \union {key} |-> IF k = key THEN u ELSE conn[k]]
    PROVE  /\ Countable(conn2)
           /\ TableTotal(conn2) = TableTotal(Rest(conn, key)) + u.packets_count
  <1>1. /\ DOMAIN conn2 = DOMAIN conn \union {key} /\ conn2[key] = u
        /\ \A k \in DOMAIN conn \ {key} : conn2[k] = conn[k]
    OBVIOUS
  <1>2. IsFiniteSet(DOMAIN conn2)
    BY <1>1, FS_AddElement DEF Countable
  <1>3. Countable(conn2)
    BY <1>1, <1>2 DEF Countable
  <1>4. Rest(conn2, key) = Rest(conn, key)
    <2>1. DOMAIN conn2 \ {key} = DOMAIN conn \ {key}
      BY <1>1
    <2> QED
      BY <1>1, <2>1 DEF Rest
  <1>5. TableTotal(conn2) = TableTotal(Rest(conn2, key)) + conn2[key].packets_count
    BY <1>1, <1>3, TableWithout
  <1> QED
    BY <1>1, <1>3, <1>4, <1>5

LEMMA StreamsWith ==
    ASSUME NEW ss \in Seq(Streams), NEW x \in Streams
    PROVE  /\ StreamsTotal(ss) \in Int /\ x.packets_count \in Int
           /\ StreamsTotal(Append(ss, x)) = StreamsTotal(ss) + x.packets_count
  <1> DEFINE s2 == Append(ss, x)
             n == Len(ss) + 1
             t == StreamsTotal(ss)
             u == StreamsTotal(s2)
             w == Counts(ss)
             v == Counts(s2)
             S == DOMAIN ss
             T == DOMAIN s2
  <1>1. \A y \in Streams : y.packets_count \in Int
    BY DEF Streams, StreamsOf
  <1>2. T = S \union {n} /\ n \notin S /\ s2[n] = x /\ \A i \in S : s2[i] = ss[i]
    BY OneMoreStream
  <1>3. Countable(ss)
    <2>1. DOMAIN ss = 1 .. Len(ss) /\ Len(ss) \in Int /\ 1 \in Int
      OBVIOUS
    <2>2. IsFiniteSet(DOMAIN ss)
      BY <2>1, FS_Interval
    <2>3. \A i \in DOMAIN ss : ss[i] \in Streams
      OBVIOUS
    <2> QED
      BY <1>1, <2>2, <2>3 DEF Countable
  <1> HIDE DEF s2, n
  <1>4. Countable(s2)
    <2>1. IsFiniteSet(T)
      BY <1>2, <1>3, FS_AddElement DEF Countable
    <2> QED
      BY <1>1, <1>2, <1>3, <2>1 DEF Countable
  <1>5. Totals(t, w, S) /\ Totals(u, v, T) /\ IsFiniteSet(S)
    BY <1>3, <1>4, StreamsTotalIs DEF Countable
  <1>6. \A i \in S : w[i] \in Int /\ v[i] = w[i]
    BY <1>2, <1>3, <1>4, CountsAre
  <1>7. v[n] = x.packets_count /\ v[n] \in Int
    BY <1>1, <1>2, <1>4, CountsAre
  <1> HIDE DEF S, T, w, v, t, u
  <1>8. u = t + v[n] /\ t \in Int
    BY <1>2, <1>5, <1>6, <1>7, TotalWith
  <1> QED
    BY <1>1, <1>7, <1>8 DEF s2, t, u

-----------------------------------------------------------------------------
\* Every packet is counted once, whichever way its direction goes.
LEMMA TrackCounts ==
    ASSUME NEW c \in Flow, NEW t \in FreshTrackers(c), NEW side \in Flow, Normalized(side) = Normalized(c),
           NEW packet, IsPacketOf(packet, side)
    PROVE  TrackPacket(t, packet).packets_count = t.packets_count + 1
  <1> DEFINE u == Directed(t, packet)
  <1>1. u \in FreshTrackers(c)
    BY DirectedType
  <1>2. u.packets_count = t.packets_count
    <2>1. CASE packet.src = t.client_flow.src
      <3> DEFINE d == AddSegment(t.client_to_server, packet)
      <3>1. u = [t EXCEPT !.client_to_server = d]
        BY <2>1, Zenon DEF Directed
      <3> HIDE DEF u, d
      <3> QED
        BY <3>1 DEF FreshTrackers
    <2>2. CASE packet.src # t.client_flow.src
      <3> DEFINE d == AddSegment(t.server_to_client, packet)
      <3>1. u = [t EXCEPT !.server_to_client = d]
        BY <2>2, Zenon DEF Directed
      <3> HIDE DEF u, d
      <3> QED
        BY <3>1 DEF FreshTrackers
    <2> QED
      BY <2>1, <2>2
  <1> DEFINE closed == \/ u.is_closed
                       \/ u.client_to_server.is_closed /\ u.server_to_client.is_closed
                       \/ "RST" \in packet.flags
             v == [u EXCEPT !.packets_count = u.packets_count + 1, !.is_closed = closed]
  <1>3. TrackPacket(t, packet) = v
    <2>1. Counted(u, packet) = v
      BY DEF Counted
    <2> QED
      BY <2>1, TrackPacketIs, Zenon
  <1> HIDE DEF u, closed
  <1>4. v.packets_count = u.packets_count + 1
    BY <1>1 DEF FreshTrackers
  <1> QED
    BY <1>2, <1>3, <1>4

\* The packets of the tracker that a packet is for.
CountAt(conn, key) == IF key \in DOMAIN conn THEN conn[key].packets_count ELSE 0

Total(conn, ss) == StreamsTotal(ss) + TableTotal(conn)

LEMMA TableIs ==
    ASSUME NEW conn, Countable(conn), NEW key
    PROVE  /\ Countable(Rest(conn, key)) /\ TableTotal(Rest(conn, key)) \in Int /\ CountAt(conn, key) \in Int
           /\ TableTotal(conn) = TableTotal(Rest(conn, key)) + CountAt(conn, key)
  <1>1. /\ Countable(Rest(conn, key)) /\ TableTotal(Rest(conn, key)) \in Int
        /\ key \in DOMAIN conn => TableTotal(conn) = TableTotal(Rest(conn, key)) + conn[key].packets_count
        /\ key \notin DOMAIN conn => TableTotal(conn) = TableTotal(Rest(conn, key))
    BY TableWithout
  <1>2. CASE key \in DOMAIN conn
    <2>1. CountAt(conn, key) = conn[key].packets_count /\ conn[key].packets_count \in Int
      BY <1>2 DEF CountAt, Countable
    <2> QED
      BY <1>1, <1>2, <2>1
  <1>3. CASE key \notin DOMAIN conn
    <2>1. CountAt(conn, key) = 0
      BY <1>3 DEF CountAt
    <2> QED
      BY <1>1, <1>3, <2>1
  <1> QED
    BY <1>2, <1>3

LEMMA ProcessCounts ==
    ASSUME TcpTyped, Countable(connections), NEW side \in Flow, NEW packet, IsPacketOf(packet, side),
           KeepTracking(packet) \/ CloseConnection(packet)
    PROVE  Countable(connections') /\ Total(connections', streams') = Total(connections, streams) + 1
  <1> DEFINE key == Key(packet)
             t == TrackerFor(packet)
             u == TrackPacket(t, packet)
             table == TableTotal(connections)
             rest == TableTotal(Rest(connections, key))
             done == StreamsTotal(streams)
             count == CountAt(connections, key)
  <1>1. PICK c \in Flow : Normalized(c) = Normalized(side) /\ t \in FreshTrackers(c)
    BY TrackerForType
  <1>2. u \in TrackersOf(c)
    BY <1>1, TrackType
  <1>3. t.packets_count = count
    <2>1. CASE key \in DOMAIN connections
      BY <2>1 DEF TrackerFor, CountAt
    <2>2. CASE key \notin DOMAIN connections
      <3>1. \E flow : t = NewTracker(flow)
        BY <2>2 DEF TrackerFor
      <3>2. t.packets_count = 0
        BY <3>1 DEF NewTracker
      <3> QED
        BY <2>2, <3>2 DEF CountAt
    <2> QED
      BY <2>1, <2>2
  <1>4. u.packets_count = count + 1 /\ u.packets_count \in Int
    <2>1. u.packets_count = t.packets_count + 1
      BY <1>1, TrackCounts
    <2>2. u.packets_count \in Int
      BY <1>2 DEF TrackersOf
    <2> QED
      BY <1>3, <2>1, <2>2
  <1>5. /\ Countable(Rest(connections, key)) /\ rest \in Int /\ count \in Int /\ table = rest + count
    BY TableIs
  <1>6. BuildStream(u) \in Streams /\ BuildStream(u).packets_count = u.packets_count
    BY <1>2, BuildType DEF Streams, BuildStream
  <1>7. streams \in Seq(Streams)
    BY DEF TcpTyped
  <1>8. /\ done \in Int
        /\ StreamsTotal(Append(streams, BuildStream(u))) = done + u.packets_count
    BY <1>6, <1>7, StreamsWith
  <1>9. CASE KeepTracking(packet)
    <2>1. /\ connections' = [k \in DOMAIN connections \union {key} |-> IF k = key THEN u ELSE connections[k]]
          /\ streams' = streams
      BY <1>9, Zenon DEF KeepTracking
    <2> HIDE DEF key, t, u
    <2>2. Countable(connections') /\ TableTotal(connections') = rest + u.packets_count
      BY <1>4, <2>1, TableWith
    <2> HIDE DEF rest, done, count, table
    <2>3. Total(connections', streams') = done + (rest + u.packets_count)
      BY <2>1, <2>2 DEF Total, done
    <2>4. Total(connections, streams) = done + table
      BY DEF Total, done, table
    <2> QED
      BY <1>4, <1>5, <1>8, <2>2, <2>3, <2>4
  <1>10. CASE CloseConnection(packet)
    <2>1. streams' = Append(streams, BuildStream(u)) /\ connections' = Rest(connections, key)
      BY <1>10, Zenon DEF CloseConnection, Without, Rest
    <2> HIDE DEF key, t, u
    <2>2. Total(connections', streams') = (done + u.packets_count) + rest
      BY <1>8, <2>1 DEF Total
    <2>3. Total(connections, streams) = done + table
      BY DEF Total
    <2>4. Countable(connections')
      BY <1>5, <2>1
    <2> HIDE DEF rest, done, count, table
    <2> QED
      BY <1>4, <1>5, <1>8, <2>2, <2>3, <2>4
  <1> QED
    BY <1>9, <1>10

LEMMA FinalizeCounts ==
    ASSUME TcpTyped, Countable(connections), FinalizeConnection
    PROVE  Countable(connections') /\ Total(connections', streams') = Total(connections, streams)
  <1>1. PICK key \in DOMAIN connections :
          /\ streams' = IF connections[key].packets_count > 0
                        THEN Append(streams, BuildStream(connections[key])) ELSE streams
          /\ connections' = Without(key)
    BY Zenon DEF FinalizeConnection
  <1> DEFINE u == connections[key]
             table == TableTotal(connections)
             rest == TableTotal(Rest(connections, key))
             done == StreamsTotal(streams)
  <1>2. PICK c \in Flow : u \in TrackersOf(c)
    BY DEF TcpTyped
  <1>3. u.packets_count > 0 /\ u.packets_count \in Int
    BY <1>2 DEF TrackersOf
  <1>4. streams' = Append(streams, BuildStream(u)) /\ connections' = Rest(connections, key)
    BY <1>1, <1>3 DEF Without, Rest
  <1>5. /\ Countable(Rest(connections, key)) /\ rest \in Int
        /\ table = rest + u.packets_count
    BY TableWithout
  <1> HIDE DEF u
  <1>6. BuildStream(u) \in Streams /\ BuildStream(u).packets_count = u.packets_count
    BY <1>2, BuildType DEF Streams, BuildStream
  <1>7. streams \in Seq(Streams)
    BY DEF TcpTyped
  <1>8. done \in Int /\ StreamsTotal(Append(streams, BuildStream(u))) = done + u.packets_count
    BY <1>6, <1>7, StreamsWith
  <1>9. Total(connections', streams') = (done + u.packets_count) + rest
    BY <1>4, <1>8 DEF Total
  <1>10. Total(connections, streams) = done + table
    BY DEF Total
  <1>11. Countable(connections')
    BY <1>4, <1>5
  <1> HIDE DEF rest, done, table
  <1> QED
    BY <1>3, <1>5, <1>8, <1>9, <1>10, <1>11

\* What the packets of a capture add up to.
CountInv == Countable(connections) /\ received = Total(connections, streams)

LEMMA NextCounts == Typed /\ CountInv /\ [Next]_vars => CountInv'
  <1> SUFFICES ASSUME Typed, CountInv, [Next]_vars PROVE CountInv'
    OBVIOUS
  <1>1. TcpTyped /\ Countable(connections) /\ received = Total(connections, streams)
    BY Zenon DEF Typed, CountInv
  <1>2. ASSUME NEW side \in Flow,
               \E packet : IsPacketOf(packet, side) /\ ProcessPacket(packet) /\ received' = received + 1
        PROVE  CountInv'
    <2>1. PICK packet : IsPacketOf(packet, side) /\ ProcessPacket(packet) /\ received' = received + 1
      BY <1>2
    <2>2. KeepTracking(packet) \/ CloseConnection(packet)
      BY <2>1 DEF ProcessPacket
    <2>3. Countable(connections') /\ Total(connections', streams') = Total(connections, streams) + 1
      BY <1>1, <2>1, <2>2, ProcessCounts
    <2> QED
      BY <1>1, <2>1, <2>3, Zenon DEF CountInv
  <1>3. CASE FinalizeConnection /\ UNCHANGED received
    <2>1. Countable(connections') /\ Total(connections', streams') = Total(connections, streams)
      BY <1>1, <1>3, FinalizeCounts
    <2> QED
      BY <1>1, <1>3, <2>1, Zenon DEF CountInv
  <1>4. CASE UNCHANGED <<connections, streams, received>>
    <2>1. connections' = connections /\ streams' = streams /\ received' = received
      BY <1>4
    <2> QED
      BY <1>1, <2>1, Zenon DEF CountInv
  <1>5. CASE UNCHANGED vars
    BY <1>4, <1>5 DEF vars
  <1> QED
    BY <1>2, <1>3, <1>4, <1>5, NextIs

LEMMA InitCounts == Init => CountInv
  <1> SUFFICES ASSUME Init PROVE CountInv
    OBVIOUS
  <1>1. DOMAIN connections = {} /\ DOMAIN streams = {} /\ received = 0
    BY DEF Init, TcpInit
  <1>2. Countable(connections) /\ Countable(streams)
    BY <1>1, FS_EmptySet DEF Countable
  <1>3. /\ Totals(StreamsTotal(streams), Counts(streams), {})
        /\ Totals(TableTotal(connections), Counts(connections), {})
    BY <1>1, <1>2, StreamsTotalIs, TableTotalIs DEF Countable
  <1>4. StreamsTotal(streams) = 0 /\ TableTotal(connections) = 0
    BY <1>3 DEF Totals, Sums
  <1> QED
    BY <1>1, <1>2, <1>4 DEF CountInv, Total

LEMMA CountedAll == CountInv => PacketsAccounted
  BY Zenon DEF CountInv, Total, StreamsTotal, TableTotal, PacketsAccounted

\* Each packet of any capture is counted in exactly one tracker or stream,
\* whatever is closed, reset and begun again in between (lines 127, 177-181,
\* 188 and 223-227): PacketsAccounted.
THEOREM PacketsAccountedHolds == Spec => []PacketsAccounted
  <1>1. Init /\ []Typed /\ [][Next]_vars => []CountInv
    BY InitCounts, NextCounts, PTL
  <1> QED
    BY <1>1, AlwaysTyped, SpecNext, CountedAll, PTL

=============================================================================
