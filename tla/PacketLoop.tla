----------------------------- MODULE PacketLoop -----------------------------
(***************************************************************************)
(* The loop of PcapDecoderEngine.decode_file (pcap_decode/engine.py) over  *)
(* the packets of a file, as far as UDP goes: the decoders that claim a    *)
(* packet, and the gate for what nobody claims.  Every packet that the     *)
(* reader yields passes the defragmenter (see IpTraffic), TCP goes to the  *)
(* reassembler (TcpTraffic).  The file is written block by block as it is  *)
(* read.                                                                   *)
(***************************************************************************)
EXTENDS CaptureReader, DnsDecoder, RawUdpHistory, SequencesExt

CONSTANTS
    Blocks,      \* format -> blocks that a file may have
    MaxBlocks,   \* bound on their number
    BacnetData,  \* payloads that begin with the header of a BACnet/IP message
    Size,        \* payload -> its length
    Asked,       \* DNS payload -> the names it asks for
    Texts        \* DNS payload -> its TXT records, [name, data]

\* The headers of a frame: tags in front of the network's type on an
\* Ethernet link, IPv6 extension headers in front of the transport's.
ProperFrame(frame) ==
    LET network == frame.types[Len(frame.types)] IN
    /\ frame.src \in Endpoint /\ frame.dst \in Endpoint /\ frame.data \in DOMAIN Size
    /\ frame.types \in Seq(STRING) /\ frame.types # << >>
    /\ IF frame.link = Ethernet THEN \A i \in 1 .. Len(frame.types) - 1 : frame.types[i] \in VlanTypes
       ELSE Len(frame.types) = 1
    /\ network \in {"ipv4", "ipv6"} => frame.protos \in Seq(STRING) /\ frame.protos # << >>
    /\ network = "ipv4" => Len(frame.protos) = 1
    /\ network = "ipv6" => \A i \in 1 .. Len(frame.protos) - 1 : frame.protos[i] \in ExtensionHeaders

ASSUME LoopAssumption ==
    /\ {"pcap", "pcapng"} \subseteq DOMAIN Blocks
    /\ Size \in [DOMAIN Size -> Sizes]
    /\ \A format \in {"pcap", "pcapng"} : \A block \in Blocks[format] :
         /\ block.type \in {"record", "enhanced", "simple"} => ProperFrame(block.frame)
         /\ block.type = "enhanced" => block.interface \in Nat

VARIABLES
    file,     \* the blocks that have been read
    packets   \* what the reader yielded

loopVars == <<readerVars, dnsVars, vars, arrivals, file, packets>>

LoopInit ==
    /\ OpenFile /\ DnsInit /\ HistoryInit
    /\ file = << >>
    /\ packets = << >>

HandlesBacnet(packet) == packet.transport = "udp" /\ packet.data \in BacnetData

\* Fault: a decoder that extracts nothing leaves the packet to the gate.
ExtractedFrom(packet) == HandlesDns(packet) /\ packet.data \in DOMAIN Texts /\ Texts[packet.data] # << >>

Claimed(packet) == HandlesDns(packet) \/ HandlesBacnet(packet)

\* What the gate reads of a packet.
Offered(packet) == [src |-> packet.src, dst |-> packet.dst, size |-> Size[packet.data]]

GateUnchanged == UNCHANGED <<vars, arrivals>>

Decode(packet) ==
    /\ IF packet.transport = "udp" /\ HandlesDns(packet) THEN ProcessDns(packet) ELSE UNCHANGED dnsVars
    /\ IF packet.transport = "udp" /\ ~Claimed(packet)
       THEN Offer(Offered(packet))
       ELSE GateUnchanged

Yield(block) ==
    /\ ReadPacket(block)
    /\ packets' = Append(packets, DecodePacket(LinkOf(block), block.frame))
    /\ Decode(DecodePacket(LinkOf(block), block.frame))

LoopNext ==
    /\ reading /\ Len(file) < MaxBlocks
    /\ \E block \in Blocks[header.format] :
         /\ file' = Append(file, block)
         /\ \/ Yield(block)
            \/ /\ ReadInterface(block) \/ SkipBlock(block) \/ StopReading(block)
               /\ UNCHANGED <<dnsVars, packets>> /\ GateUnchanged

LoopSpec == LoopInit /\ [][LoopNext]_loopVars

-----------------------------------------------------------------------------
\* The packets in the file, by their places.
PacketBlocks == {i \in DOMAIN file : file[i].whole /\ file[i].type \in PacketTypes}

\* The interfaces described before a block.
Described(i) == {j \in 1 .. i : file[j].whole /\ file[j].type = "interface"}

\* The link type that the file gives a packet.
GivenLink(i, link) ==
    IF header.format = "pcap" THEN header.link = link
    ELSE LET n == IF file[i].type = "simple" THEN 1 ELSE file[i].interface + 1
         IN  n <= Cardinality(Described(i)) /\ file[Nth(Described(i), n)].link = link

\* A file with one section, in which every packet is of the link type that
\* the file gives it, and of an interface described before it.
Ordinary ==
    /\ \A i \in DOMAIN file : file[i].type # "section"
    /\ \A i \in PacketBlocks : GivenLink(i, file[i].frame.link)

\* What a frame carries: its innermost types say so.
Carried(frame) ==
    LET network == frame.types[Len(frame.types)]
        transport == frame.protos[Len(frame.protos)]
    IN  IF network \in {"ipv4", "ipv6"} /\ transport \in {"tcp", "udp"}
        THEN [transport |-> transport, src |-> frame.src, dst |-> frame.dst, data |-> frame.data,
              padded |-> frame.trailer /\ transport = "tcp" /\ network = "ipv6"]
        ELSE IF network = "ipv4" /\ transport = "icmp" THEN IcmpPacket(frame)
        ELSE NoPacket

\* Every packet of such a file is yielded, in order, with the ports and the
\* payload it was sent with, through any tags and extension headers, and an
\* ICMP message over IPv4 with its payload; only a TCP segment over IPv6 may
\* get more, the bytes behind it in its frame, and what is of another protocol
\* is yielded empty (README.md:10-12).
DecodedAsCaptured ==
    Ordinary => packets = Listing(PacketBlocks, [i \in PacketBlocks |-> Carried(file[i].frame)])

\* The UDP packets that are neither to or from the DNS port nor BACnet by
\* their content, by their places.
Unclaimed ==
    {i \in DOMAIN packets : /\ packets[i].transport = "udp"
                            /\ packets[i].src \notin DnsEndpoint /\ packets[i].dst \notin DnsEndpoint
                            /\ packets[i].data \notin BacnetData}

\* Exactly the unclaimed packets reach the gate, whether or not a decoder
\* extracts anything from the others (engine.py:35-37, README.md:46).
ClaimedNeverCarved == arrivals = Listing(Unclaimed, [i \in Unclaimed |-> Offered(packets[i])])

DnsSent ==
    SelectSeq(packets, LAMBDA p : /\ p.transport = "udp"
                                  /\ {p.src, p.dst} \cap DnsEndpoint # {} /\ p.data \in DOMAIN Message)

\* Every DNS message gives exactly the long enough texts of its TXT records,
\* each with its own name, and its suspicious questions, wherever compression
\* has put the names; of a name that takes as many jumps as the limit, or goes
\* in a circle, what lies before (README.md:23).
DnsAsSent ==
    /\ dns_candidates = FlattenSeq([i \in DOMAIN DnsSent |-> Texts[DnsSent[i].data]])
    /\ suspicious_domains = FlattenSeq([i \in DOMAIN DnsSent |->
            SelectSeq(Asked[DnsSent[i].data], LAMBDA name : name[1] \in Tunnel)])
=============================================================================
