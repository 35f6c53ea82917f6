--------------------------- MODULE CaptureReader ----------------------------
(***************************************************************************)
(* PcapReader (pcap_decode/pcap_reader.py): the blocks of a pcapng file,   *)
(* or the records of a classic one, and the headers of a frame.  A block   *)
(* says what it is and whether it is whole; a frame has, from outside in,  *)
(*   link    the kind of link it was captured on                           *)
(*   types   the types that the headers of the link and its tags give      *)
(*           what follows                                                  *)
(*   protos  the protocols that the IP header and its extensions give what *)
(*           follows                                                       *)
(*   src, dst, data, trailer                                               *)
(*           the ports and the payload, and whether more bytes follow that *)
(*           IP does not count                                             *)
(***************************************************************************)
EXTENDS Integers, Sequences

VARIABLES
    header,      \* the file's header: its format, and the link type of a classic one
    interfaces,  \* the link types in the interface blocks so far
    reading      \* the loop over the blocks goes on

readerVars == <<header, interfaces, reading>>

Ethernet == "ethernet"
VlanTypes == {"vlan", "qinq"}
ExtensionHeaders == {"hopopt", "route", "frag", "opts"}

FirstNotIn(s, S) ==
    LET others == {i \in DOMAIN s : s[i] \notin S}
    IN  IF others = {} THEN s[Len(s)] ELSE s[CHOOSE i \in others : \A j \in others : i <= j]

\* A header that is read as one of another kind of link gives no type.  The
\* other link types, raw ones among them, begin with the IP header.
EtherType(link, frame) ==
    IF link # frame.link THEN "none"
    ELSE IF link = Ethernet THEN FirstNotIn(frame.types, VlanTypes)
    ELSE frame.types[1]

Protocol(ethertype, frame) ==
    IF ethertype = "ipv6" THEN FirstNotIn(frame.protos, ExtensionHeaders) ELSE frame.protos[1]

NoPacket == [transport |-> "none", src |-> 0, dst |-> 0, data |-> << >>, padded |-> FALSE]

\* A packet without ports: what IPv4 carries of ICMP, its header included.
IcmpPacket(frame) == [NoPacket EXCEPT !.transport = "icmp", !.data = frame.data]

\* _decode_packet.  IPv4 and UDP say how long they are; the length in an
\* IPv6 header is not used.
DecodePacket(link, frame) ==
    LET ethertype == EtherType(link, frame)
        proto == Protocol(ethertype, frame)
    IN  IF ethertype \in {"ipv4", "ipv6"} /\ proto \in {"tcp", "udp"}
        THEN [transport |-> proto, src |-> frame.src, dst |-> frame.dst, data |-> frame.data,
              padded |-> frame.trailer /\ ethertype = "ipv6" /\ proto = "tcp"]
        ELSE IF ethertype = "ipv4" /\ proto = "icmp" THEN IcmpPacket(frame)
        ELSE NoPacket

-----------------------------------------------------------------------------
OpenFile ==
    /\ header \in {[format |-> "pcapng", link |-> "none"]}
                  \union [format : {"pcap"}, link : {Ethernet, "sll"}]
    /\ interfaces = << >>
    /\ reading = TRUE

\* Fault: a block without an interface of its own belongs to the last one.
LinkOfLast(block) ==
    CASE header.format = "pcap" -> header.link
      [] block.type = "simple" /\ interfaces # << >> -> interfaces[Len(interfaces)]
      [] block.type = "enhanced" /\ block.interface < Len(interfaces) -> interfaces[block.interface + 1]
      [] OTHER -> Ethernet

LinkOf(block) ==
    CASE header.format = "pcap" -> header.link
      [] block.type = "simple" /\ interfaces # << >> -> interfaces[1]
      [] block.type = "enhanced" /\ block.interface < Len(interfaces) -> interfaces[block.interface + 1]
      [] OTHER -> Ethernet

PacketTypes == IF header.format = "pcap" THEN {"record"} ELSE {"enhanced", "simple"}

ReadInterface(block) ==
    /\ header.format = "pcapng"
    /\ block.type = "interface" /\ block.whole
    /\ interfaces' = Append(interfaces, block.link)
    /\ UNCHANGED <<header, reading>>

\* A packet block; what it holds is yielded.
ReadPacket(block) ==
    /\ block.type \in PacketTypes /\ block.whole
    /\ UNCHANGED readerVars

\* The header of a further section too.
SkipBlock(block) ==
    /\ header.format = "pcapng"
    /\ block.type \notin PacketTypes \union {"interface"} /\ block.whole
    /\ UNCHANGED readerVars

\* The file ends in the middle of a block.
StopReading(block) ==
    /\ ~block.whole
    /\ reading' = FALSE
    /\ UNCHANGED <<header, interfaces>>
=============================================================================
