---------------------------- MODULE MCPacketLoop ----------------------------
(***************************************************************************)
(* Three ordinary endpoints, one with a telemetry port and one with the    *)
(* DNS port.  Classic files have any packets of three conversations; the   *)
(* files with blocks have two interfaces and few packets.                  *)
(***************************************************************************)
EXTENDS PacketLoop, TLC

MCEndpoint == 1 .. 5
MCTelemetry == {4}
MCDnsEndpoint == {5}
MCSizes == {1, 2}

MCSize == [data \in {"long", "short", "ask", "answer", "cut", "maze", "bvlc"} |-> IF data = "short" THEN 1 ELSE 2]
MCBacnetData == {"bvlc"}

\* Two questions for names with the same end; a tunnel's question and its
\* answer, of which the name is a pointer and then a label and a pointer; an
\* answer that is cut off; and a message whose question points back to
\* itself, and whose answers have a name, then names that end with pointers
\* to the one before, a pointer to a pointer, and one to itself.
MCLabel == {"www", "a", "b", "t", "com"}
MCPointer == [p \in {"->1", "->2", "->5", "->9", "->10", "->13", "->20"} |->
                CASE p = "->1" -> 1 [] p = "->2" -> 2 [] p = "->5" -> 5 [] p = "->9" -> 9
                  [] p = "->10" -> 10 [] p = "->13" -> 13 [] p = "->20" -> 20]
MCRecordType == ("TXT" :> "TXT") @@ ("A" :> "A")
MCTextSize == ("secret" :> 32) @@ ("hidden" :> 40) @@ ("spf" :> 9)
MCBlob == ("encoded" :> "secret") @@ ("word" :> "spf")
MCTunnel == {"t"}

Ask == <<"www", "com", "end", "fixed", "a", "->2", "fixed">>
Answer == <<"t", "com", "end", "fixed", "->1", "TXT", "encoded", "a", "->1", "TXT", "hidden",
            "->2", "A", "spf", "->2", "TXT", "word", "->1", "TXT", "hidden">>
Maze == <<"t", "->1", "fixed",
          "www", "com", "end", "TXT", "hidden",
          "a", "->5", "TXT", "hidden",
          "b", "->9", "TXT", "hidden",
          "->13", "TXT", "hidden",
          "->20", "TXT", "hidden",
          "->10", "TXT", "hidden">>

MCMessage ==
    ("ask" :> [questions |-> 2, answers |-> 0, data |-> Ask])
    @@ ("answer" :> [questions |-> 1, answers |-> 5, data |-> Answer])
    @@ ("cut" :> [questions |-> 1, answers |-> 5, data |-> SubSeq(Answer, 1, 10)])
    @@ ("maze" :> [questions |-> 1, answers |-> 6, data |-> Maze])
MCAsked == ("ask" :> << <<"www", "com">>, <<"a", "com">> >>)
    @@ ("answer" :> << <<"t", "com">> >>)
    @@ ("cut" :> << <<"t", "com">> >>)
    @@ ("maze" :> << <<"t">> >>)
Text(name, data) == [name |-> name, data |-> data]
FirstText == Text(<<"t", "com">>, "secret")
\* The fourth is the third again, but with a third jump, which is one too many.
MazeNames == << <<"www", "com">>, <<"a", "com">>, <<"b", "a", "com">>, <<"b", "a">>, << >>, <<"com">> >>
MCTexts == ("ask" :> << >>)
    @@ ("answer" :> <<FirstText, Text(<<"a", "t", "com">>, "hidden"), Text(<<"t", "com">>, "hidden")>>)
    @@ ("cut" :> <<FirstText>>)
    @@ ("maze" :> [i \in 1 .. Len(MazeNames) |-> Text(MazeNames[i], "hidden")])

Frame(link, types, protos, src, dst, data) ==
    [link |-> link, types |-> types, protos |-> protos, src |-> src, dst |-> dst,
     data |-> data, trailer |-> TRUE]

Udp(src, dst, data) == Frame(Ethernet, <<"ipv4">>, <<"udp">>, src, dst, data)
Tagged == Frame(Ethernet, <<"qinq", "vlan", "ipv6">>, <<"hopopt", "route", "tcp">>, 2, 1, "long")
Echo == Frame(Ethernet, <<"vlan", "ipv4">>, <<"icmp">>, 1, 2, "long")
Echo6 == Frame(Ethernet, <<"ipv6">>, <<"hopopt", "icmp">>, 1, 2, "long")
Cooked == Frame("sll", <<"ipv6">>, <<"frag", "udp">>, 1, 5, "ask")

Record(frame) == [type |-> "record", frame |-> frame, whole |-> TRUE]
Enhanced(n, frame) == [type |-> "enhanced", interface |-> n, frame |-> frame, whole |-> TRUE]

ClassicBlocks ==
    {Record(Udp(e[1], e[2], "long")) : e \in {<<1, 2>>, <<2, 1>>, <<1, 3>>, <<3, 2>>, <<4, 1>>}}
    \union {Record(Udp(1, 2, "short")), Record(Udp(5, 1, "answer")), Record(Udp(5, 2, "maze")), Record(Udp(1, 2, "bvlc")),
            [Record(Udp(1, 2, "long")) EXCEPT !.whole = FALSE]}

NgBlocks ==
    {[type |-> "interface", link |-> l, whole |-> TRUE] : l \in {Ethernet, "sll"}}
    \union {Enhanced(0, Tagged), Enhanced(1, Tagged), Enhanced(0, Echo), Enhanced(0, Echo6), Enhanced(1, Cooked), Enhanced(0, Cooked),
            [type |-> "simple", frame |-> Udp(5, 2, "cut"), whole |-> TRUE],
            [type |-> "section", whole |-> TRUE], [type |-> "other", whole |-> TRUE],
            [Enhanced(0, Tagged) EXCEPT !.whole = FALSE]}

MCBlocks == [pcap |-> ClassicBlocks, pcapng |-> NgBlocks]
=============================================================================
