----------------------------- MODULE DnsDecoder -----------------------------
(***************************************************************************)
(* DnsDecoder (pcap_decode/protocols/dns.py).  A message is                *)
(*   questions, answers  how many of each its header says there are        *)
(*   data                a sequence of symbols: a label, the end of a      *)
(*                       name, a pointer to the position of another name,  *)
(*                       the fixed fields of a question or of a record,    *)
(*                       the data of a record.                             *)
(***************************************************************************)
EXTENDS Integers, Sequences

CONSTANTS
    DnsEndpoint,    \* endpoints with port 53
    Label,
    EndOfName,
    Pointer,        \* symbol -> the position it points to
    RecordType,     \* symbol -> the type it gives a record
    MaxJumps,       \* max_jumps
    Message,        \* payload -> the DNS message that it is
    TextSize,       \* text, or what it decodes to -> its length
    Blob,           \* text that decodes as base64 -> what it decodes to
    MinText,        \* shorter data are not extracted
    Tunnel          \* labels that are long and of high entropy

VARIABLES
    dns_candidates,     \* texts extracted, with the name of their record
    suspicious_domains

dnsVars == <<dns_candidates, suspicious_domains>>

HandlesDns(packet) == packet.transport \in {"udp", "tcp"} /\ {packet.src, packet.dst} \cap DnsEndpoint # {}

\* Fault: a pointer ends the name and is not followed.
ParseNameToPointer(data, offset) ==
    LET walk[at \in Nat, visited \in SUBSET Nat, jumps \in Nat] ==
          IF at > Len(data) \/ jumps = 0 \/ at \in visited THEN [labels |-> << >>, next |-> at]
          ELSE IF data[at] \notin Label THEN [labels |-> << >>, next |-> at + 1]
          ELSE LET rest == walk[at + 1, visited \union {at}, jumps]
               IN  [rest EXCEPT !.labels = <<data[at]>> \o @]
    IN  walk[offset, {}, MaxJumps]

\* parse_dns_name: the labels from offset on, and where the name ends, which
\* is behind its first pointer if it has one.
ParseName(data, offset) ==
    LET walk[at \in Nat, visited \in SUBSET Nat, jumps \in Nat] ==
          IF at > Len(data) \/ jumps = 0 \/ at \in visited THEN [labels |-> << >>, next |-> at]
          ELSE IF data[at] = EndOfName THEN [labels |-> << >>, next |-> at + 1]
          ELSE IF data[at] \in Label
               THEN LET rest == walk[at + 1, visited \union {at}, jumps]
                    IN  [rest EXCEPT !.labels = <<data[at]>> \o @]
          ELSE [labels |-> walk[Pointer[data[at]], visited \union {at}, jumps - 1].labels,
                next |-> at + 1]
    IN  walk[offset, {}, MaxJumps]

\* The loop over n questions: their names, and where they end.
Questions(data, n) ==
    LET asked[k \in 0 .. n] ==
          IF k = 0 THEN [names |-> << >>, next |-> 1]
          ELSE LET before == asked[k - 1]
                   name == ParseName(data, before.next)
               IN  IF before.next > Len(data) THEN before
                   ELSE IF name.next > Len(data) THEN [before EXCEPT !.next = name.next]
                   ELSE [names |-> Append(before.names, name.labels), next |-> name.next + 1]
    IN  asked[n]

Decoded(text) == IF text \in DOMAIN Blob THEN Blob[text] ELSE text

\* The loop over n answers from offset on: the texts in them.
Answers(data, offset, n) ==
    LET answered[k \in 0 .. n] ==
          IF k = 0 THEN [texts |-> << >>, next |-> offset]
          ELSE LET before == answered[k - 1]
                   name == ParseName(data, before.next)
                   at == name.next
                   text == Decoded(data[at + 1])
               IN  IF before.next > Len(data) \/ at + 1 > Len(data) THEN before
                   ELSE [texts |-> IF RecordType[data[at]] = "TXT" /\ TextSize[text] >= MinText
                                   THEN Append(before.texts, [name |-> name.labels, data |-> text])
                                   ELSE before.texts,
                         next |-> at + 2]
    IN  answered[n].texts

Suspicious(name) == name # << >> /\ name[1] \in Tunnel

DnsInit == dns_candidates = << >> /\ suspicious_domains = << >>

\* process_packet.
ProcessDns(packet) ==
    LET m == Message[packet.data]
        questions == Questions(m.data, m.questions)
    IN  IF packet.data \in DOMAIN Message
        THEN /\ dns_candidates' = dns_candidates \o Answers(m.data, questions.next, m.answers)
             /\ suspicious_domains' = suspicious_domains \o SelectSeq(questions.names, Suspicious)
        ELSE UNCHANGED dnsVars
=============================================================================
