------------------------------- MODULE RawUdp -------------------------------
(***************************************************************************)
(* RawStreamDecoder.parse_udp_packet (pcap_decode/protocols/raw.py): the   *)
(* gate that decides which unclaimed UDP packets become raw candidates of  *)
(* the report.  Three rules are applied in order - a telemetry port, a     *)
(* table of conversations that may be full, a budget per conversation -    *)
(* and what is suppressed is counted by reason.                            *)
(***************************************************************************)
EXTENDS FlowKey, Integers, Sequences, FiniteSets

CONSTANTS
    TelemetryEndpoint,  \* endpoints whose port is in TELEMETRY_UDP_PORTS
    MinPayload,         \* MIN_RAW_UDP_PAYLOAD
    Sizes,              \* payload lengths of the packets
    MaxPerFlow,         \* max_udp_candidates_per_flow
    MaxFlows            \* max_tracked_udp_flows

ASSUME RawUdpAssumption ==
    /\ TelemetryEndpoint \subseteq Endpoint
    /\ MinPayload \in Nat
    /\ Sizes \subseteq Nat
    /\ MaxPerFlow \in Nat \ {0}
    /\ MaxFlows \in Nat

VARIABLES
    udp_flow_counts,         \* normalised flow -> candidates emitted for it
    suppressed_udp_packets,  \* reason -> packets suppressed for it
    raw_candidates,          \* the engine's list: what the gate let through
    carvable                 \* packets offered whose payload is long enough

vars == <<udp_flow_counts, suppressed_udp_packets, raw_candidates, carvable>>

Packet == [src : Endpoint, dst : Endpoint, size : Sizes]

Reason == {"telemetry_port", "flow_table_full", "per_flow_cap"}

Tracked == DOMAIN udp_flow_counts

IsTelemetry(packet) == packet.src \in TelemetryEndpoint \/ packet.dst \in TelemetryEndpoint

\* Fault: a key for each direction.
DirectedConversation(packet) == FlowOf(packet)

Conversation(packet) == Normalized(FlowOf(packet))

-----------------------------------------------------------------------------
Init ==
    /\ udp_flow_counts = << >>
    /\ suppressed_udp_packets = [r \in Reason |-> 0]
    /\ raw_candidates = << >>
    /\ carvable = 0

\* Fault: dropped without a trace once the table is full.
SuppressUncounted(packet, reason) ==
    /\ packet.size >= MinPayload
    /\ suppressed_udp_packets' =
         IF reason = "flow_table_full" THEN suppressed_udp_packets
         ELSE [suppressed_udp_packets EXCEPT ![reason] = @ + 1]
    /\ carvable' = carvable + 1
    /\ UNCHANGED <<udp_flow_counts, raw_candidates>>

Suppress(packet, reason) ==
    /\ packet.size >= MinPayload
    /\ suppressed_udp_packets' = [suppressed_udp_packets EXCEPT ![reason] = @ + 1]
    /\ carvable' = carvable + 1
    /\ UNCHANGED <<udp_flow_counts, raw_candidates>>

Carve(packet, counts) ==
    /\ packet.size >= MinPayload
    /\ udp_flow_counts' = counts
    /\ raw_candidates' = Append(raw_candidates, packet)
    /\ carvable' = carvable + 1
    /\ UNCHANGED suppressed_udp_packets

\* A payload shorter than the minimum is skipped and not counted at all.
SkipShort(packet) == packet.size < MinPayload /\ UNCHANGED vars

SuppressTelemetry(packet) == IsTelemetry(packet) /\ Suppress(packet, "telemetry_port")

\* Fault: the table's limit is tested before the flow is looked up.
SuppressWhenFull(packet) ==
    /\ ~IsTelemetry(packet)
    /\ Cardinality(Tracked) >= MaxFlows
    /\ Suppress(packet, "flow_table_full")

SuppressUntracked(packet) ==
    /\ ~IsTelemetry(packet)
    /\ Conversation(packet) \notin Tracked
    /\ Cardinality(Tracked) >= MaxFlows
    /\ Suppress(packet, "flow_table_full")

\* Fault: one entry too many.
CarveFirstOffByOne(packet) ==
    LET flow == Conversation(packet) IN
    /\ ~IsTelemetry(packet)
    /\ flow \notin Tracked
    /\ Cardinality(Tracked) <= MaxFlows
    /\ Carve(packet, [f \in Tracked \union {flow} |->
                        IF f = flow THEN 1 ELSE udp_flow_counts[f]])

CarveFirst(packet) ==
    LET flow == Conversation(packet) IN
    /\ ~IsTelemetry(packet)
    /\ flow \notin Tracked
    /\ Cardinality(Tracked) < MaxFlows
    /\ Carve(packet, [f \in Tracked \union {flow} |->
                        IF f = flow THEN 1 ELSE udp_flow_counts[f]])

SuppressChatty(packet) ==
    /\ ~IsTelemetry(packet)
    /\ Conversation(packet) \in Tracked
    /\ udp_flow_counts[Conversation(packet)] >= MaxPerFlow
    /\ Suppress(packet, "per_flow_cap")

\* Fault: one candidate too many.
CarveNextOffByOne(packet) ==
    LET flow == Conversation(packet) IN
    /\ ~IsTelemetry(packet)
    /\ flow \in Tracked
    /\ udp_flow_counts[flow] <= MaxPerFlow
    /\ Carve(packet, [udp_flow_counts EXCEPT ![flow] = @ + 1])

CarveNext(packet) ==
    LET flow == Conversation(packet) IN
    /\ ~IsTelemetry(packet)
    /\ flow \in Tracked
    /\ udp_flow_counts[flow] < MaxPerFlow
    /\ Carve(packet, [udp_flow_counts EXCEPT ![flow] = @ + 1])

ParseUdpPacket(packet) ==
    \/ SkipShort(packet)
    \/ SuppressTelemetry(packet)
    \/ SuppressUntracked(packet)
    \/ CarveFirst(packet)
    \/ SuppressChatty(packet)
    \/ CarveNext(packet)

Next == \E packet \in Packet : ParseUdpPacket(packet)

Spec == Init /\ [][Next]_vars

-----------------------------------------------------------------------------
NormalFlow == {flow \in Flow : flow.src <= flow.dst}

TypeOK ==
    /\ Tracked \subseteq NormalFlow
    /\ udp_flow_counts \in [Tracked -> Nat]
    /\ suppressed_udp_packets \in [Reason -> Nat]
    /\ raw_candidates \in Seq(Packet)
    /\ carvable \in Nat

\* The candidates of one conversation, as positions of the engine's list.
CandidatesOf(flow) == {i \in DOMAIN raw_candidates : Conversation(raw_candidates[i]) = flow}

\* No conversation, both of its directions taken together, has more than
\* its budget of candidates in the report (raw.py:27-29, and the test that
\* the cap is shared across both directions).
BudgetPerConversation == \A flow \in Flow : Cardinality(CandidatesOf(flow)) <= MaxPerFlow

\* Suppression is never silent: every packet long enough to be carved is
\* either a candidate or counted under one reason (README.md:47).
NothingSilent ==
    carvable = Len(raw_candidates) + suppressed_udp_packets["telemetry_port"]
                 + suppressed_udp_packets["flow_table_full"]
                 + suppressed_udp_packets["per_flow_cap"]

\* The whole report is bounded by the two limits together, whatever is sent:
\* a scan over many conversations cannot get past the table's limit.
ReportBounded == Len(raw_candidates) <= MaxFlows * MaxPerFlow

\* The table itself stays within its limit (raw.py:31-33).
TableBounded == Cardinality(Tracked) <= MaxFlows
=============================================================================
