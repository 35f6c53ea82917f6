--------------------------- MODULE RawUdpHistory ----------------------------
(***************************************************************************)
(* RawUdp with the history of the packets it was given, so that its        *)
(* decisions, taken one packet at a time, can be compared with a reference *)
(* that looks at the whole capture.                                        *)
(***************************************************************************)
EXTENDS RawUdp, FirstComers

VARIABLE arrivals  \* every packet given to the gate, in order

HistoryInit == Init /\ arrivals = << >>

Offer(packet) == ParseUdpPacket(packet) /\ arrivals' = Append(arrivals, packet)

HistoryNext == \E packet \in Packet : Offer(packet)

HistorySpec == HistoryInit /\ [][HistoryNext]_<<vars, arrivals>>

-----------------------------------------------------------------------------
\* The packets that compete for the table, with their conversations.
Conversations ==
    [i \in {k \in DOMAIN arrivals : arrivals[k].size >= MinPayload /\ ~IsTelemetry(arrivals[k])} |->
        Conversation(arrivals[i])]

\* The candidates are exactly, and in capture order, the first MaxPerFlow
\* long-enough packets of each of the first MaxFlows conversations: neither
\* a full table, nor suppressed packets, nor the other direction ever take
\* a conversation's remaining budget away.
CandidatesAreFirstOfEach ==
    raw_candidates = Listing(FirstOfEach(Conversations, MaxFlows, MaxPerFlow), arrivals)
=============================================================================
