---------------------------- MODULE PacketLoopProofs --------------------------
(***************************************************************************)
(* Proofs about RawUdp, its history and the loop that feeds it, for every  *)
(* set of endpoints, every list of telemetry ports, every value of the two *)
(* limits and every file.  First the bounds of the gate; then that the     *)
(* gate, which decides one packet at a time from a table of counts, carves *)
(* the first packets of the first conversations of the whole capture: the  *)
(* table is what the history says it should be.  Last the loop: what is    *)
(* yielded is what the file holds, what reaches the gate is what nobody    *)
(* claims, and so all that holds of the gate holds of it in the loop.      *)
(***************************************************************************)
EXTENDS PacketLoop, OperatorProofs

\* What the invariants rest on: the table holds, for each conversation, the
\* number of candidates the report has from it, and never more than the
\* budget.  Without the equality the table's bound would say nothing about
\* the report.
CountsMatchReport ==
    /\ IsFiniteSet(Tracked)
    /\ Cardinality(Tracked) <= MaxFlows
    /\ \A flow \in Tracked : udp_flow_counts[flow] \in 1 .. MaxPerFlow
    /\ \A flow \in Flow :
         /\ IsFiniteSet(CandidatesOf(flow))
         /\ flow \in Tracked => Cardinality(CandidatesOf(flow)) = udp_flow_counts[flow]
         /\ flow \notin Tracked => CandidatesOf(flow) = {}

IInv == TypeOK /\ CountsMatchReport /\ NothingSilent

-----------------------------------------------------------------------------
\* A conversation is a flow, and a normal one.
LEMMA ConversationIsNormal ==
    ASSUME NEW packet \in Packet
    PROVE  Conversation(packet) \in NormalFlow
  <1> DEFINE flow == FlowOf(packet)
  <1>1. flow \in Flow /\ flow.src \in Nat /\ flow.dst \in Nat
    BY EndpointAssumption DEF Packet, Flow, FlowOf
  <1>2. Reversed(flow) \in Flow /\ Reversed(flow).src = flow.dst /\ Reversed(flow).dst = flow.src
    BY <1>1 DEF Flow, Reversed
  <1> HIDE DEF flow
  <1>3. Normalized(flow) \in NormalFlow
    BY <1>1, <1>2 DEF Normalized, NormalFlow
  <1> QED
    BY <1>3 DEF Conversation, flow

LEMMA NormalFlowIsFlow == NormalFlow \subseteq Flow
  BY DEF NormalFlow

\* Appending a candidate adds its position to its own conversation's
\* candidates and changes those of no other.
LEMMA AppendCandidate ==
    ASSUME TypeOK, NEW packet \in Packet, NEW flow \in Flow,
           raw_candidates' = Append(raw_candidates, packet)
    PROVE  CandidatesOf(flow)' =
             IF Conversation(packet) = flow
               THEN CandidatesOf(flow) \union {Len(raw_candidates) + 1}
               ELSE CandidatesOf(flow)
  <1>1. raw_candidates \in Seq(Packet)
    BY DEF TypeOK
  <1>2. /\ DOMAIN raw_candidates = 1 .. Len(raw_candidates)
        /\ DOMAIN raw_candidates' = 1 .. (Len(raw_candidates) + 1)
        /\ Len(raw_candidates) \in Nat
    BY <1>1
  <1>3. /\ \A i \in 1 .. Len(raw_candidates) : raw_candidates'[i] = raw_candidates[i]
        /\ raw_candidates'[Len(raw_candidates) + 1] = packet
    BY <1>1
  <1>4. 1 .. (Len(raw_candidates) + 1) = (1 .. Len(raw_candidates)) \union {Len(raw_candidates) + 1}
    BY <1>2
  <1> QED
    BY <1>2, <1>3, <1>4 DEF CandidatesOf, Conversation

\* The position that Append adds is new.
LEMMA NewPosition ==
    ASSUME TypeOK, NEW flow \in Flow
    PROVE  Len(raw_candidates) + 1 \notin CandidatesOf(flow)
  <1>1. DOMAIN raw_candidates = 1 .. Len(raw_candidates) /\ Len(raw_candidates) \in Nat
    BY DEF TypeOK
  <1> QED
    BY <1>1 DEF CandidatesOf

-----------------------------------------------------------------------------
LEMMA InitIInv == Init => IInv
  <1> SUFFICES ASSUME Init PROVE IInv
    OBVIOUS
  <1>1. Tracked = {} /\ raw_candidates = << >>
    BY DEF Init, Tracked
  <1>2. TypeOK
    BY <1>1 DEF Init, TypeOK, Tracked
  <1>3. \A flow \in Flow : CandidatesOf(flow) = {}
    BY <1>1 DEF CandidatesOf
  <1>4. CountsMatchReport
    BY <1>1, <1>3, FS_EmptySet, RawUdpAssumption DEF CountsMatchReport
  <1>5. NothingSilent
    BY DEF Init, NothingSilent, Reason
  <1> QED
    BY <1>2, <1>4, <1>5 DEF IInv

-----------------------------------------------------------------------------
\* Suppressing changes one counter: the report and the table stay.
LEMMA SuppressIInv ==
    ASSUME IInv, NEW packet \in Packet, NEW reason \in Reason, Suppress(packet, reason)
    PROVE  IInv'
  <1>1. TypeOK'
    BY DEF IInv, TypeOK, Suppress, Tracked
  <1>2. CountsMatchReport'
    BY DEF IInv, CountsMatchReport, Suppress, Tracked, CandidatesOf
  <1>3. NothingSilent'
    BY DEF IInv, NothingSilent, TypeOK, Suppress, Reason
  <1> QED
    BY <1>1, <1>2, <1>3 DEF IInv

\* Carving a packet of a conversation the table admits, within its budget.
LEMMA CarveIInv ==
    ASSUME IInv, NEW packet \in Packet, Carve(packet, udp_flow_counts'),
           Tracked' = Tracked \union {Conversation(packet)},
           udp_flow_counts' \in [Tracked' -> Nat],
           Cardinality(Tracked') <= MaxFlows,
           \A f \in Tracked \ {Conversation(packet)} : udp_flow_counts'[f] = udp_flow_counts[f],
           udp_flow_counts'[Conversation(packet)] =
             IF Conversation(packet) \in Tracked THEN udp_flow_counts[Conversation(packet)] + 1
                                                 ELSE 1,
           udp_flow_counts'[Conversation(packet)] <= MaxPerFlow
    PROVE  IInv'
  <1> DEFINE flow == Conversation(packet)
  <1>1. flow \in Flow
    BY ConversationIsNormal, NormalFlowIsFlow
  <1>2. /\ raw_candidates' = Append(raw_candidates, packet)
        /\ suppressed_udp_packets' = suppressed_udp_packets
        /\ carvable' = carvable + 1
    BY DEF Carve
  <1>3. /\ TypeOK
        /\ CountsMatchReport
        /\ NothingSilent
    BY DEF IInv
  <1>4. TypeOK'
    <2>1. Tracked' \subseteq NormalFlow
      BY <1>3, ConversationIsNormal DEF TypeOK
    <2>2. raw_candidates' \in Seq(Packet)
      BY <1>2, <1>3 DEF TypeOK
    <2>3. suppressed_udp_packets' \in [Reason -> Nat] /\ carvable' \in Nat
      BY <1>2, <1>3 DEF TypeOK
    <2> QED
      BY <2>1, <2>2, <2>3 DEF TypeOK
  <1>5. IsFiniteSet(Tracked')
    BY <1>3, FS_AddElement DEF CountsMatchReport
  <1>6. \A f \in Tracked' : udp_flow_counts'[f] \in 1 .. MaxPerFlow
    <2>1. flow \in Tracked => udp_flow_counts[flow] \in 1 .. MaxPerFlow
      BY <1>3 DEF CountsMatchReport
    <2>2. udp_flow_counts'[flow] \in 1 .. MaxPerFlow
      BY <2>1, RawUdpAssumption
    <2>3. \A f \in Tracked \ {flow} : udp_flow_counts'[f] \in 1 .. MaxPerFlow
      BY <1>3 DEF CountsMatchReport
    <2> QED
      BY <2>2, <2>3
  <1>7. ASSUME NEW f \in Flow
        PROVE  /\ IsFiniteSet(CandidatesOf(f)')
               /\ f \in Tracked' => Cardinality(CandidatesOf(f)') = udp_flow_counts'[f]
               /\ f \notin Tracked' => CandidatesOf(f)' = {}
    <2>1. /\ IsFiniteSet(CandidatesOf(f))
          /\ f \in Tracked => Cardinality(CandidatesOf(f)) = udp_flow_counts[f]
          /\ f \notin Tracked => CandidatesOf(f) = {}
      BY <1>3 DEF CountsMatchReport
    <2>2. CandidatesOf(f)' = IF flow = f THEN CandidatesOf(f) \union {Len(raw_candidates) + 1}
                                         ELSE CandidatesOf(f)
      BY <1>2, <1>3, AppendCandidate
    <2>3. CASE f = flow
      <3> DEFINE position == Len(raw_candidates) + 1
      <3>1. position \notin CandidatesOf(f)
        BY <1>3, NewPosition
      <3>2. CandidatesOf(f)' = CandidatesOf(f) \union {position}
        BY <2>2, <2>3
      <3> HIDE DEF position
      <3>3. /\ IsFiniteSet(CandidatesOf(f) \union {position})
            /\ Cardinality(CandidatesOf(f) \union {position}) = Cardinality(CandidatesOf(f)) + 1
        BY <2>1, <3>1, FS_AddElement
      <3>4. f \notin Tracked => Cardinality(CandidatesOf(f)) = 0
        BY <2>1, FS_EmptySet
      <3>5. f \in Tracked' /\ udp_flow_counts'[f] = Cardinality(CandidatesOf(f)) + 1
        BY <2>1, <2>3, <3>4
      <3> QED
        BY <3>2, <3>3, <3>5
    <2>4. CASE f # flow
      BY <2>1, <2>2, <2>4
    <2> QED
      BY <2>3, <2>4
  <1>8. NothingSilent'
    <2> DEFINE suppressed == suppressed_udp_packets["telemetry_port"]
                               + suppressed_udp_packets["flow_table_full"]
                               + suppressed_udp_packets["per_flow_cap"]
    <2>1. /\ suppressed_udp_packets["telemetry_port"] \in Nat
          /\ suppressed_udp_packets["flow_table_full"] \in Nat
          /\ suppressed_udp_packets["per_flow_cap"] \in Nat
      BY <1>3 DEF TypeOK, Reason
    <2>2. Len(raw_candidates') = Len(raw_candidates) + 1 /\ Len(raw_candidates) \in Nat
      BY <1>2, <1>3 DEF TypeOK
    <2>3. carvable = Len(raw_candidates) + suppressed
      BY <1>3, <2>1, <2>2 DEF NothingSilent
    <2>4. suppressed' = suppressed /\ suppressed \in Nat
      BY <1>2, <2>1
    <2> HIDE DEF suppressed
    <2>5. carvable' = Len(raw_candidates') + suppressed'
      BY <1>2, <2>2, <2>3, <2>4
    <2>6. Len(raw_candidates') \in Nat /\ suppressed' = suppressed
      BY <2>2, <2>4
    <2> USE DEF suppressed
    <2> QED
      BY <1>2, <2>1, <2>5, <2>6 DEF NothingSilent
  <1>9. CountsMatchReport'
    BY <1>5, <1>6, <1>7 DEF CountsMatchReport
  <1> QED
    BY <1>4, <1>8, <1>9 DEF IInv

\* Each branch of the gate preserves the invariant; so does stuttering.
LEMMA NextIInv == IInv /\ [Next]_vars => IInv'
  <1> SUFFICES ASSUME IInv, [Next]_vars PROVE IInv'
    OBVIOUS
  <1>1. CASE UNCHANGED vars
    BY <1>1 DEF vars, IInv, TypeOK, CountsMatchReport, NothingSilent, Tracked, CandidatesOf
  <1>2. ASSUME NEW packet \in Packet, SkipShort(packet) PROVE IInv'
    BY <1>1, <1>2 DEF SkipShort
  <1>3. ASSUME NEW packet \in Packet, SuppressTelemetry(packet) PROVE IInv'
    BY <1>3, SuppressIInv DEF SuppressTelemetry, Reason
  <1>4. ASSUME NEW packet \in Packet, SuppressUntracked(packet) PROVE IInv'
    BY <1>4, SuppressIInv DEF SuppressUntracked, Reason
  <1>5. ASSUME NEW packet \in Packet, SuppressChatty(packet) PROVE IInv'
    BY <1>5, SuppressIInv DEF SuppressChatty, Reason
  <1>6. ASSUME NEW packet \in Packet, CarveFirst(packet) PROVE IInv'
    <2> DEFINE flow == Conversation(packet)
    <2>1. /\ flow \notin Tracked
          /\ Cardinality(Tracked) < MaxFlows
          /\ udp_flow_counts' = [f \in Tracked \union {flow} |->
                                   IF f = flow THEN 1 ELSE udp_flow_counts[f]]
      BY <1>6 DEF CarveFirst, Carve
    <2>2. Carve(packet, udp_flow_counts')
      BY <1>6, <2>1 DEF CarveFirst, Carve
    <2>3. Tracked' = Tracked \union {flow}
      BY <2>1 DEF Tracked
    <2>4. udp_flow_counts' \in [Tracked' -> Nat]
      BY <2>1, <2>3 DEF IInv, TypeOK
    <2>5. Cardinality(Tracked') <= MaxFlows
      <3>1. IsFiniteSet(Tracked) /\ Cardinality(Tracked) \in Nat
        BY FS_CardinalityType DEF IInv, CountsMatchReport
      <3>2. Cardinality(Tracked \union {flow}) = Cardinality(Tracked) + 1
        BY <2>1, <3>1, FS_AddElement
      <3> QED
        BY <2>1, <2>3, <3>1, <3>2, RawUdpAssumption
    <2>6. \A f \in Tracked \ {flow} : udp_flow_counts'[f] = udp_flow_counts[f]
      BY <2>1
    <2>7. udp_flow_counts'[flow] = 1 /\ 1 <= MaxPerFlow
      BY <2>1, RawUdpAssumption
    <2> QED
      BY <2>1, <2>2, <2>3, <2>4, <2>5, <2>6, <2>7, CarveIInv
  <1>7. ASSUME NEW packet \in Packet, CarveNext(packet) PROVE IInv'
    <2> DEFINE flow == Conversation(packet)
    <2>1. /\ flow \in Tracked
          /\ udp_flow_counts[flow] < MaxPerFlow
          /\ udp_flow_counts' = [udp_flow_counts EXCEPT ![flow] = @ + 1]
      BY <1>7 DEF CarveNext, Carve
    <2>2. Carve(packet, udp_flow_counts')
      BY <1>7, <2>1 DEF CarveNext, Carve
    <2>3. udp_flow_counts \in [Tracked -> Nat]
      BY DEF IInv, TypeOK
    <2>4. Tracked' = Tracked
      BY <2>1, <2>3 DEF Tracked
    <2>5. udp_flow_counts' \in [Tracked' -> Nat]
      BY <2>1, <2>3, <2>4
    <2>6. Cardinality(Tracked') <= MaxFlows
      BY <2>4 DEF IInv, CountsMatchReport
    <2>7. /\ \A f \in Tracked \ {flow} : udp_flow_counts'[f] = udp_flow_counts[f]
          /\ udp_flow_counts'[flow] = udp_flow_counts[flow] + 1
      BY <2>1, <2>3
    <2>8. udp_flow_counts'[flow] <= MaxPerFlow
      BY <2>1, <2>3, <2>7, RawUdpAssumption
    <2>9. Tracked' = Tracked \union {flow}
      BY <2>1, <2>4
    <2> QED
      BY <2>1, <2>2, <2>5, <2>6, <2>7, <2>8, <2>9, CarveIInv
  <1> QED
    BY <1>1, <1>2, <1>3, <1>4, <1>5, <1>6, <1>7 DEF Next, ParseUdpPacket

-----------------------------------------------------------------------------
\* The invariants hold in every reachable state.
THEOREM Invariance == Spec => []IInv
  BY InitIInv, NextIInv, PTL DEF Spec

\* Type correctness of the gate.
THEOREM TypeCorrectness == Spec => []TypeOK
  <1>1. IInv => TypeOK
    BY DEF IInv
  <1> QED
    BY <1>1, Invariance, PTL

\* No conversation ever has more raw candidates in the report than its
\* budget, both directions together, for any number of conversations and any
\* traffic.
THEOREM Budget == Spec => []BudgetPerConversation
  <1>1. IInv => BudgetPerConversation
    <2> SUFFICES ASSUME IInv, NEW flow \in Flow
                 PROVE  Cardinality(CandidatesOf(flow)) <= MaxPerFlow
      BY DEF BudgetPerConversation
    <2>1. CASE flow \in Tracked
      BY <2>1, RawUdpAssumption DEF IInv, CountsMatchReport
    <2>2. CASE flow \notin Tracked
      BY <2>2, FS_EmptySet, RawUdpAssumption DEF IInv, CountsMatchReport
    <2> QED
      BY <2>1, <2>2
  <1> QED
    BY <1>1, Invariance, PTL

\* Every long-enough packet is either a candidate or counted as suppressed.
THEOREM SuppressionReported == Spec => []NothingSilent
  <1>1. IInv => NothingSilent
    BY DEF IInv
  <1> QED
    BY <1>1, Invariance, PTL

\* The flow table never exceeds its limit.
THEOREM TableBound == Spec => []TableBounded
  <1>1. IInv => TableBounded
    BY DEF IInv, CountsMatchReport, TableBounded
  <1> QED
    BY <1>1, Invariance, PTL

-----------------------------------------------------------------------------
\* The candidates of the report, each with its conversation and its rank
\* among the candidates of that conversation.
Rank(i) == {j \in CandidatesOf(Conversation(raw_candidates[i])) : j <= i}

Slot == [i \in DOMAIN raw_candidates |->
           <<Conversation(raw_candidates[i]), Cardinality(Rank(i))>>]

\* Slots are pairs of a tracked conversation and a rank within the budget,
\* and no two candidates have the same one.
LEMMA SlotsDistinct ==
    ASSUME IInv
    PROVE  Slot \in Injection(DOMAIN raw_candidates, Tracked \X (1 .. MaxPerFlow))
  <1>1. /\ raw_candidates \in Seq(Packet)
        /\ CountsMatchReport
    BY DEF IInv, TypeOK
  <1>2. DOMAIN raw_candidates \subseteq Nat
    BY <1>1
  <1>3. ASSUME NEW i \in DOMAIN raw_candidates
        PROVE  /\ Conversation(raw_candidates[i]) \in Tracked
               /\ i \in Rank(i)
               /\ IsFiniteSet(Rank(i))
               /\ Cardinality(Rank(i)) \in 1 .. MaxPerFlow
    <2> DEFINE flow == Conversation(raw_candidates[i])
    <2>1. raw_candidates[i] \in Packet
      BY <1>1
    <2>2. flow \in Flow
      BY <2>1, ConversationIsNormal, NormalFlowIsFlow
    <2>3. i \in CandidatesOf(flow)
      BY DEF CandidatesOf
    <2>4. /\ flow \in Tracked
          /\ IsFiniteSet(CandidatesOf(flow))
          /\ Cardinality(CandidatesOf(flow)) \in 1 .. MaxPerFlow
      BY <1>1, <2>2, <2>3 DEF CountsMatchReport
    <2>5. i \in Rank(i) /\ Rank(i) \subseteq CandidatesOf(flow)
      BY <1>2, <2>3 DEF Rank
    <2>6. IsFiniteSet(Rank(i)) /\ Cardinality(Rank(i)) <= Cardinality(CandidatesOf(flow))
      BY <2>4, <2>5, FS_Subset
    <2>7. Cardinality(Rank(i)) \in Nat /\ Cardinality(Rank(i)) # 0
      BY <2>5, <2>6, FS_CardinalityType, FS_EmptySet
    <2> QED
      BY <2>4, <2>5, <2>6, <2>7, RawUdpAssumption
  <1>4. ASSUME NEW i \in DOMAIN raw_candidates, NEW j \in DOMAIN raw_candidates,
               i < j, Conversation(raw_candidates[i]) = Conversation(raw_candidates[j])
        PROVE  Cardinality(Rank(i)) # Cardinality(Rank(j))
    <2>1. Rank(i) \subseteq Rank(j) /\ j \notin Rank(i)
      BY <1>2, <1>4 DEF Rank, CandidatesOf
    <2>2. j \in Rank(j) /\ IsFiniteSet(Rank(j))
      BY <1>3
    <2> QED
      BY <2>1, <2>2, FS_Subset
  <1>5. Slot \in [DOMAIN raw_candidates -> Tracked \X (1 .. MaxPerFlow)]
    BY <1>3 DEF Slot
  <1>6. ASSUME NEW i \in DOMAIN raw_candidates, NEW j \in DOMAIN raw_candidates,
               Slot[i] = Slot[j]
        PROVE  i = j
    <2>1. /\ Conversation(raw_candidates[i]) = Conversation(raw_candidates[j])
          /\ Cardinality(Rank(i)) = Cardinality(Rank(j))
      BY <1>6 DEF Slot
    <2>2. ~(i < j) /\ ~(j < i)
      BY <1>4, <2>1
    <2> QED
      BY <1>2, <2>2
  <1> QED
    BY <1>5, <1>6 DEF Injection, IsInjective

\* The raw candidates of a whole capture number at most the product of the
\* two limits, whatever is sent.
THEOREM ReportBound == Spec => []ReportBounded
  <1>1. IInv => ReportBounded
    <2> SUFFICES ASSUME IInv PROVE Len(raw_candidates) <= MaxFlows * MaxPerFlow
      BY DEF ReportBounded
    <2> DEFINE slots == Tracked \X (1 .. MaxPerFlow)
    <2>1. DOMAIN raw_candidates = 1 .. Len(raw_candidates) /\ Len(raw_candidates) \in Nat
      BY DEF IInv, TypeOK
    <2>2. IsFiniteSet(1 .. MaxPerFlow) /\ Cardinality(1 .. MaxPerFlow) = MaxPerFlow
      BY FS_Interval, RawUdpAssumption
    <2>3. IsFiniteSet(Tracked) /\ Cardinality(Tracked) \in Nat /\ Cardinality(Tracked) <= MaxFlows
      BY FS_CardinalityType DEF IInv, CountsMatchReport
    <2>4. IsFiniteSet(slots) /\ Cardinality(slots) = Cardinality(Tracked) * MaxPerFlow
      BY <2>2, <2>3, FS_Product
    <2>5. Cardinality(DOMAIN raw_candidates) <= Cardinality(slots)
      BY <2>4, SlotsDistinct, FS_Injection
    <2>6. Cardinality(DOMAIN raw_candidates) = Len(raw_candidates)
      <3>1. \A n \in Nat : Cardinality(1 .. n) = n
        BY FS_Interval
      <3> QED
        BY <2>1, <3>1
    <2>7. \A a, b, c \in Nat : a <= b => a * c <= b * c /\ a * c \in Nat /\ b * c \in Nat
      OBVIOUS
    <2>8. MaxFlows \in Nat /\ MaxPerFlow \in Nat
      BY RawUdpAssumption
    <2>9. /\ Cardinality(Tracked) * MaxPerFlow <= MaxFlows * MaxPerFlow
          /\ Cardinality(Tracked) * MaxPerFlow \in Nat
          /\ MaxFlows * MaxPerFlow \in Nat
      BY <2>3, <2>7, <2>8
    <2> QED
      BY <2>1, <2>4, <2>5, <2>6, <2>9
  <1> QED
    BY <1>1, Invariance, PTL

-----------------------------------------------------------------------------
\* The positions of the capture that the candidates come from.
Chosen == FirstOfEach(Conversations, MaxFlows, MaxPerFlow)

\* The count of a conversation is the number of its packets, up to the budget.
CountsFollowArrivals ==
    \A flow \in Tracked :
        udp_flow_counts[flow] = IF Cardinality(PositionsOf(Conversations, flow)) < MaxPerFlow
                                  THEN Cardinality(PositionsOf(Conversations, flow)) ELSE MaxPerFlow

\* The table holds the conversations that were first, with their counts, and
\* the candidates are the packets that the history says they should be.
HInv ==
    /\ IInv
    /\ arrivals \in Seq(Packet)
    /\ HoldsFirst(Tracked, Conversations, MaxFlows)
    /\ CountsFollowArrivals
    /\ Ranked(Chosen)
    /\ CandidatesAreFirstOfEach

-----------------------------------------------------------------------------
Competes(packet) == packet.size >= MinPayload /\ ~IsTelemetry(packet)

\* A packet that does not compete changes nothing of what the history says.
LEMMA NoCompetitor ==
    ASSUME arrivals \in Seq(Packet), NEW packet \in Packet,
           arrivals' = Append(arrivals, packet), ~Competes(packet)
    PROVE  Conversations' = Conversations
  <1> DEFINE D == {k \in DOMAIN arrivals : arrivals[k].size >= MinPayload /\ ~IsTelemetry(arrivals[k])}
             E == {k \in DOMAIN arrivals' : arrivals'[k].size >= MinPayload /\ ~IsTelemetry(arrivals'[k])}
             n == Len(arrivals) + 1
  <1>1. /\ DOMAIN arrivals' = (1 .. Len(arrivals)) \union {n}
        /\ \A i \in 1 .. Len(arrivals) : arrivals'[i] = arrivals[i]
        /\ arrivals'[n] = packet
        /\ DOMAIN arrivals = 1 .. Len(arrivals)
    OBVIOUS
  <1> HIDE DEF n
  <1>2. E = D
    BY <1>1 DEF Competes
  <1>3. \A i \in D : arrivals'[i] = arrivals[i]
    BY <1>1
  <1>4. Conversations = [i \in D |-> Conversation(arrivals[i])]
    BY DEF Conversations
  <1>5. Conversations' = [i \in E |-> Conversation(arrivals'[i])]
    BY DEF Conversations, Conversation, IsTelemetry
  <1> HIDE DEF D, E
  <1> QED
    BY <1>2, <1>3, <1>4, <1>5

\* A packet that does is one more of its conversation.
LEMMA OneCompetitor ==
    ASSUME arrivals \in Seq(Packet), NEW packet \in Packet,
           arrivals' = Append(arrivals, packet), Competes(packet)
    PROVE  Grows(Conversations, Len(arrivals), Conversation(packet), Conversations')
  <1> DEFINE D == {k \in DOMAIN arrivals : arrivals[k].size >= MinPayload /\ ~IsTelemetry(arrivals[k])}
             E == {k \in DOMAIN arrivals' : arrivals'[k].size >= MinPayload /\ ~IsTelemetry(arrivals'[k])}
             n == Len(arrivals) + 1
  <1>1. /\ DOMAIN arrivals' = (1 .. Len(arrivals)) \union {n}
        /\ \A i \in 1 .. Len(arrivals) : arrivals'[i] = arrivals[i]
        /\ arrivals'[n] = packet
        /\ DOMAIN arrivals = 1 .. Len(arrivals)
        /\ Len(arrivals) \in Nat
    OBVIOUS
  <1> HIDE DEF n
  <1>2. E = D \union {n}
    BY <1>1 DEF Competes
  <1>3. D \subseteq 1 .. Len(arrivals) /\ \A i \in D : arrivals'[i] = arrivals[i]
    BY <1>1
  <1>4. Conversations = [i \in D |-> Conversation(arrivals[i])]
    BY DEF Conversations
  <1>5. Conversations' = [i \in E |-> Conversation(arrivals'[i])]
    BY DEF Conversations, Conversation, IsTelemetry
  <1> HIDE DEF D, E
  <1>6. /\ DOMAIN Conversations = D
        /\ DOMAIN Conversations' = D \union {n}
        /\ \A i \in D : Conversations'[i] = Conversations[i]
        /\ Conversations'[n] = Conversation(packet)
    BY <1>1, <1>2, <1>3, <1>4, <1>5
  <1> QED
    BY <1>1, <1>3, <1>6 DEF Grows, n

\* What the history holds lies in it.
LEMMA HistoryPositions ==
    ASSUME arrivals \in Seq(Packet)
    PROVE  /\ Len(arrivals) \in Nat
           /\ DOMAIN Conversations \subseteq 1 .. Len(arrivals)
           /\ Chosen \subseteq 1 .. Len(arrivals)
  <1>1. Len(arrivals) \in Nat /\ DOMAIN arrivals = 1 .. Len(arrivals)
    OBVIOUS
  <1>2. DOMAIN Conversations \subseteq 1 .. Len(arrivals)
    BY <1>1 DEF Conversations
  <1> QED
    BY <1>1, <1>2, PositionsIn DEF Chosen

\* The listing of the candidates, when the packet is one and when it is not.
LEMMA CandidateAdded ==
    ASSUME arrivals \in Seq(Packet), raw_candidates \in Seq(Packet), NEW packet \in Packet,
           arrivals' = Append(arrivals, packet), raw_candidates' = Append(raw_candidates, packet),
           Chosen' = Chosen \union {Len(arrivals) + 1},
           Ranked(Chosen), CandidatesAreFirstOfEach
    PROVE  Ranked(Chosen') /\ CandidatesAreFirstOfEach'
  <1>1. Len(arrivals) \in Nat /\ Chosen \subseteq 1 .. Len(arrivals)
    BY HistoryPositions
  <1>2. Lists(raw_candidates, Chosen, arrivals)
    BY DEF CandidatesAreFirstOfEach, Chosen, Lists
  <1>3. Lists(Append(raw_candidates, packet), Chosen \union {Len(arrivals) + 1},
              Append(arrivals, packet))
    BY <1>1, <1>2, ListingAppend
  <1>4. raw_candidates' = Listing(Chosen', arrivals')
    BY <1>3 DEF Lists
  <1>5. Ranked(Chosen \union {Len(arrivals) + 1})
    BY <1>1, ListingGrows
  <1> QED
    BY <1>4, <1>5 DEF CandidatesAreFirstOfEach, Chosen

LEMMA CandidatesStay ==
    ASSUME arrivals \in Seq(Packet), NEW packet \in Packet,
           arrivals' = Append(arrivals, packet), raw_candidates' = raw_candidates,
           Chosen' = Chosen, Ranked(Chosen), CandidatesAreFirstOfEach
    PROVE  Ranked(Chosen') /\ CandidatesAreFirstOfEach'
  <1>1. Len(arrivals) \in Nat /\ Chosen \subseteq 1 .. Len(arrivals)
    BY HistoryPositions
  <1>2. raw_candidates = Listing(Chosen, arrivals)
    BY DEF CandidatesAreFirstOfEach, Chosen
  <1>3. Listing(Chosen, Append(arrivals, packet)) = Listing(Chosen, arrivals)
    BY <1>1, ListingStays
  <1>4. raw_candidates' = Listing(Chosen', arrivals')
    BY <1>2, <1>3
  <1> QED
    BY <1>4 DEF CandidatesAreFirstOfEach, Chosen

\* Of the packets that compete, it is chosen when its conversation is among
\* the first and has not used its budget up.
LEMMA ChosenNext ==
    ASSUME arrivals \in Seq(Packet), NEW packet \in Packet,
           arrivals' = Append(arrivals, packet), Competes(packet),
           HoldsFirst(Tracked, Conversations, MaxFlows)',
           NEW n, n = Cardinality(PositionsOf(Conversations, Conversation(packet)))
    PROVE  /\ Conversation(packet) \in Tracked' /\ n < MaxPerFlow =>
                Chosen' = Chosen \union {Len(arrivals) + 1}
           /\ ~(Conversation(packet) \in Tracked' /\ n < MaxPerFlow) => Chosen' = Chosen
  <1> DEFINE flow == Conversation(packet)
             C == Conversations
             D == Conversations'
  <1>1. Grows(C, Len(arrivals), flow, D)
    BY OneCompetitor
  <1>2. FirstKeys(D, MaxFlows) = Tracked'
    BY DEF HoldsFirst
  <1>3. /\ Chosen = FirstOfEach(C, MaxFlows, MaxPerFlow)
        /\ Chosen' = FirstOfEach(D, MaxFlows, MaxPerFlow)
    BY DEF Chosen
  <1>4. MaxFlows \in Nat /\ MaxPerFlow \in Nat
    BY RawUdpAssumption
  <1> HIDE DEF C, D, flow
  <1>5. FirstOfEach(D, MaxFlows, MaxPerFlow) =
          IF flow \in FirstKeys(D, MaxFlows) /\ Cardinality(PositionsOf(C, flow)) < MaxPerFlow
            THEN FirstOfEach(C, MaxFlows, MaxPerFlow) \union {Len(arrivals) + 1}
            ELSE FirstOfEach(C, MaxFlows, MaxPerFlow)
    BY <1>1, <1>4, FirstOfEachGrows
  <1> QED
    BY <1>2, <1>3, <1>5 DEF C, D, flow

-----------------------------------------------------------------------------
LEMMA InitHInv == HistoryInit => HInv
  <1> SUFFICES ASSUME HistoryInit PROVE HInv
    OBVIOUS
  <1>1. IInv
    BY InitIInv DEF HistoryInit
  <1>2. arrivals = << >> /\ raw_candidates = << >> /\ Tracked = {}
    BY DEF HistoryInit, Init, Tracked
  <1>3. DOMAIN Conversations = {}
    BY <1>2 DEF Conversations
  <1>4. Openings(Conversations) = {} /\ Chosen = {}
    BY <1>3 DEF Openings, Chosen, FirstOfEach
  <1>5. FirstKeys(Conversations, MaxFlows) = {}
    BY <1>4 DEF FirstKeys
  <1>6. Cardinality({}) = 0 /\ IsFiniteSet({})
    BY FS_EmptySet
  <1>7. HoldsFirst(Tracked, Conversations, MaxFlows)
    BY <1>2, <1>3, <1>4, <1>5, <1>6 DEF HoldsFirst
  <1>8. CountsFollowArrivals
    BY <1>2 DEF CountsFollowArrivals
  <1>9. Ranked(Chosen) /\ CandidatesAreFirstOfEach
    BY <1>2, <1>4, <1>6 DEF Ranked, CandidatesAreFirstOfEach, Listing, Chosen
  <1> QED
    BY <1>1, <1>2, <1>7, <1>8, <1>9 DEF HInv

\* What the gate skips or suppresses by its port leaves everything as it was.
LEMMA SkipHInv ==
    ASSUME HInv, NEW packet \in Packet, arrivals' = Append(arrivals, packet),
           ~Competes(packet), UNCHANGED <<udp_flow_counts, raw_candidates>>, IInv'
    PROVE  HInv'
  <1>1. arrivals \in Seq(Packet) /\ arrivals' \in Seq(Packet)
    BY DEF HInv
  <1>2. Conversations' = Conversations
    BY <1>1, NoCompetitor
  <1>3. Tracked' = Tracked /\ Chosen' = Chosen
    BY <1>2 DEF Tracked, Chosen
  <1>4. HoldsFirst(Tracked, Conversations, MaxFlows)'
    BY <1>2, <1>3 DEF HInv
  <1>5. CountsFollowArrivals'
    BY <1>2, <1>3 DEF HInv, CountsFollowArrivals
  <1>6. Ranked(Chosen') /\ CandidatesAreFirstOfEach'
    BY <1>1, <1>3, CandidatesStay DEF HInv
  <1> QED
    BY <1>1, <1>4, <1>5, <1>6 DEF HInv

\* A conversation that comes when the table is full: it may open, but the
\* table's limit is met by those that opened before.
LEMMA UntrackedHInv ==
    ASSUME HInv, NEW packet \in Packet, Offer(packet), Competes(packet),
           SuppressUntracked(packet), IInv'
    PROVE  HInv'
  <1> DEFINE flow == Conversation(packet)
             C == Conversations
             D == Conversations'
  <1>1. /\ arrivals \in Seq(Packet) /\ arrivals' \in Seq(Packet)
        /\ arrivals' = Append(arrivals, packet)
        /\ raw_candidates' = raw_candidates /\ udp_flow_counts' = udp_flow_counts
        /\ Tracked' = Tracked
    BY DEF HInv, Offer, SuppressUntracked, Suppress, Tracked
  <1>2. /\ flow \notin Tracked /\ Cardinality(Tracked) >= MaxFlows
        /\ HoldsFirst(Tracked, C, MaxFlows) /\ MaxFlows \in Nat
    BY RawUdpAssumption DEF HInv, SuppressUntracked
  <1>3. Grows(C, Len(arrivals), flow, D)
    BY <1>1, OneCompetitor
  <1>4. \A f : f # flow => PositionsOf(D, f) = PositionsOf(C, f)
    BY <1>3, PositionsGrow
  <1>5. HoldsFirst(Tracked, D, MaxFlows)
    BY <1>2, <1>3, RefusedKey
  <1>6. HoldsFirst(Tracked, Conversations, MaxFlows)'
    BY <1>1, <1>5
  <1>7. Chosen' = Chosen
    BY <1>1, <1>2, <1>6, ChosenNext
  <1>8. CountsFollowArrivals'
    BY <1>1, <1>2, <1>4 DEF HInv, CountsFollowArrivals
  <1>9. Ranked(Chosen') /\ CandidatesAreFirstOfEach'
    BY <1>1, <1>7, CandidatesStay DEF HInv
  <1> QED
    BY <1>1, <1>6, <1>8, <1>9 DEF HInv

\* One more packet of a conversation in the table: the table stays right.
LEMMA TrackedHistory ==
    ASSUME HInv, NEW packet \in Packet, arrivals' = Append(arrivals, packet), Competes(packet),
           Conversation(packet) \in Tracked, Tracked' = Tracked,
           NEW n, n = Cardinality(PositionsOf(Conversations, Conversation(packet)))
    PROVE  /\ HoldsFirst(Tracked, Conversations, MaxFlows)'
           /\ n \in Nat
           /\ Cardinality(PositionsOf(Conversations', Conversation(packet))) = n + 1
           /\ \A f : f # Conversation(packet) =>
                PositionsOf(Conversations', f) = PositionsOf(Conversations, f)
  <1> DEFINE flow == Conversation(packet)
             C == Conversations
             D == Conversations'
  <1>1. /\ arrivals \in Seq(Packet) /\ MaxFlows \in Nat
        /\ HoldsFirst(Tracked, C, MaxFlows)
    BY RawUdpAssumption DEF HInv
  <1>2. Grows(C, Len(arrivals), flow, D)
    BY <1>1, OneCompetitor
  <1>3. HoldsFirst(Tracked, D, MaxFlows)
    BY <1>1, <1>2, KnownKey
  <1>4. \A f : f # flow => PositionsOf(D, f) = PositionsOf(C, f)
    BY <1>2, PositionsGrow
  <1>5. n \in Nat /\ Cardinality(PositionsOf(D, flow)) = n + 1
    BY <1>2, PositionsSize
  <1> QED
    BY <1>3, <1>4, <1>5


\* A conversation that has used its budget up.
LEMMA ChattyHInv ==
    ASSUME HInv, NEW packet \in Packet, Offer(packet), Competes(packet),
           SuppressChatty(packet), IInv'
    PROVE  HInv'
  <1> DEFINE flow == Conversation(packet)
             n == Cardinality(PositionsOf(Conversations, flow))
             P(f) == PositionsOf(Conversations', f)
  <1>1. /\ arrivals \in Seq(Packet) /\ arrivals' \in Seq(Packet)
        /\ arrivals' = Append(arrivals, packet)
        /\ raw_candidates' = raw_candidates /\ udp_flow_counts' = udp_flow_counts
        /\ Tracked' = Tracked
        /\ flow \in Tracked /\ udp_flow_counts[flow] >= MaxPerFlow
    BY DEF HInv, Offer, SuppressChatty, Suppress, Tracked
  <1>2. /\ HoldsFirst(Tracked, Conversations, MaxFlows)'
        /\ n \in Nat
        /\ Cardinality(P(flow)) = n + 1
        /\ \A f : f # flow => P(f) = PositionsOf(Conversations, f)
    BY <1>1, TrackedHistory
  <1>3. ~(n < MaxPerFlow) /\ udp_flow_counts[flow] = MaxPerFlow
    BY <1>1, <1>2, RawUdpAssumption DEF HInv, CountsFollowArrivals
  <1>4. Chosen' = Chosen
    BY <1>1, <1>2, <1>3, ChosenNext
  <1>5. CountsFollowArrivals'
    <2> SUFFICES ASSUME NEW f \in Tracked
                 PROVE  udp_flow_counts[f] = IF Cardinality(P(f)) < MaxPerFlow
                                               THEN Cardinality(P(f)) ELSE MaxPerFlow
      BY <1>1 DEF CountsFollowArrivals
    <2>1. CASE f = flow
      <3>1. ~(n + 1 < MaxPerFlow)
        BY <1>2, <1>3, RawUdpAssumption
      <3> QED
        BY <1>2, <1>3, <2>1, <3>1
    <2>2. CASE f # flow
      BY <1>2, <2>2 DEF HInv, CountsFollowArrivals
    <2> QED
      BY <2>1, <2>2
  <1>6. Ranked(Chosen') /\ CandidatesAreFirstOfEach'
    BY <1>1, <1>4, CandidatesStay DEF HInv
  <1> QED
    BY <1>1, <1>2, <1>5, <1>6 DEF HInv

\* A conversation that has budget left.
LEMMA CarvedNextHInv ==
    ASSUME HInv, NEW packet \in Packet, Offer(packet), Competes(packet),
           CarveNext(packet), IInv'
    PROVE  HInv'
  <1> DEFINE flow == Conversation(packet)
             n == Cardinality(PositionsOf(Conversations, flow))
             P(f) == PositionsOf(Conversations', f)
  <1>1. /\ arrivals \in Seq(Packet) /\ arrivals' \in Seq(Packet)
        /\ arrivals' = Append(arrivals, packet)
        /\ raw_candidates \in Seq(Packet)
        /\ raw_candidates' = Append(raw_candidates, packet)
        /\ udp_flow_counts \in [Tracked -> Nat]
        /\ udp_flow_counts' = [udp_flow_counts EXCEPT ![flow] = @ + 1]
        /\ flow \in Tracked /\ udp_flow_counts[flow] < MaxPerFlow
    BY DEF HInv, IInv, TypeOK, Offer, CarveNext, Carve
  <1>2. /\ Tracked' = Tracked
        /\ udp_flow_counts'[flow] = udp_flow_counts[flow] + 1
        /\ \A f \in Tracked \ {flow} : udp_flow_counts'[f] = udp_flow_counts[f]
    BY <1>1 DEF Tracked
  <1>3. /\ HoldsFirst(Tracked, Conversations, MaxFlows)'
        /\ n \in Nat
        /\ Cardinality(P(flow)) = n + 1
        /\ \A f : f # flow => P(f) = PositionsOf(Conversations, f)
    BY <1>1, <1>2, TrackedHistory
  <1>4. n < MaxPerFlow /\ udp_flow_counts[flow] = n
    BY <1>1, <1>3, RawUdpAssumption DEF HInv, CountsFollowArrivals
  <1>5. flow \in Tracked'
    BY <1>1, <1>2
  <1>6. Chosen' = Chosen \union {Len(arrivals) + 1}
    BY <1>1, <1>3, <1>4, <1>5, ChosenNext
  <1>7. CountsFollowArrivals'
    <2> SUFFICES ASSUME NEW f \in Tracked
                 PROVE  udp_flow_counts'[f] = IF Cardinality(P(f)) < MaxPerFlow
                                                THEN Cardinality(P(f)) ELSE MaxPerFlow
      BY <1>2 DEF CountsFollowArrivals
    <2>1. CASE f = flow
      <3>1. n + 1 < MaxPerFlow \/ n + 1 = MaxPerFlow
        BY <1>3, <1>4, RawUdpAssumption
      <3> QED
        BY <1>2, <1>3, <1>4, <2>1, <3>1
    <2>2. CASE f # flow
      BY <1>2, <1>3, <2>2 DEF HInv, CountsFollowArrivals
    <2> QED
      BY <2>1, <2>2
  <1>8. Ranked(Chosen') /\ CandidatesAreFirstOfEach'
    BY <1>1, <1>6, CandidateAdded DEF HInv
  <1> QED
    BY <1>1, <1>3, <1>7, <1>8 DEF HInv

\* A conversation that is not in the table while it has room was never seen:
\* it opens, and this packet is its first.
LEMMA FirstHInv ==
    ASSUME HInv, NEW packet \in Packet, Offer(packet), Competes(packet),
           CarveFirst(packet), IInv'
    PROVE  HInv'
  <1> DEFINE flow == Conversation(packet)
             C == Conversations
             P(f) == PositionsOf(Conversations', f)
  <1>1. /\ arrivals \in Seq(Packet) /\ arrivals' \in Seq(Packet)
        /\ arrivals' = Append(arrivals, packet)
        /\ raw_candidates \in Seq(Packet)
        /\ raw_candidates' = Append(raw_candidates, packet)
        /\ flow \notin Tracked /\ Cardinality(Tracked) < MaxFlows
        /\ udp_flow_counts' = [f \in Tracked \union {flow} |->
                                 IF f = flow THEN 1 ELSE udp_flow_counts[f]]
    BY DEF HInv, IInv, TypeOK, Offer, CarveFirst, Carve
  <1>2. /\ Tracked' = Tracked \union {flow}
        /\ udp_flow_counts'[flow] = 1
        /\ \A f \in Tracked : udp_flow_counts'[f] = udp_flow_counts[f]
    BY <1>1 DEF Tracked
  <1>3. HoldsFirst(Tracked, C, MaxFlows) /\ MaxFlows \in Nat
    BY RawUdpAssumption DEF HInv
  <1>4. Grows(C, Len(arrivals), flow, Conversations')
    BY <1>1, OneCompetitor
  <1>5. /\ PositionsOf(C, flow) = {}
        /\ HoldsFirst(Tracked \union {flow}, Conversations', MaxFlows)
    BY <1>1, <1>3, <1>4, AddedKey
  <1>6. HoldsFirst(Tracked, Conversations, MaxFlows)'
    BY <1>2, <1>5
  <1>7. \A f : f # flow => P(f) = PositionsOf(Conversations, f)
    BY <1>4, PositionsGrow
  <1>8. Cardinality(PositionsOf(C, flow)) = 0 /\ 0 < MaxPerFlow
    BY <1>5, FS_EmptySet, RawUdpAssumption
  <1>9. Cardinality(P(flow)) = 1
    BY <1>4, <1>8, PositionsSize
  <1>10. Chosen' = Chosen \union {Len(arrivals) + 1}
    BY <1>1, <1>2, <1>6, <1>8, ChosenNext
  <1>11. CountsFollowArrivals'
    <2> SUFFICES ASSUME NEW f \in Tracked'
                 PROVE  udp_flow_counts'[f] = IF Cardinality(P(f)) < MaxPerFlow
                                                THEN Cardinality(P(f)) ELSE MaxPerFlow
      BY DEF CountsFollowArrivals
    <2>1. CASE f = flow
      <3>1. 1 < MaxPerFlow \/ MaxPerFlow = 1
        BY RawUdpAssumption
      <3> QED
        BY <1>2, <1>9, <2>1, <3>1
    <2>2. CASE f # flow
      BY <1>2, <1>7, <2>2 DEF HInv, CountsFollowArrivals
    <2> QED
      BY <2>1, <2>2
  <1>12. Ranked(Chosen') /\ CandidatesAreFirstOfEach'
    BY <1>1, <1>10, CandidateAdded DEF HInv
  <1> QED
    BY <1>1, <1>6, <1>11, <1>12 DEF HInv

LEMMA NextHInv == HInv /\ [HistoryNext]_<<vars, arrivals>> => HInv'
  <1> SUFFICES ASSUME HInv, [HistoryNext]_<<vars, arrivals>> PROVE HInv'
    OBVIOUS
  <1>1. CASE UNCHANGED <<vars, arrivals>>
    <2>1. IInv'
      BY <1>1, NextIInv DEF HInv
    <2>2. UNCHANGED <<udp_flow_counts, raw_candidates, arrivals>>
      BY <1>1 DEF vars
    <2>3. Tracked' = Tracked /\ Conversations' = Conversations
      BY <2>2 DEF Tracked, Conversations
    <2>4. Chosen' = Chosen
      BY <2>3 DEF Chosen
    <2>5. HoldsFirst(Tracked, Conversations, MaxFlows)'
      BY <2>3 DEF HInv
    <2>6. CountsFollowArrivals'
      BY <2>2, <2>3 DEF HInv, CountsFollowArrivals
    <2>7. Ranked(Chosen') /\ CandidatesAreFirstOfEach'
      BY <2>2, <2>3, <2>4 DEF HInv, CandidatesAreFirstOfEach
    <2> QED
      BY <2>1, <2>2, <2>5, <2>6, <2>7 DEF HInv
  <1>2. ASSUME NEW packet \in Packet, Offer(packet) PROVE HInv'
    <2>1. ParseUdpPacket(packet) /\ arrivals' = Append(arrivals, packet)
      BY <1>2 DEF Offer
    <2>2. IInv'
      BY <2>1, NextIInv DEF HInv, Next
    <2>3. packet.size \in Nat /\ MinPayload \in Nat
      BY RawUdpAssumption DEF Packet
    <2>4. CASE SkipShort(packet)
      <3>1. ~Competes(packet) /\ UNCHANGED <<udp_flow_counts, raw_candidates>>
        BY <2>3, <2>4 DEF SkipShort, Competes, vars
      <3> QED
        BY <2>1, <2>2, <3>1, SkipHInv
    <2>5. CASE SuppressTelemetry(packet)
      <3>1. ~Competes(packet) /\ UNCHANGED <<udp_flow_counts, raw_candidates>>
        BY <2>5 DEF SuppressTelemetry, Suppress, Competes
      <3> QED
        BY <2>1, <2>2, <3>1, SkipHInv
    <2>6. CASE SuppressUntracked(packet)
      <3>1. Competes(packet)
        BY <2>6 DEF SuppressUntracked, Suppress, Competes
      <3> QED
        BY <1>2, <2>2, <2>6, <3>1, UntrackedHInv
    <2>7. CASE SuppressChatty(packet)
      <3>1. Competes(packet)
        BY <2>7 DEF SuppressChatty, Suppress, Competes
      <3> QED
        BY <1>2, <2>2, <2>7, <3>1, ChattyHInv
    <2>8. CASE CarveFirst(packet)
      <3>1. Competes(packet)
        BY <2>8 DEF CarveFirst, Carve, Competes
      <3> QED
        BY <1>2, <2>2, <2>8, <3>1, FirstHInv
    <2>9. CASE CarveNext(packet)
      <3>1. Competes(packet)
        BY <2>9 DEF CarveNext, Carve, Competes
      <3> QED
        BY <1>2, <2>2, <2>9, <3>1, CarvedNextHInv
    <2> QED
      BY <2>1, <2>4, <2>5, <2>6, <2>7, <2>8, <2>9 DEF ParseUdpPacket
  <1> QED
    BY <1>1, <1>2 DEF HistoryNext

-----------------------------------------------------------------------------
\* The table is what the whole capture says it should be, in every state.
THEOREM HistoryInvariance == HistorySpec => []HInv
  BY InitHInv, NextHInv, PTL DEF HistorySpec

\* The candidates are exactly the first MaxPerFlow long-enough packets of
\* each of the first MaxFlows conversations, in capture order, whatever the
\* capture and however large the limits.
THEOREM FirstComeFirstCarved == HistorySpec => []CandidatesAreFirstOfEach
  <1>1. HInv => CandidatesAreFirstOfEach
    BY DEF HInv
  <1> QED
    BY <1>1, HistoryInvariance, PTL

-----------------------------------------------------------------------------
\* The loop over the packets of a file.  The innermost type is read through
\* all tags and extension headers.
LEMMA Innermost ==
    ASSUME NEW s \in Seq(STRING), s # << >>, NEW S, \A i \in 1 .. Len(s) - 1 : s[i] \in S
    PROVE  FirstNotIn(s, S) = s[Len(s)]
  <1> DEFINE n == Len(s)
             others == {i \in DOMAIN s : s[i] \notin S}
  <1>1. n \in Nat /\ n >= 1 /\ DOMAIN s = 1 .. n
    OBVIOUS
  <1>2. \A i \in others : i = n
    BY <1>1
  <1>3. FirstNotIn(s, S) = IF others = {} THEN s[n]
                           ELSE s[CHOOSE i \in others : \A j \in others : i <= j]
    BY DEF FirstNotIn
  <1>4. ASSUME others # {}
        PROVE  (CHOOSE i \in others : \A j \in others : i <= j) = n
    <2>1. n \in others /\ n <= n
      BY <1>1, <1>2, <1>4
    <2> HIDE DEF others
    <2> QED
      BY <1>2, <2>1
  <1> HIDE DEF others, n
  <1>5. CASE others = {}
    BY <1>3, <1>5 DEF n
  <1>6. CASE others # {}
    BY <1>3, <1>4, <1>6 DEF n
  <1> QED
    BY <1>5, <1>6

\* A frame that is read as one of its own link gives what it carries, one
\* that is read as another gives nothing.
LEMMA Decodes ==
    ASSUME NEW frame, ProperFrame(frame), NEW link
    PROVE  DecodePacket(link, frame) = IF link = frame.link THEN Carried(frame) ELSE NoPacket
  <1> DEFINE network == frame.types[Len(frame.types)]
             transport == frame.protos[Len(frame.protos)]
  <1>1. CASE link # frame.link
    BY <1>1 DEF DecodePacket, EtherType
  <1>2. CASE link = frame.link
    <2>1. EtherType(link, frame) = network
      <3>1. CASE link = Ethernet
        <4>1. FirstNotIn(frame.types, VlanTypes) = network
          BY <1>2, <3>1, Innermost DEF ProperFrame
        <4> QED
          BY <1>2, <3>1, <4>1 DEF EtherType
      <3>2. CASE link # Ethernet
        BY <1>2, <3>2 DEF EtherType, ProperFrame
      <3> QED
        BY <3>1, <3>2
    <2>2. network \in {"ipv4", "ipv6"} => Protocol(network, frame) = transport
      <3>1. CASE network = "ipv6"
        <4>1. FirstNotIn(frame.protos, ExtensionHeaders) = transport
          BY <3>1, Innermost DEF ProperFrame
        <4> QED
          BY <3>1, <4>1 DEF Protocol
      <3>2. CASE network = "ipv4"
        BY <3>2 DEF Protocol, ProperFrame
      <3> QED
        BY <3>1, <3>2
    <2> HIDE DEF network, transport
    <2>3. DecodePacket(link, frame) =
            IF network \in {"ipv4", "ipv6"} /\ transport \in {"tcp", "udp"}
            THEN [transport |-> transport, src |-> frame.src, dst |-> frame.dst,
                  data |-> frame.data,
                  padded |-> frame.trailer /\ network = "ipv6" /\ transport = "tcp"]
            ELSE IF network = "ipv4" /\ transport = "icmp" THEN IcmpPacket(frame)
            ELSE NoPacket
      <3>1. DecodePacket(link, frame) =
              IF network \in {"ipv4", "ipv6"} /\ Protocol(network, frame) \in {"tcp", "udp"}
              THEN [transport |-> Protocol(network, frame), src |-> frame.src, dst |-> frame.dst,
                    data |-> frame.data,
                    padded |-> frame.trailer /\ network = "ipv6" /\ Protocol(network, frame) = "tcp"]
              ELSE IF network = "ipv4" /\ Protocol(network, frame) = "icmp" THEN IcmpPacket(frame)
              ELSE NoPacket
        BY <2>1, Zenon DEF DecodePacket
      <3> QED
        BY <2>2, <3>1
    <2>4. Carried(frame) =
            IF network \in {"ipv4", "ipv6"} /\ transport \in {"tcp", "udp"}
            THEN [transport |-> transport, src |-> frame.src, dst |-> frame.dst,
                  data |-> frame.data,
                  padded |-> frame.trailer /\ transport = "tcp" /\ network = "ipv6"]
            ELSE IF network = "ipv4" /\ transport = "icmp" THEN IcmpPacket(frame)
            ELSE NoPacket
      BY Zenon DEF Carried, network, transport
    <2>5. (frame.trailer /\ network = "ipv6" /\ transport = "tcp")
            = (frame.trailer /\ transport = "tcp" /\ network = "ipv6")
      OBVIOUS
    <2> QED
      BY <1>2, <2>3, <2>4, <2>5, Zenon
  <1> QED
    BY <1>1, <1>2

-----------------------------------------------------------------------------
PacketBlock == {block \in Blocks["pcap"] \union Blocks["pcapng"] :
                  block.type \in {"record", "enhanced", "simple"}}

\* What the reader can yield.
Yielded == {NoPacket} \union {Carried(block.frame) : block \in PacketBlock}

\* The link types of interfaces.
Links == {block.link : block \in Blocks["pcapng"]}

\* The file, and what is read of it: the interfaces are those described so
\* far, and the packets of an ordinary file are those in it.
FileInv ==
    /\ header.format \in {"pcap", "pcapng"}
    /\ file \in Seq(Blocks[header.format])

LinkOfDescribed == [i \in Described(Len(file)) |-> file[i].link]

InterfacesInv ==
    header.format = "pcapng" =>
        interfaces \in Seq(Links) /\ Lists(interfaces, Described(Len(file)), LinkOfDescribed)

CarriedByFile == [i \in PacketBlocks |-> Carried(file[i].frame)]

PacketsInv ==
    /\ packets \in Seq(Yielded)
    /\ Ordinary => Lists(packets, PacketBlocks, CarriedByFile)

\* What reached the gate is what nobody claims.
OfferedOf == [i \in Unclaimed |-> Offered(packets[i])]

GateInv ==
    /\ arrivals \in Seq(Packet)
    /\ Lists(arrivals, Unclaimed, OfferedOf)

LoopInv == FileInv /\ InterfacesInv /\ PacketsInv /\ GateInv

-----------------------------------------------------------------------------
\* One block more of the file.
Reads(block) ==
    /\ block \in Blocks[header.format]
    /\ file' = Append(file, block)
    /\ header' = header

LEMMA FileGrows ==
    ASSUME FileInv, NEW block, Reads(block)
    PROVE  /\ FileInv'
           /\ Len(file) \in Nat /\ Len(file') = Len(file) + 1
           /\ DOMAIN file = 1 .. Len(file)
           /\ DOMAIN file' = (1 .. Len(file)) \union {Len(file) + 1}
           /\ \A i \in 1 .. Len(file) : file'[i] = file[i]
           /\ file'[Len(file) + 1] = block
  <1> DEFINE B == Blocks[header.format]
  <1>1. file \in Seq(B) /\ block \in B
    BY DEF FileInv, Reads
  <1> HIDE DEF B
  <1>2. /\ Append(file, block) \in Seq(B)
        /\ Len(file) \in Nat /\ DOMAIN file = 1 .. Len(file)
        /\ Len(Append(file, block)) = Len(file) + 1
        /\ DOMAIN Append(file, block) = (1 .. Len(file)) \union {Len(file) + 1}
        /\ \A i \in 1 .. Len(file) : Append(file, block)[i] = file[i]
        /\ Append(file, block)[Len(file) + 1] = block
    BY <1>1
  <1>3. file' = Append(file, block) /\ header' = header
    BY DEF Reads
  <1>4. FileInv'
    BY <1>2, <1>3 DEF FileInv, B
  <1> QED
    BY <1>2, <1>3, <1>4

\* The places of packets and interfaces, one block more.
LEMMA PlacesGrow ==
    ASSUME FileInv, NEW block, Reads(block)
    PROVE  /\ PacketBlocks \subseteq 1 .. Len(file)
           /\ PacketBlocks' = IF block.whole /\ block.type \in PacketTypes
                                THEN PacketBlocks \union {Len(file) + 1} ELSE PacketBlocks
           /\ \A i \in 1 .. Len(file) : Described(i)' = Described(i)
           /\ Described(Len(file)) \subseteq 1 .. Len(file)
           /\ Described(Len(file))' = IF block.whole /\ block.type = "interface"
                                            THEN Described(Len(file)) \union {Len(file) + 1}
                                            ELSE Described(Len(file))
  <1> DEFINE n == Len(file)
  <1>1. /\ n \in Nat /\ DOMAIN file = 1 .. n
        /\ DOMAIN file' = (1 .. n) \union {n + 1}
        /\ \A i \in 1 .. n : file'[i] = file[i]
        /\ file'[n + 1] = block
    BY FileGrows
  <1>2. PacketTypes' = PacketTypes
    BY DEF Reads, PacketTypes
  <1> HIDE DEF n
  <1>3. PacketBlocks \subseteq 1 .. n
    BY <1>1 DEF PacketBlocks
  <1>4. PacketBlocks' = {i \in (1 .. n) \union {n + 1} : file'[i].whole /\ file'[i].type \in PacketTypes}
    BY <1>1, <1>2 DEF PacketBlocks
  <1>5. PacketBlocks' = IF block.whole /\ block.type \in PacketTypes
                          THEN PacketBlocks \union {n + 1} ELSE PacketBlocks
    BY <1>1, <1>4 DEF PacketBlocks
  <1>6. ASSUME NEW i \in 1 .. n
        PROVE  Described(i)' = Described(i)
    <2>1. \A j \in 1 .. i : file'[j] = file[j]
      BY <1>1
    <2> QED
      BY <2>1 DEF Described
  <1>7. Described(n) \subseteq 1 .. n
    BY DEF Described
  <1>8. 1 .. n + 1 = (1 .. n) \union {n + 1}
    BY <1>1
  <1>9. Described(Len(file))' =
          {j \in (1 .. n) \union {n + 1} : file'[j].whole /\ file'[j].type = "interface"}
    <2>1. Len(file') = n + 1
      BY FileGrows DEF n
    <2> QED
      BY <1>8, <2>1 DEF Described
  <1>10. Described(Len(file))' = IF block.whole /\ block.type = "interface"
                                 THEN Described(n) \union {n + 1} ELSE Described(n)
    BY <1>1, <1>9 DEF Described
  <1> QED
    BY <1>3, <1>5, <1>6, <1>7, <1>10 DEF n

\* A file that is ordinary with one block more was ordinary before.
LEMMA OrdinaryBefore ==
    ASSUME FileInv, NEW block, Reads(block), Ordinary'
    PROVE  Ordinary
  <1>1. /\ Len(file) \in Nat /\ DOMAIN file = 1 .. Len(file)
        /\ DOMAIN file' = (1 .. Len(file)) \union {Len(file) + 1}
        /\ \A i \in 1 .. Len(file) : file'[i] = file[i]
    BY FileGrows
  <1>2. /\ PacketBlocks \subseteq 1 .. Len(file) /\ PacketBlocks \subseteq PacketBlocks'
        /\ \A i \in 1 .. Len(file) : Described(i)' = Described(i)
    BY PlacesGrow
  <1>3. \A i \in DOMAIN file : file[i].type # "section"
    <2>1. \A i \in DOMAIN file' : file'[i].type # "section"
      BY DEF Ordinary
    <2> QED
      BY <1>1, <2>1
  <1>4. ASSUME NEW i \in PacketBlocks
        PROVE  GivenLink(i, file[i].frame.link)
    <2>1. i \in PacketBlocks' /\ i \in 1 .. Len(file) /\ file'[i] = file[i]
      BY <1>1, <1>2
    <2>2. GivenLink(i, file[i].frame.link)'
      BY <2>1 DEF Ordinary
    <2> DEFINE n == IF file[i].type = "simple" THEN 1 ELSE file[i].interface + 1
               l == file[i].frame.link
    <2>3. Described(i)' = Described(i) /\ header' = header
      BY <1>2, <2>1 DEF Reads
    <2>4. IF header.format = "pcap" THEN header.link = l
          ELSE n <= Cardinality(Described(i)) /\ file'[Nth(Described(i), n)].link = l
      BY <2>1, <2>2, <2>3 DEF GivenLink
    <2>5. ASSUME header.format # "pcap"
          PROVE  file'[Nth(Described(i), n)] = file[Nth(Described(i), n)]
      <3>1. Described(i) \subseteq 1 .. i /\ i \in Nat
        BY <2>1, <1>1 DEF Described
      <3>2. Ranked(Described(i))
        BY <3>1, RanksTaken
      <3>3. Cardinality(Described(i)) \in Nat
        BY <3>1, AddPosition
      <3>4. file[i].type \in PacketTypes /\ header.format = "pcapng"
        BY <2>5 DEF PacketBlocks, FileInv
      <3>5. n \in Nat /\ n >= 1
        <4>1. file[i] \in Blocks["pcapng"]
          BY <1>1, <2>1, <3>4 DEF FileInv
        <4>2. file[i].type = "enhanced" => file[i].interface \in Nat
          BY <4>1, LoopAssumption
        <4>3. file[i].type = "enhanced" \/ file[i].type = "simple"
          BY <3>4 DEF PacketTypes
        <4> QED
          BY <4>2, <4>3
      <3>6. n \in 1 .. Cardinality(Described(i))
        BY <2>4, <2>5, <3>3, <3>5
      <3> HIDE DEF n
      <3>7. Nth(Described(i), n) \in Described(i)
        BY <3>1, <3>2, <3>6, ListingGrows
      <3>8. Nth(Described(i), n) \in 1 .. Len(file)
        BY <1>1, <2>1, <3>1, <3>7
      <3> QED
        BY <1>1, <3>8
    <2> QED
      BY <2>4, <2>5 DEF GivenLink
  <1> QED
    BY <1>3, <1>4 DEF Ordinary

-----------------------------------------------------------------------------
\* The table of interfaces.
LEMMA InterfacesNext ==
    ASSUME FileInv, InterfacesInv, NEW block, Reads(block),
           \/ ReadInterface(block)
           \/ interfaces' = interfaces /\ ~(block.whole /\ block.type = "interface")
    PROVE  InterfacesInv'
  <1> SUFFICES ASSUME header.format = "pcapng"
               PROVE  /\ interfaces' \in Seq(Links)
                      /\ Lists(interfaces, Described(Len(file)), LinkOfDescribed)'
    BY DEF InterfacesInv, Reads
  <1> DEFINE m == Len(file)
             S == Described(Len(file))
             f == LinkOfDescribed
             g == LinkOfDescribed'
             S2 == Described(Len(file))'
  <1>1. /\ m \in Nat /\ S \subseteq 1 .. m
        /\ \A i \in 1 .. m : file'[i] = file[i]
        /\ file'[m + 1] = block
        /\ S2 = IF block.whole /\ block.type = "interface" THEN S \union {m + 1} ELSE S
    BY FileGrows, PlacesGrow
  <1>2. interfaces \in Seq(Links) /\ Lists(interfaces, S, f) /\ Ranked(S)
    BY <1>1, RanksTaken DEF InterfacesInv
  <1>3. f = [i \in S |-> file[i].link] /\ g = [i \in S2 |-> file'[i].link]
    BY DEF LinkOfDescribed
  <1> HIDE DEF m, S, f, g, S2
  <1>4. \A i \in S : g[i] = f[i]
    BY <1>1, <1>3
  <1>5. CASE ReadInterface(block)
    <2>1. /\ S2 = S \union {m + 1} /\ interfaces' = Append(interfaces, block.link)
      BY <1>1, <1>5 DEF ReadInterface
    <2>2. g[m + 1] = block.link
      BY <1>1, <1>3, <2>1
    <2>3. block.link \in Links
      BY DEF Reads, Links
    <2> DEFINE link == block.link
    <2> HIDE DEF link
    <2>4. Lists(Append(interfaces, link), S \union {m + 1}, g)
      BY <1>1, <1>2, <1>4, <2>2, <2>3, ListingExtended DEF link
    <2>5. Append(interfaces, link) \in Seq(Links)
      BY <1>2, <2>3, AppendProperties DEF link
    <2> QED
      BY <2>1, <2>4, <2>5 DEF S2, g, link
  <1>6. CASE interfaces' = interfaces /\ ~(block.whole /\ block.type = "interface")
    <2>1. S2 = S
      BY <1>1, <1>6
    <2>2. Lists(interfaces, S, g)
      BY <1>1, <1>2, <1>4, ListingSame
    <2> QED
      BY <1>2, <1>6, <2>1, <2>2 DEF S2, g
  <1> QED
    BY <1>5, <1>6

\* A packet block of an ordinary file is read with its own link type.
LEMMA OwnLink ==
    ASSUME FileInv, InterfacesInv, NEW block, Reads(block), ReadPacket(block), Ordinary'
    PROVE  LinkOf(block) = block.frame.link
  <1> DEFINE m == Len(file)
             S == Described(Len(file))
             n == IF block.type = "simple" THEN 1 ELSE block.interface + 1
  <1>1. /\ m \in Nat /\ S \subseteq 1 .. m
        /\ \A i \in 1 .. m : file'[i] = file[i]
        /\ file'[m + 1] = block /\ Len(file') = m + 1
        /\ header' = header
        /\ block.type \in PacketTypes /\ block.whole
    BY FileGrows, PlacesGrow DEF ReadPacket, Reads
  <1>2. block.type # "interface"
    BY <1>1 DEF PacketTypes
  <1>3. /\ m + 1 \in PacketBlocks'
        /\ Described(Len(file))' = S
    BY <1>1, <1>2, PlacesGrow
  <1>4. IF header.format = "pcap" THEN header.link = block.frame.link
        ELSE n <= Cardinality(S) /\ file'[Nth(S, n)].link = block.frame.link
    <2> DEFINE D(i) == {j \in 1 .. i : file'[j].whole /\ file'[j].type = "interface"}
               k(i) == IF file'[i].type = "simple" THEN 1 ELSE file'[i].interface + 1
    <2>1. \A i \in PacketBlocks' :
            IF header'.format = "pcap" THEN header'.link = file'[i].frame.link
            ELSE k(i) <= Cardinality(D(i)) /\ file'[Nth(D(i), k(i))].link = file'[i].frame.link
      BY DEF Ordinary, GivenLink, Described
    <2>2. D(m + 1) = S
      BY <1>1, <1>3 DEF Described
    <2>5. k(m + 1) = n
      BY <1>1
    <2> HIDE DEF m, n, S, D, k
    <2>3. IF header'.format = "pcap" THEN header'.link = file'[m + 1].frame.link
          ELSE k(m + 1) <= Cardinality(D(m + 1))
               /\ file'[Nth(D(m + 1), k(m + 1))].link = file'[m + 1].frame.link
      BY <1>3, <2>1
    <2>4. header' = header /\ file'[m + 1] = block
      BY <1>1
    <2> QED
      BY <2>2, <2>3, <2>4, <2>5, Zenon
  <1>5. CASE header.format = "pcap"
    <2>1. block.type = "record"
      BY <1>1, <1>5 DEF PacketTypes
    <2> QED
      BY <1>4, <1>5, <2>1 DEF LinkOf
  <1>6. CASE header.format = "pcapng"
    <2>1. interfaces \in Seq(Links) /\ Lists(interfaces, S, LinkOfDescribed) /\ Ranked(S)
      BY <1>1, <1>6, RanksTaken DEF InterfacesInv
    <2>2. Cardinality(S) \in Nat
      BY <1>1, AddPosition
    <2>3. /\ Len(interfaces) = Cardinality(S)
          /\ \A k \in 1 .. Len(interfaces) : interfaces[k] = LinkOfDescribed[Nth(S, k)]
      BY <2>1, <2>2, ListingLength
    <2>4. n \in Nat /\ n >= 1 /\ (block.type = "enhanced" => block.interface \in Nat)
          /\ (block.type = "enhanced" \/ block.type = "simple")
      <3>1. block \in Blocks["pcapng"]
        BY <1>6 DEF Reads
      <3>2. block.type = "enhanced" => block.interface \in Nat
        BY <3>1, LoopAssumption
      <3>3. block.type = "enhanced" \/ block.type = "simple"
        BY <1>1, <1>6 DEF PacketTypes
      <3> QED
        BY <3>2, <3>3
    <2>5. n \in 1 .. Len(interfaces)
      BY <1>4, <1>6, <2>2, <2>3, <2>4
    <2>6. Nth(S, n) \in S
      BY <1>1, <2>1, <2>3, <2>5, ListingGrows
    <2>7. interfaces[n] = file[Nth(S, n)].link
      BY <2>3, <2>5, <2>6 DEF LinkOfDescribed
    <2>8. interfaces[n] = block.frame.link
      BY <1>1, <1>4, <1>6, <2>6, <2>7
    <2>9. LinkOf(block) = interfaces[n]
      <3>1. interfaces # << >> /\ Len(interfaces) >= 1
        BY <2>1, <2>4, <2>5
      <3> HIDE DEF S
      <3>2. CASE block.type = "simple"
        BY <1>6, <3>1, <3>2 DEF LinkOf
      <3>3. CASE block.type = "enhanced"
        <4>1. block.interface < Len(interfaces) /\ n = block.interface + 1
          BY <2>1, <2>4, <2>5, <3>3
        <4> QED
          BY <1>6, <3>3, <4>1 DEF LinkOf
      <3> QED
        BY <2>4, <3>2, <3>3
    <2> QED
      BY <2>8, <2>9
  <1> QED
    BY <1>5, <1>6 DEF FileInv

-----------------------------------------------------------------------------
\* The packets.
LEMMA FrameIsProper ==
    ASSUME FileInv, NEW block \in Blocks[header.format], block.type \in PacketTypes
    PROVE  block \in PacketBlock /\ ProperFrame(block.frame)
  <1>1. header.format = "pcap" \/ header.format = "pcapng"
    BY DEF FileInv
  <1>2. block.type \in {"record", "enhanced", "simple"}
    BY DEF PacketTypes
  <1>3. ProperFrame(block.frame)
    BY <1>1, <1>2, LoopAssumption
  <1>4. block \in Blocks["pcap"] \union Blocks["pcapng"]
    BY <1>1
  <1> QED
    BY <1>2, <1>3, <1>4 DEF PacketBlock

LEMMA DecodesToYielded ==
    ASSUME FileInv, NEW block, Reads(block), ReadPacket(block), NEW link
    PROVE  DecodePacket(link, block.frame) \in Yielded
  <1>1. block \in PacketBlock /\ ProperFrame(block.frame)
    BY FrameIsProper DEF Reads, ReadPacket
  <1>2. DecodePacket(link, block.frame) = Carried(block.frame)
          \/ DecodePacket(link, block.frame) = NoPacket
    BY <1>1, Decodes
  <1>3. Carried(block.frame) \in Yielded /\ NoPacket \in Yielded
    BY <1>1 DEF Yielded
  <1> QED
    BY <1>2, <1>3

LEMMA PacketsNext ==
    ASSUME FileInv, InterfacesInv, PacketsInv, NEW block, Reads(block),
           \/ /\ ReadPacket(block)
              /\ packets' = Append(packets, DecodePacket(LinkOf(block), block.frame))
           \/ packets' = packets /\ ~(block.whole /\ block.type \in PacketTypes)
    PROVE  PacketsInv'
  <1> DEFINE m == Len(file)
             S == PacketBlocks
             S2 == PacketBlocks'
             f == CarriedByFile
             g == CarriedByFile'
             Y == Yielded
  <1>1. /\ m \in Nat /\ S \subseteq 1 .. m
        /\ \A i \in 1 .. m : file'[i] = file[i]
        /\ file'[m + 1] = block
        /\ S2 = IF block.whole /\ block.type \in PacketTypes THEN S \union {m + 1} ELSE S
    BY FileGrows, PlacesGrow
  <1>2. /\ packets \in Seq(Y) /\ Ranked(S)
        /\ Ordinary' => Lists(packets, S, f)
    BY <1>1, RanksTaken, OrdinaryBefore DEF PacketsInv
  <1>3. f = [i \in S |-> Carried(file[i].frame)] /\ g = [i \in S2 |-> Carried(file'[i].frame)]
    BY DEF CarriedByFile, Carried
  <1>4. S \subseteq S2
    BY <1>1
  <1> HIDE DEF m, S, S2, f, g, Y
  <1>5. \A i \in S : g[i] = f[i]
    BY <1>1, <1>3, <1>4
  <1>6. CASE /\ ReadPacket(block)
             /\ packets' = Append(packets, DecodePacket(LinkOf(block), block.frame))
    <2> DEFINE p == DecodePacket(LinkOf(block), block.frame)
    <2>1. p \in Y
      BY <1>6, DecodesToYielded DEF Y
    <2>2. S2 = S \union {m + 1}
      BY <1>1, <1>6 DEF ReadPacket
    <2>3. ASSUME Ordinary'
          PROVE  g[m + 1] = p
      <3>1. LinkOf(block) = block.frame.link
        BY <1>6, <2>3, OwnLink
      <3>2. ProperFrame(block.frame)
        BY <1>6, FrameIsProper DEF Reads, ReadPacket
      <3>3. p = Carried(block.frame)
        BY <3>1, <3>2, Decodes
      <3>4. g[m + 1] = Carried(block.frame)
        BY <1>1, <1>3, <2>2
      <3> QED
        BY <3>3, <3>4
    <2>4. packets' = Append(packets, p)
      BY <1>6
    <2> HIDE DEF p
    <2>5. Ordinary' => Lists(Append(packets, p), S \union {m + 1}, g)
      BY <1>1, <1>2, <1>5, <2>1, <2>3, ListingExtended
    <2>6. Append(packets, p) \in Seq(Y)
      BY <1>2, <2>1, AppendProperties
    <2>7. Ordinary' => Lists(packets', S2, g)
      BY <2>2, <2>4, <2>5
    <2>8. packets' \in Seq(Y)
      BY <2>4, <2>6
    <2> QED
      BY <2>7, <2>8 DEF PacketsInv, S2, g, Y
  <1>7. CASE packets' = packets /\ ~(block.whole /\ block.type \in PacketTypes)
    <2>1. S2 = S
      BY <1>1, <1>7
    <2>2. Ordinary' => Lists(packets, S, g)
      BY <1>1, <1>2, <1>5, ListingSame
    <2>3. (Ordinary' => Lists(packets', S2, g)) /\ packets' \in Seq(Y)
      BY <1>2, <1>7, <2>1, <2>2
    <2> QED
      BY <2>3 DEF PacketsInv, S2, g, Y
  <1> QED
    BY <1>6, <1>7

-----------------------------------------------------------------------------
\* The gate.  What it is offered are packets between endpoints.
LEMMA OfferedIsPacket ==
    ASSUME NEW p \in Yielded, p.transport = "udp"
    PROVE  Offered(p) \in Packet
  <1>1. p # NoPacket
    BY DEF NoPacket
  <1>2. PICK block \in PacketBlock : p = Carried(block.frame)
    BY <1>1 DEF Yielded
  <1>3. ProperFrame(block.frame)
    <2>1. block \in Blocks["pcap"] \/ block \in Blocks["pcapng"]
      BY DEF PacketBlock
    <2>2. block.type \in {"record", "enhanced", "simple"}
      BY DEF PacketBlock
    <2> QED
      BY <2>1, <2>2, LoopAssumption
  <1>4. /\ block.frame.src \in Endpoint /\ block.frame.dst \in Endpoint
        /\ block.frame.data \in DOMAIN Size
    BY <1>3 DEF ProperFrame
  <1>5. p.src = block.frame.src /\ p.dst = block.frame.dst /\ p.data = block.frame.data
    <2>1. p # IcmpPacket(block.frame)
      <3>1. IcmpPacket(block.frame).transport = "icmp"
        BY DEF IcmpPacket, NoPacket
      <3> QED
        BY <3>1
    <2> QED
      BY <1>1, <1>2, <2>1 DEF Carried
  <1>6. Size[block.frame.data] \in Sizes
    BY <1>4, LoopAssumption
  <1> QED
    BY <1>4, <1>5, <1>6 DEF Offered, Packet

Unowned(p) ==
    p.transport = "udp" /\ p.src \notin DnsEndpoint /\ p.dst \notin DnsEndpoint /\ p.data \notin BacnetData

\* A packet that no decoder claims is one that is neither DNS nor BACnet.
LEMMA ClaimedIs ==
    ASSUME NEW p
    PROVE  p.transport = "udp" /\ ~Claimed(p) <=> Unowned(p)
  BY DEF Claimed, HandlesDns, HandlesBacnet, Unowned

LEMMA GateNext ==
    ASSUME packets \in Seq(Yielded), GateInv,
           \/ packets' = packets /\ arrivals' = arrivals
           \/ \E p \in Yielded : packets' = Append(packets, p) /\ Decode(p)
    PROVE  GateInv'
  <1> DEFINE m == Len(packets)
             S == Unclaimed
             S2 == Unclaimed'
             f == OfferedOf
             g == OfferedOf'
  <1>1. CASE packets' = packets /\ arrivals' = arrivals
    BY <1>1 DEF GateInv, Unclaimed, OfferedOf, Offered
  <1>2. ASSUME NEW p \in Yielded, packets' = Append(packets, p), Decode(p)
        PROVE  GateInv'
    <2> DEFINE Y == Yielded
    <2>1. packets \in Seq(Y) /\ p \in Y
      OBVIOUS
    <2> HIDE DEF Y
    <2>2. /\ m \in Nat /\ DOMAIN packets = 1 .. m
          /\ DOMAIN packets' = (1 .. m) \union {m + 1}
          /\ \A i \in 1 .. m : packets'[i] = packets[i]
          /\ packets'[m + 1] = p
      BY <1>2, <2>1
    <2>3. /\ S = {i \in DOMAIN packets : Unowned(packets[i])}
          /\ S2 = {i \in DOMAIN packets' : Unowned(packets'[i])}
      BY DEF Unclaimed, Unowned
    <2>4. f = [i \in S |-> Offered(packets[i])] /\ g = [i \in S2 |-> Offered(packets'[i])]
      BY DEF OfferedOf, Offered
    <2>5. arrivals \in Seq(Packet) /\ Lists(arrivals, S, f)
      BY DEF GateInv
    <2> HIDE DEF m, S, S2, f, g
    <2>6. /\ S \subseteq 1 .. m
          /\ S2 = IF Unowned(p) THEN S \union {m + 1} ELSE S
      BY <2>2, <2>3
    <2>7. \A i \in S : i \in S2 /\ g[i] = f[i]
      BY <2>2, <2>4, <2>6
    <2>8. Ranked(S)
      BY <2>2, <2>6, RanksTaken
    <2>9. CASE Unowned(p)
      <3>1. p.transport = "udp" /\ ~Claimed(p)
        BY <2>9, ClaimedIs
      <3>2. arrivals' = Append(arrivals, Offered(p)) /\ Offered(p) \in Packet
        BY <1>2, <3>1, OfferedIsPacket DEF Decode, Offer
      <3> DEFINE o == Offered(p)
      <3>3. g[m + 1] = o
        BY <2>2, <2>4, <2>6, <2>9
      <3> HIDE DEF o
      <3>4. Lists(Append(arrivals, o), S \union {m + 1}, g)
        <4>1. o \in Packet
          BY <3>2 DEF o
        <4>2. m \in Nat /\ S \subseteq 1 .. m /\ arrivals \in Seq(Packet) /\ Lists(arrivals, S, f)
          BY <2>2, <2>5, <2>6
        <4>3. \A i \in S : g[i] = f[i]
          BY <2>7
        <4> QED
          BY <2>8, <3>3, <4>1, <4>2, <4>3, ListingExtended
      <3>5. Append(arrivals, o) \in Seq(Packet)
        BY <2>5, <3>2, AppendProperties DEF o
      <3>6. Lists(arrivals', S2, g) /\ arrivals' \in Seq(Packet)
        BY <2>6, <2>9, <3>2, <3>4, <3>5 DEF o
      <3> QED
        BY <3>6 DEF GateInv, S2, g
    <2>10. CASE ~Unowned(p)
      <3>1. arrivals' = arrivals
        BY <1>2, <2>10, ClaimedIs DEF Decode, GateUnchanged
      <3>2. Lists(arrivals, S, g)
        BY <2>2, <2>5, <2>6, <2>7, <2>8, ListingSame
      <3>3. Lists(arrivals', S2, g) /\ arrivals' \in Seq(Packet)
        BY <2>5, <2>6, <2>10, <3>1, <3>2
      <3> QED
        BY <3>3 DEF GateInv, S2, g
    <2> QED
      BY <2>9, <2>10
  <1> QED
    BY <1>1, <1>2

-----------------------------------------------------------------------------
LEMMA InitLoopInv == LoopInit => LoopInv
  <1> SUFFICES ASSUME LoopInit PROVE LoopInv
    OBVIOUS
  <1>1. /\ file = << >> /\ packets = << >> /\ arrivals = << >> /\ interfaces = << >>
        /\ header.format \in {"pcap", "pcapng"}
    BY DEF LoopInit, OpenFile, HistoryInit
  <1>2. FileInv
    BY <1>1 DEF FileInv
  <1>3. Described(Len(file)) = {} /\ PacketBlocks = {} /\ Unclaimed = {}
    BY <1>1 DEF Described, PacketBlocks, Unclaimed
  <1>4. /\ Lists(<< >>, {}, LinkOfDescribed) /\ Lists(<< >>, {}, CarriedByFile)
        /\ Lists(<< >>, {}, OfferedOf)
    BY EmptyListing
  <1>5. \A T : << >> \in Seq(T)
    OBVIOUS
  <1>6. InterfacesInv
    BY <1>1, <1>3, <1>4, <1>5 DEF InterfacesInv
  <1>7. PacketsInv
    BY <1>1, <1>3, <1>4, <1>5 DEF PacketsInv
  <1>8. GateInv
    BY <1>1, <1>3, <1>4, <1>5 DEF GateInv
  <1> QED
    BY <1>2, <1>6, <1>7, <1>8 DEF LoopInv

\* A block that is not a packet.
Passes(block) ==
    /\ \/ ReadInterface(block)
       \/ interfaces' = interfaces /\ ~(block.whole /\ block.type = "interface")
    /\ ~(block.whole /\ block.type \in PacketTypes)
    /\ UNCHANGED packets /\ GateUnchanged

\* A step of the loop reads a block: a packet that is yielded, an interface,
\* a block that is skipped or one that is cut off.
LEMMA LoopSteps ==
    ASSUME LoopInv, LoopNext
    PROVE  \E block : Reads(block) /\ (Yield(block) \/ Passes(block))
  <1>1. PICK block \in Blocks[header.format] :
          /\ file' = Append(file, block)
          /\ \/ Yield(block)
             \/ /\ ReadInterface(block) \/ SkipBlock(block) \/ StopReading(block)
                /\ UNCHANGED <<dnsVars, packets>> /\ GateUnchanged
    BY DEF LoopNext
  <1>2. CASE Yield(block)
    <2>1. header' = header
      BY <1>2 DEF Yield, ReadPacket, readerVars
    <2> QED
      BY <1>1, <1>2, <2>1 DEF Reads
  <1>3. CASE /\ ReadInterface(block) \/ SkipBlock(block) \/ StopReading(block)
             /\ UNCHANGED packets /\ GateUnchanged
    <2>1. header' = header
      BY <1>3 DEF ReadInterface, SkipBlock, StopReading, readerVars
    <2>2. ~(block.whole /\ block.type \in PacketTypes)
      BY <1>3 DEF ReadInterface, SkipBlock, StopReading, PacketTypes
    <2>3. \/ ReadInterface(block)
          \/ interfaces' = interfaces /\ ~(block.whole /\ block.type = "interface")
      <3>1. CASE SkipBlock(block)
        <4>1. interfaces' = interfaces /\ block.type # "interface"
          BY <3>1 DEF SkipBlock, readerVars
        <4> QED
          BY <4>1
      <3>2. CASE StopReading(block)
        <4>1. interfaces' = interfaces /\ ~block.whole
          BY <3>2 DEF StopReading
        <4> QED
          BY <4>1
      <3> QED
        BY <1>3, <3>1, <3>2
    <2> QED
      BY <1>1, <1>3, <2>1, <2>2, <2>3 DEF Reads, Passes
  <1> QED
    BY <1>1, <1>2, <1>3

LEMMA NextLoopInv == LoopInv /\ [LoopNext]_loopVars => LoopInv'
  <1> SUFFICES ASSUME LoopInv, [LoopNext]_loopVars PROVE LoopInv'
    OBVIOUS
  <1> USE DEF LoopInv
  <1>1. CASE UNCHANGED loopVars
    <2>1. UNCHANGED <<header, interfaces, file, packets, arrivals>>
      BY <1>1 DEF loopVars, readerVars
    <2>2. FileInv' /\ GateInv'
      BY <2>1 DEF FileInv, GateInv, Unclaimed, OfferedOf, Offered
    <2>3. InterfacesInv'
      BY <2>1 DEF InterfacesInv, LinkOfDescribed, Described
    <2>4. PacketsInv'
      BY <2>1 DEF PacketsInv, Ordinary, GivenLink, Described, CarriedByFile, PacketBlocks, PacketTypes
    <2> QED
      BY <2>2, <2>3, <2>4
  <1>2. CASE LoopNext
    <2>1. PICK block : Reads(block) /\ (Yield(block) \/ Passes(block))
      BY <1>2, LoopSteps
    <2>2. FileInv'
      BY <2>1, FileGrows
    <2>3. CASE Yield(block)
      <3> DEFINE p == DecodePacket(LinkOf(block), block.frame)
      <3>1. /\ ReadPacket(block) /\ packets' = Append(packets, p) /\ Decode(p)
            /\ interfaces' = interfaces
        BY <2>3 DEF Yield, ReadPacket, readerVars
      <3>2. block.type # "interface"
        BY <3>1 DEF ReadPacket, PacketTypes
      <3>3. InterfacesInv'
        BY <2>1, <3>1, <3>2, InterfacesNext
      <3>4. PacketsInv'
        BY <2>1, <3>1, PacketsNext
      <3>5. p \in Yielded
        BY <2>1, <3>1, DecodesToYielded
      <3> HIDE DEF p
      <3>6. GateInv'
        BY <3>1, <3>5, GateNext DEF PacketsInv
      <3> QED
        BY <2>2, <3>3, <3>4, <3>6
    <2>4. CASE Passes(block)
      <3>1. InterfacesInv'
        BY <2>1, <2>4, InterfacesNext DEF Passes
      <3>2. PacketsInv'
        BY <2>1, <2>4, PacketsNext DEF Passes
      <3>3. GateInv'
        BY <2>4, GateNext DEF PacketsInv, GateUnchanged, Passes
      <3> QED
        BY <2>2, <3>1, <3>2, <3>3
    <2> QED
      BY <2>1, <2>3, <2>4
  <1> QED
    BY <1>1, <1>2

THEOREM LoopInvariance == LoopSpec => []LoopInv
  BY InitLoopInv, NextLoopInv, PTL DEF LoopSpec

\* In every file in which each packet is of the link type that the file
\* gives it, the packets yielded are those captured, in order, whatever tags
\* and extension headers they have and whatever else is in the file.
THEOREM DecodedAsCapturedHolds == LoopSpec => []DecodedAsCaptured
  <1>1. LoopInv => DecodedAsCaptured
    BY DEF LoopInv, PacketsInv, DecodedAsCaptured, Lists, CarriedByFile
  <1> QED
    BY <1>1, LoopInvariance, PTL

\* The gate is offered exactly the UDP packets that are neither DNS by their
\* port nor BACnet by their content, in order.
THEOREM ClaimedNeverCarvedHolds == LoopSpec => []ClaimedNeverCarved
  <1>1. LoopInv => ClaimedNeverCarved
    BY DEF LoopInv, GateInv, ClaimedNeverCarved, Lists, OfferedOf
  <1> QED
    BY <1>1, LoopInvariance, PTL

\* Whatever the file, what the loop does with the gate is what HistorySpec
\* allows: each block either offers the gate one packet or leaves it alone.
THEOREM LoopImplementsGate == LoopSpec => HistorySpec
  <1>1. LoopInit => HistoryInit
    BY DEF LoopInit
  <1>2. LoopInv /\ [LoopNext]_loopVars => [HistoryNext]_<<vars, arrivals>>
    <2> SUFFICES ASSUME LoopInv, [LoopNext]_loopVars
                 PROVE  HistoryNext \/ UNCHANGED <<vars, arrivals>>
      OBVIOUS
    <2>1. CASE UNCHANGED loopVars
      BY <2>1 DEF loopVars
    <2>2. CASE LoopNext
      <3>1. PICK block : Reads(block) /\ (Yield(block) \/ GateUnchanged)
        BY <2>2, LoopSteps DEF Passes
      <3>2. CASE GateUnchanged
        BY <3>2 DEF GateUnchanged
      <3>3. CASE Yield(block)
        <4> DEFINE p == DecodePacket(LinkOf(block), block.frame)
        <4>1. p \in Yielded /\ Decode(p)
          BY <3>1, <3>3, DecodesToYielded DEF Yield, LoopInv
        <4> HIDE DEF p
        <4>2. CASE p.transport = "udp" /\ ~Claimed(p)
          <5>1. Offer(Offered(p)) /\ Offered(p) \in Packet
            BY <4>1, <4>2, OfferedIsPacket DEF Decode
          <5> QED
            BY <5>1 DEF HistoryNext
        <4>3. CASE ~(p.transport = "udp" /\ ~Claimed(p))
          BY <4>1, <4>3 DEF Decode, GateUnchanged
        <4> QED
          BY <4>2, <4>3
      <3> QED
        BY <3>1, <3>2, <3>3
    <2> QED
      BY <2>1, <2>2
  <1> QED
    BY <1>1, <1>2, LoopInvariance, PTL DEF LoopSpec, HistorySpec

\* So that all that is proved of the gate alone holds of it in the loop: its
\* budget, its account and its bound, and that it carves first comers.
THEOREM GateInLoop ==
    LoopSpec => [](TypeOK /\ BudgetPerConversation /\ NothingSilent /\ ReportBounded
                    /\ CandidatesAreFirstOfEach)
  <1>1. [HistoryNext]_<<vars, arrivals>> => [Next]_vars
    BY DEF HistoryNext, Offer, Next
  <1>2. HistorySpec => Spec
    BY <1>1, PTL DEF HistorySpec, HistoryInit, Spec
  <1> QED
    BY <1>2, LoopImplementsGate, TypeCorrectness, Budget, SuppressionReported, ReportBound,
       FirstComeFirstCarved, PTL

=============================================================================
