--------------------------- MODULE BacnetCapture ----------------------------
(***************************************************************************)
(* BacnetDecoder fed by captures of control-plane traffic, with the        *)
(* history of the packets, so that what it reports can be compared with    *)
(* the capture as a whole.                                                 *)
(***************************************************************************)
EXTENDS BacnetDecoder, FirstComers

CONSTANTS
    Traffic,    \* the packets a capture may hold
    MaxPackets  \* bound on the length of the capture

VARIABLES
    arrivals,   \* every packet processed, in order
    finalized   \* the capture has ended

vars == <<filesVars, inventoryVars, arrivals, finalized>>

Init == DecoderInit /\ arrivals = << >> /\ finalized = FALSE

Capture(p) ==
    /\ ~finalized /\ Len(arrivals) < MaxPackets
    /\ ProcessPacket(p)
    /\ arrivals' = Append(arrivals, p)
    /\ UNCHANGED finalized

Finish == ~finalized /\ FinalizeDecoder /\ finalized' = TRUE /\ UNCHANGED arrivals

Next == (\E p \in Traffic : Capture(p)) \/ Finish

Spec == Init /\ [][Next]_vars

-----------------------------------------------------------------------------
\* What a packet is flagged as: << >>, or what and with which detail.
FileServices == {"atomicReadFile", "atomicWriteFile"}

Flag(p) ==
    CASE p.content = "network" /\ p.sensitive -> <<<<"network", p.message>>, Nothing>>
      [] p.content = "confirmed" /\ p.service \in FileServices -> <<<<"service", p.service>>, p.file>>
      [] p.content = "confirmed" /\ p.service \in SensitiveConfirmed \ FileServices ->
           <<<<"service", p.service>>, p.detail>>
      [] p.content = "unconfirmed" /\ p.service \in SensitiveUnconfirmed ->
           <<<<"service", p.service>>, Nothing>>
      [] p.content = "error" /\ p.class = "security" -> <<<<"error", p.service>>, <<p.class, p.code>>>>
      [] p.content = "reject" /\ p.reason \in ProbingRejectReasons -> <<<<"reject", "reject">>, p.reason>>
      [] OTHER -> << >>

KeyOf(p) == [what |-> Flag(p)[1], src |-> p.src, dst |-> p.dst]

\* The flagged packets of the capture, by what they are kept under.
Activity == [i \in {k \in DOMAIN arrivals : Flag(arrivals[k]) # << >>} |-> KeyOf(arrivals[i])]

DetailsOf(key) == {Flag(arrivals[i])[2] : i \in PositionsOf(Activity, key)} \ {Nothing}

\* The report has exactly the first MaxObservations kinds of activity, with
\* the number of all their packets, those that came while the table was full
\* too, and with their distinct details as far as there is room (lines 774-795).
ObservationsExact ==
    /\ DOMAIN observations = FirstKeys(Activity, MaxObservations)
    /\ \A key \in DOMAIN observations :
         LET details == observations[key].details IN
         /\ observations[key].count = Cardinality(PositionsOf(Activity, key))
         /\ \A i, j \in DOMAIN details : details[i] = details[j] => i = j
         /\ ToSet(details) \subseteq DetailsOf(key)
         /\ ToSet(details) = DetailsOf(key) \/ Len(details) = MaxDetails

Announcements == {i \in DOMAIN arrivals :
    LET p == arrivals[i] IN p.content = "unconfirmed" /\ p.service = "i-Am" /\ p.instance # Nothing}

Latest(i) == \A j \in Announcements : arrivals[j].instance = arrivals[i].instance => j <= i

\* As long as the inventory has room, it has every device that announced
\* itself, at the address of its last announcement: the originating one if
\* that was forwarded (README.md:24, and the tests of forwarded I-Am).
InventoryLatest ==
    Cardinality(DOMAIN devices) < MaxDevices =>
        \A i \in Announcements :
            LET p == arrivals[i] IN
            /\ p.instance \in DOMAIN devices
            /\ Latest(i) => devices[p.instance].address = Address(p)

\* The observation that a transfer belongs to.  A read is the client's
\* activity, its data the server's.
ActivityOf(key) ==
    IF key.direction = "read"
    THEN [what |-> <<"service", "atomicReadFile">>, src |-> key.dst, dst |-> key.src]
    ELSE [what |-> <<"service", "atomicWriteFile">>, src |-> key.src, dst |-> key.dst]

FlaggedTransfer(key) ==
    /\ ActivityOf(key) \in DOMAIN observations
    /\ LET details == observations[ActivityOf(key)].details
       IN  key.file \in ToSet(details) \/ Len(details) >= MaxDetails

\* Whoever's file is in the report is in the list of observations as well:
\* no transfer is extracted that the control-plane part does not flag, as
\* long as that list has room, and its file is named there unless the list
\* of details is full (lines 542-572 and 597-618).
TransfersFlagged ==
    Cardinality(DOMAIN observations) < MaxObservations =>
        \A key \in DOMAIN file_buffers \union {candidates[i].key : i \in DOMAIN candidates} :
            FlaggedTransfer(key)
=============================================================================
