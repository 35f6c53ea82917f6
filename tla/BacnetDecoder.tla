--------------------------- MODULE BacnetDecoder ----------------------------
(***************************************************************************)
(* The whole of BacnetDecoder (pcap_decode/protocols/bacnet.py): the file  *)
(* transfers of BacnetFiles, together with the counters, the observations  *)
(* of control-plane activity and the device inventory, all updated by      *)
(* process_packet.  A packet is what its bytes decode to:                  *)
(*   src, dst   addresses                                                  *)
(*   origin     the originating address of a forwarded NPDU                *)
(*   function   BVLC function                                              *)
(*   content    what it carries, and the fields of that content            *)
(***************************************************************************)
EXTENDS BacnetFiles

CONSTANTS
    MaxObservations,  \* MAX_OBSERVATIONS
    MaxDevices,       \* MAX_DEVICES
    MaxDetails,       \* distinct details kept for an observation (8)
    Nothing           \* a value that is not there (None)

ASSUME BacnetDecoderAssumption ==
    MaxObservations \in Nat /\ MaxDevices \in Nat /\ MaxDetails \in Nat

VARIABLES
    counts,        \* <<counter, name>> -> Nat, for every Counter of the decoder
    observations,  \* [what, src, dst] -> [count, details]
    devices        \* device instance -> record of the inventory

inventoryVars == <<counts, observations, devices>>

SensitiveConfirmed ==
    {"atomicReadFile", "atomicWriteFile", "createObject", "deleteObject", "writeProperty",
     "writePropertyMultiple", "deviceCommunicationControl", "confirmedPrivateTransfer",
     "reinitializeDevice", "authenticate", "requestKey"}

SensitiveUnconfirmed ==
    {"unconfirmedPrivateTransfer", "timeSynchronization", "utcTimeSynchronization", "writeGroup"}

ProbingRejectReasons == {"invalid-tag", "undefined-enumeration", "unrecognized-service"}

-----------------------------------------------------------------------------
Count(counter) == IF counter \in DOMAIN counts THEN counts[counter] ELSE 0

\* The counters in S are incremented, each once.
Tally(S) == counts' = [c \in DOMAIN counts \union S |-> Count(c) + (IF c \in S THEN 1 ELSE 0)]

Malformed == <<"packets", "malformed">>
Decoded(p) == {<<"packets", "decoded">>, <<"bvlc", p.function>>}
DecodedApdu(p, type) == Decoded(p) \union {<<"apdu", type>>}
Serviced(p, type, name) == DecodedApdu(p, type) \union {<<"service", name>>}

\* Fault: a full table refuses the observations it has, too.
ObservedUntilFull(what, p, detail) ==
    LET key == [what |-> what, src |-> p.src, dst |-> p.dst]
        old == IF key \in DOMAIN observations THEN observations[key]
               ELSE [count |-> 0, details |-> << >>]
    IN  IF Cardinality(DOMAIN observations) >= MaxObservations THEN observations
        ELSE Put(observations, key, [old EXCEPT !.count = @ + 1])

\* _record_observation: the observations afterwards.  A full table takes no
\* new service and peers.
Observed(what, p, detail) ==
    LET key == [what |-> what, src |-> p.src, dst |-> p.dst]
        old == IF key \in DOMAIN observations THEN observations[key]
               ELSE [count |-> 0, details |-> << >>]
        isNew == detail # Nothing /\ detail \notin ToSet(old.details) /\ Len(old.details) < MaxDetails
    IN  IF key \notin DOMAIN observations /\ Cardinality(DOMAIN observations) >= MaxObservations
        THEN observations
        ELSE Put(observations, key,
                 [count |-> old.count + 1,
                  details |-> IF isNew THEN Append(old.details, detail) ELSE old.details])

Record(what, p, detail) == observations' = Observed(what, p, detail)

-----------------------------------------------------------------------------
DecoderInit ==
    /\ FilesInit
    /\ counts = << >>
    /\ observations = << >>
    /\ devices = << >>

\* A BVLC function that carries no NPDU is only counted.
ControlFunction(p) ==
    /\ p.content = "control"
    /\ Tally(Decoded(p))
    /\ UNCHANGED <<filesVars, observations, devices>>

\* The NPDU cannot be parsed, or has no APDU.
UnreadableNpdu(p) ==
    /\ p.content = "unreadable"
    /\ Tally(Decoded(p) \union {Malformed})
    /\ UNCHANGED <<filesVars, observations, devices>>

NetworkMessage(p) ==
    /\ p.content = "network"
    /\ Tally(Decoded(p) \union {<<"network", p.message>>})
    /\ observations' = IF p.sensitive THEN Observed(<<"network", p.message>>, p, Nothing) ELSE observations
    /\ UNCHANGED <<filesVars, devices>>

\* An APDU shorter than its fixed part.
ShortApdu(p) ==
    /\ p.content = "short"
    /\ Tally(DecodedApdu(p, p.type) \union {Malformed})
    /\ UNCHANGED <<filesVars, observations, devices>>

\* Simple and segment acknowledgements, and unknown types.
OtherApdu(p) ==
    /\ p.content = "other"
    /\ Tally(DecodedApdu(p, p.type))
    /\ UNCHANGED <<filesVars, observations, devices>>

-----------------------------------------------------------------------------
\* _parse_confirmed_request
RoutineRequest(p) ==
    /\ p.content = "confirmed" /\ p.service \notin SensitiveConfirmed
    /\ Tally(Serviced(p, "confirmed-request", p.service))
    /\ UNCHANGED <<filesVars, observations, devices>>

\* Fault: a read whose file is known is taken up without being flagged.
ReadFileUnflagged(p) ==
    /\ p.content = "confirmed" /\ p.service = "atomicReadFile"
    /\ Tally(Serviced(p, "confirmed-request", p.service))
    /\ IF p.file = Nothing THEN Record(<<"service", p.service>>, p, Nothing) /\ UNCHANGED filesVars
       ELSE RememberFileRead(p.src, p.dst, p.invoke, p.file) /\ UNCHANGED observations
    /\ UNCHANGED devices

ReadFileRequest(p) ==
    /\ p.content = "confirmed" /\ p.service = "atomicReadFile"
    /\ Tally(Serviced(p, "confirmed-request", p.service))
    /\ IF p.file = Nothing THEN UNCHANGED filesVars
       ELSE RememberFileRead(p.src, p.dst, p.invoke, p.file)
    /\ Record(<<"service", p.service>>, p, p.file)
    /\ UNCHANGED devices

WriteRequest(p) ==
    /\ p.content = "confirmed" /\ p.service = "atomicWriteFile"
    /\ Tally(Serviced(p, "confirmed-request", p.service))
    /\ IF p.file = Nothing THEN UNCHANGED filesVars
       ELSE WriteFileRequest(p.src, p.dst, p.file, p.apdu)
    /\ Record(<<"service", p.service>>, p, p.file)
    /\ UNCHANGED devices

\* The objects whose properties are written, <<type, instance>>, are counted
\* by type.
WriteTarget(p) ==
    IF p.service \in {"writeProperty", "writePropertyMultiple"} /\ p.detail # Nothing
    THEN {<<"object", p.detail[1]>>} ELSE {}

CommandRequest(p) ==
    /\ p.content = "confirmed"
    /\ p.service \in SensitiveConfirmed \ {"atomicReadFile", "atomicWriteFile"}
    /\ Tally(Serviced(p, "confirmed-request", p.service) \union WriteTarget(p))
    /\ Record(<<"service", p.service>>, p, p.detail)
    /\ UNCHANGED <<filesVars, devices>>

-----------------------------------------------------------------------------
\* _parse_unconfirmed_request
WhoIs(p) ==
    /\ p.content = "unconfirmed" /\ p.service = "who-Is"
    /\ Tally(Serviced(p, "unconfirmed-request", p.service) \union {<<"whois", p.src>>})
    /\ UNCHANGED <<filesVars, observations, devices>>

Unconfirmed(p) ==
    /\ p.content = "unconfirmed" /\ p.service \notin {"who-Is", "i-Am"}
    /\ Tally(Serviced(p, "unconfirmed-request", p.service))
    /\ observations' = IF p.service \in SensitiveUnconfirmed
                       THEN Observed(<<"service", p.service>>, p, Nothing) ELSE observations
    /\ UNCHANGED <<filesVars, devices>>

\* _record_i_am: an I-Am of no device, or with the inventory full, even of a
\* device that is in it.
IgnoredIAm(p) ==
    /\ p.content = "unconfirmed" /\ p.service = "i-Am"
    /\ p.instance = Nothing \/ Cardinality(DOMAIN devices) >= MaxDevices
    /\ Tally(Serviced(p, "unconfirmed-request", p.service))
    /\ UNCHANGED <<filesVars, observations, devices>>

Address(p) == IF p.origin = Nothing THEN p.src ELSE p.origin

\* Fault: a device that is in the inventory keeps its first address.
IAmOnce(p) ==
    /\ p.content = "unconfirmed" /\ p.service = "i-Am"
    /\ p.instance # Nothing /\ Cardinality(DOMAIN devices) < MaxDevices
    /\ Tally(Serviced(p, "unconfirmed-request", p.service))
    /\ devices' = IF p.instance \in DOMAIN devices THEN devices
                  ELSE Put(devices, p.instance,
                           [address |-> Address(p), relayed_by |-> Nothing, numbers |-> p.numbers])
    /\ UNCHANGED <<filesVars, observations>>

\* Numbers that this I-Am does not have, and the relay of an earlier one,
\* stay in the record.
IAm(p) ==
    LET old == IF p.instance \in DOMAIN devices THEN devices[p.instance]
               ELSE [address |-> Nothing, relayed_by |-> Nothing, numbers |-> << >>]
    IN  /\ p.content = "unconfirmed" /\ p.service = "i-Am"
        /\ p.instance # Nothing /\ Cardinality(DOMAIN devices) < MaxDevices
        /\ Tally(Serviced(p, "unconfirmed-request", p.service))
        /\ devices' = Put(devices, p.instance,
             [address |-> Address(p),
              relayed_by |-> IF Address(p) # p.src THEN p.src ELSE old.relayed_by,
              numbers |-> p.numbers \o SubSeq(old.numbers, Len(p.numbers) + 1, Len(old.numbers))])
        /\ UNCHANGED <<filesVars, observations>>

-----------------------------------------------------------------------------
\* _parse_complex_ack
ComplexAck(p) ==
    /\ p.content = "complex-ack"
    /\ Tally(DecodedApdu(p, "complex-ack") \union {<<"ack", p.service>>})
    /\ IF p.service = "atomicReadFile" THEN ReadFileAck(p.src, p.dst, p.invoke, p.apdu)
       ELSE UNCHANGED filesVars
    /\ UNCHANGED <<observations, devices>>

\* _parse_error: an error without a class is counted with its service only.
ErrorApdu(p) ==
    /\ p.content = "error"
    /\ Tally(DecodedApdu(p, "error") \union {<<"service-error", p.service>>}
               \union {<<"error", <<c, p.code>>>> : c \in {p.class} \ {Nothing}})
    /\ observations' = IF p.class = "security" THEN Observed(<<"error", p.service>>, p, <<p.class, p.code>>)
                       ELSE observations
    /\ RefusedRead
    /\ UNCHANGED devices

\* _parse_reject_or_abort
Reject(p) ==
    /\ p.content = "reject"
    /\ Tally(DecodedApdu(p, "reject") \union {<<"reject", p.reason>>})
    /\ observations' = IF p.reason \in ProbingRejectReasons THEN Observed(<<"reject", "reject">>, p, p.reason)
                       ELSE observations
    /\ RefusedRead
    /\ UNCHANGED devices

Abort(p) ==
    /\ p.content = "abort"
    /\ Tally(DecodedApdu(p, "abort") \union {<<"abort", p.reason>>})
    /\ RefusedRead
    /\ UNCHANGED <<observations, devices>>

ProcessPacket(p) ==
    \/ ControlFunction(p) \/ UnreadableNpdu(p) \/ NetworkMessage(p)
    \/ ShortApdu(p) \/ OtherApdu(p)
    \/ RoutineRequest(p) \/ ReadFileRequest(p) \/ WriteRequest(p) \/ CommandRequest(p)
    \/ WhoIs(p) \/ Unconfirmed(p) \/ IgnoredIAm(p) \/ IAm(p)
    \/ ComplexAck(p) \/ ErrorApdu(p) \/ Reject(p) \/ Abort(p)

FinalizeDecoder == FinalizeFiles /\ UNCHANGED inventoryVars
=============================================================================
