----------------------------- MODULE FtpDecoder -----------------------------
(***************************************************************************)
(* FtpDecoder (pcap_decode/protocols/ftp.py).  A control stream tells the  *)
(* endpoints and the names of transfers; a later stream of such an         *)
(* endpoint is a file with that name.  A stream has                        *)
(*   client, server  endpoints [host, port]                                *)
(*   c2s, s2c        payloads                                              *)
(*   passive, names, active  what a control stream's text holds, in order: *)
(*                   addresses of 227 replies, names of RETR and STOR      *)
(*                   commands, addresses of PORT commands                  *)
(* A name is [base |-> sequence of parts, ext |-> extension].              *)
(***************************************************************************)
EXTENDS Integers, SequencesExt, FiniteSetsExt

CONSTANTS
    Size,    \* payload -> number of bytes
    NoName   \* the name that is not there

ASSUME FtpAssumption == \A p \in DOMAIN Size : Size[p] \in Nat

VARIABLE data_port_map  \* endpoint -> name

\* A sequence of any elements, and a name.
IsSequence(s) == s \in Seq(ToSet(s))
IsName(n) == n = [base |-> n.base, ext |-> n.ext] /\ IsSequence(n.base)

DefaultName == [base |-> <<"ftp_file">>, ext |-> "bin"]
UnknownTransfer == [base |-> <<"ftp_transfer">>, ext |-> "bin"]

ASSUME NoNameAssumption == NoName # DefaultName

IsControl(stream) == 21 \in {stream.client.port, stream.server.port}

FtpInit == data_port_map = << >>

\* Fault: the commands are taken from the last one on.
RegisterReversed(stream) ==
    LET channels == stream.passive \o stream.active
        names == Reverse(stream.names)
        NameOf(i) == IF i <= Len(names) THEN names[i] ELSE DefaultName
        Newest(e) == Max({i \in DOMAIN channels : channels[i] = e})
    IN  data_port_map' = [e \in DOMAIN data_port_map \union ToSet(channels) |->
                            IF e \in ToSet(channels) THEN NameOf(Newest(e)) ELSE data_port_map[e]]

\* register_control_stream: the names go to the passive channels first, then
\* to the active ones, and each replaces what its endpoint had.
RegisterControlStream(stream) ==
    LET channels == stream.passive \o stream.active
        NameOf(i) == IF i <= Len(stream.names) THEN stream.names[i] ELSE DefaultName
        Latest(e) == Max({i \in DOMAIN channels : channels[i] = e})
    IN  data_port_map' = [e \in DOMAIN data_port_map \union ToSet(channels) |->
                            IF e \in ToSet(channels) THEN NameOf(Latest(e)) ELSE data_port_map[e]]

\* The name of a data stream: that of its server's endpoint, or else of its
\* client's.
KnownName(stream) ==
    IF stream.server \in DOMAIN data_port_map THEN data_port_map[stream.server]
    ELSE IF stream.client \in DOMAIN data_port_map THEN data_port_map[stream.client]
    ELSE NoName

DataPayload(stream) == IF Size[stream.s2c] > Size[stream.c2s] THEN stream.s2c ELSE stream.c2s

\* What parse_stream returns.
FtpObjects(stream) ==
    IF \/ IsControl(stream) \/ Size[DataPayload(stream)] = 0
       \/ KnownName(stream) = NoName /\ 20 \notin {stream.client.port, stream.server.port}
    THEN << >>
    ELSE << [data |-> DataPayload(stream), proto |-> "FTP", src |-> stream.client, xor |-> FALSE,
             name |-> IF KnownName(stream) = NoName THEN UnknownTransfer ELSE KnownName(stream)] >>

\* What parse_stream does to the table.
FtpParse(stream) == IF IsControl(stream) THEN RegisterControlStream(stream) ELSE UNCHANGED data_port_map
=============================================================================
