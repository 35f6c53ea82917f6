----------------------------- MODULE SmbDecoder -----------------------------
(***************************************************************************)
(* SmbDecoder.parse_stream (pcap_decode/protocols/smb.py) on the SMB2      *)
(* messages of a stream, each with its command, session, file identifier   *)
(* and data; a response to a read has no file identifier, and the offsets  *)
(* of the requests are not looked at.  A message that is not whole ends    *)
(* its direction (_parse_netbios_messages).                                *)
(***************************************************************************)
EXTENDS SequencesExt

\* Fault: the file identifier without the session.
KeyOfFile(m) == IF m.command = "write" THEN <<"write", m.file>> ELSE <<"read", m.session>>

Key(m) == IF m.command = "write" THEN <<"write", m.session, m.file>> ELSE <<"read", m.session>>

\* A write counts when the client sends it, a read when the server does.
Carries(m) == m.data # << >> /\ m.command = IF m.from = "client" THEN "write" ELSE "read"

\* What has been appended under each key.
SmbFiles(messages) ==
    LET carriers == SelectSeq(messages, Carries)
        Data(key) == LET own == SelectSeq(carriers, LAMBDA m : Key(m) = key)
                     IN  FlattenSeq([i \in DOMAIN own |-> own[i].data])
    IN  [key \in {Key(carriers[i]) : i \in DOMAIN carriers} |-> Data(key)]
=============================================================================
