---------------------------- MODULE EmailDecoder ----------------------------
(***************************************************************************)
(* EmailDecoder (pcap_decode/protocols/email.py) on the lines of a         *)
(* stream.  A line that carries an attachment stands for its whole MIME    *)
(* part.                                                                   *)
(***************************************************************************)
EXTENDS Integers, SequencesExt, FiniteSetsExt

CONSTANTS
    FieldLine,   \* header fields with which a message begins
    OkLine,      \* lines that contain "+OK"
    Attachment   \* line -> the attachment it carries

\* The positions behind the marks.
Behind(lines, marks) ==
    SelectSeq([i \in 1 .. Len(lines) + 1 |-> i], LAMBDA i : i > 1 /\ lines[i - 1] \in marks)

\* Fault: a full stop ends a message wherever the search for it began.
UpToAnyEnd(lines, start) ==
    LET ends == {j \in DOMAIN lines : lines[j] = "."}
    IN  SubSeq(lines, start, IF ends = {} THEN Len(lines) ELSE Min(ends) - 1)

\* The lines from start up to the next full stop, which cannot be the first
\* of them; all of them if there is none.
UpToEnd(lines, start) ==
    LET ends == {j \in start + 1 .. Len(lines) : lines[j] = "."}
    IN  SubSeq(lines, start, IF ends = {} THEN Len(lines) ELSE Min(ends) - 1)

MessagesFrom(lines, starts) == [k \in DOMAIN starts |-> UpToEnd(lines, starts[k])]

\* _extract_smtp_messages.  The DATA line that follows another directly, which
\* the regular expression leaves out, is not in these streams.
SmtpMessages(lines) ==
    LET starts == Behind(lines, {"DATA"})
    IN  IF starts # << >> THEN MessagesFrom(lines, starts)
        ELSE IF ToSet(lines) \cap FieldLine # {} THEN <<lines>> ELSE << >>

\* _extract_pop3_imap_messages.
Pop3Messages(lines) ==
    LET starts == Behind(lines, OkLine)
    IN  IF starts # << >> THEN MessagesFrom(lines, starts)
        ELSE IF ToSet(lines) \cap FieldLine # {} THEN <<lines>> ELSE << >>

\* _process_email_bytes: what does not begin with a header has no parts.
Attachments(message) ==
    LET parts == SelectSeq(message, LAMBDA line : line \in DOMAIN Attachment)
    IN  IF message # << >> /\ message[1] \in FieldLine
        THEN [i \in DOMAIN parts |-> Attachment[parts[i]]] ELSE << >>

AllAttachments(messages) == FlattenSeq([k \in DOMAIN messages |-> Attachments(messages[k])])

\* parse_stream.
EmailObjects(smtp, pop3, imap, client, server) ==
    (IF smtp THEN AllAttachments(SmtpMessages(client)) ELSE << >>)
    \o (IF pop3 \/ imap THEN AllAttachments(Pop3Messages(server)) ELSE << >>)
=============================================================================
