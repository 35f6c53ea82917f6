---------------------------- MODULE StreamFiles -----------------------------
(***************************************************************************)
(* The decoders that work on whole streams, given what clients and servers *)
(* exchange: SMB messages, mail sessions, and files inside other data.  A  *)
(* stream grows by one item at a time; since a capture may end anywhere,   *)
(* the properties speak of every beginning of it.                          *)
(***************************************************************************)
EXTENDS SmbDecoder, EmailDecoder, FileCarver

CONSTANTS
    Items,      \* kind of stream -> what it may consist of:
                \*   "smb"            messages; a byte is [of, pos]
                \*   "smtp", "pop3"   [lines, carries]
                \*   "data"           [symbols, files]
    Greeting,   \* the lines before the first item of a mail session
    MaxItems    \* bound on their number

VARIABLES kind, sent

vars == <<kind, sent>>

Init == kind \in DOMAIN Items /\ sent = << >>

Next ==
    /\ Len(sent) < MaxItems
    /\ \E item \in Items[kind] : sent' = Append(sent, item)
    /\ UNCHANGED kind

Spec == Init /\ [][Next]_vars

-----------------------------------------------------------------------------
Bytes(file, p, q) == [i \in 1 .. q - p + 1 |-> [of |-> file, pos |-> p + i - 1]]

\* The bytes of a file that the messages to or about it carry, if they go
\* through it from its beginning.
Sequential(messages) == \A i \in DOMAIN messages :
    messages[i].pos = IF i = 1 THEN 1 ELSE messages[i - 1].pos + Len(messages[i - 1].data)

SentOf(file, command) == SelectSeq(sent, LAMBDA m : <<m.session, m.file>> = file /\ m.command = command
                                                     /\ Carries(m))

FilesOf(session) == {sent[i].file : i \in {n \in DOMAIN sent :
                        Carries(sent[n]) /\ sent[n].command = "read" /\ sent[n].session = session}}

\* A file that is written from its beginning on is extracted as it was
\* written, and so is one that is read, if it is the only one read in its
\* session, whatever else is transferred on the connection in between, and in
\* other sessions under the same file identifier (README.md:22).
TransfersExtracted ==
    kind = "smb" => \A i \in DOMAIN sent : \A command \in {"read", "write"} :
        LET m == sent[i]
            file == <<m.session, m.file>>
            own == SentOf(file, command)
        IN  /\ m.command = command /\ Carries(m) /\ Sequential(own)
            /\ command = "read" => FilesOf(m.session) = {m.file}
            => SmbFiles(sent)[Key(m)] = Bytes(file, 1, own[Len(own)].pos + Len(own[Len(own)].data) - 1)

Lines == Greeting[kind] \o FlattenSeq([i \in DOMAIN sent |-> sent[i].lines])

\* Where the i-th item ends.
EndOfItem(i) == Len(Greeting[kind]) + Len(FlattenSeq([k \in 1 .. i |-> sent[k].lines]))

Extracted(lines) == EmailObjects(kind = "smtp", kind = "pop3", FALSE, lines, lines)

\* The attachments of all mails are extracted, each once and in order, and
\* of a mail that is cut off those that came: texts that contain the
\* marks of another mail, empty mails and replies without one in between change
\* nothing (README.md:20).
AttachmentsOnce ==
    kind \in {"smtp", "pop3"} => \A n \in 0 .. Len(Lines) :
        LET lines == SubSeq(Lines, 1, n)
            whole == {i \in DOMAIN sent : EndOfItem(i) <= n}
            carried == FlattenSeq([i \in 1 .. Cardinality(whole) |-> sent[i].carries])
            cut == IF whole = DOMAIN sent THEN << >> ELSE sent[Cardinality(whole) + 1].carries
        IN  IsPrefix(carried, Extracted(lines)) /\ IsPrefix(Extracted(lines), carried \o cut)

Data == FlattenSeq([i \in DOMAIN sent |-> sent[i].symbols])

\* The files in the data, with their places in them.
Planted ==
    UNION {LET start == Len(FlattenSeq([k \in 1 .. i - 1 |-> sent[k].symbols]))
           IN  {[f EXCEPT !.from = @ + start, !.to = @ + start] : f \in sent[i].files} : i \in DOMAIN sent}

\* Nothing behind a file looks like a later end of it.
EndsLast(file, data) ==
    CASE file.format = "zip" -> \A i \in file.to + 1 .. Len(data) : data[i].symbol \notin DOMAIN EndRecord
      [] file.format = "pdf" -> \A i \in file.to + 1 .. Len(data) : data[i].symbol \notin {"%%EOF"} \union Blank
      [] OTHER -> file.format \in {"pe", "elf"}

\* Every file in the clear is carved from its first to exactly its last
\* byte, if its format says where that is, and with everything up to its
\* last byte otherwise - inside another file too - and so is the first
\* program under each XOR key; and what is carved begins where a file does
\* (README.md:28-34).
FilesCarved ==
    kind = "data" => \A n \in 0 .. Len(Data) :
        LET data == SubSeq(Data, 1, n)
            carved == {c \in CarveAll(data) : c.format \notin {"ps1", "sh", "bat"}}
            files == {f \in Planted : f.to <= n}
            First(f) == \A g \in Planted : g.key = f.key => f.from <= g.from
        IN  n >= MinLength["any"] =>
            /\ \A f \in files : f.key = 0 /\ f.to - f.from + 1 >= MinLength[f.format] =>
                 \E c \in carved : /\ c.format = f.format /\ c.at = f.from /\ c.key = 0
                                   /\ Len(c.data) >= f.to - f.from + 1
                                   /\ EndsLast(f, data) => Len(c.data) = f.to - f.from + 1
            /\ \A f \in files : f.key # 0 /\ First(f) /\ n >= MinLength["xor"] =>
                 \E c \in carved : c.at = f.from /\ c.key = f.key /\ Len(c.data) = f.to - f.from + 1
            /\ \A c \in carved : \E f \in Planted : f.format = c.format /\ f.from = c.at /\ f.key = c.key
=============================================================================
