-------------------------- MODULE BacnetTransfers ---------------------------
(***************************************************************************)
(* BacnetFiles fed by a capture of a client that reads and writes files on *)
(* servers, chunk by chunk.  The capture has every packet; requests may be *)
(* repeated and refused, and several may be outstanding.  A byte is its    *)
(* file and its position in it.                                            *)
(***************************************************************************)
EXTENDS BacnetFiles

CONSTANTS
    Client,
    Stored,      \* the files on servers: records [server, file]
    FileLen,     \* file -> its length in bytes
    MaxChunk,    \* bound on the bytes of one chunk
    InvokeIds,
    MaxCaptured   \* bound on the packets of the capture

ASSUME BacnetTransfersAssumption ==
    /\ \A f \in Stored : f = [server |-> f.server, file |-> f.file]
    /\ FileLen \in [Stored -> Nat]
    /\ MaxChunk \in Nat
    /\ MaxCaptured \in Nat

VARIABLES
    outstanding,  \* [server, invoke] -> the request that is not answered yet
    asked,        \* file -> position up to which it has been asked for
    written,      \* file -> position up to which it has been written
    pipelined,    \* several requests for one file may be outstanding
    overflowed,   \* the table of pending reads was full once
    ended,        \* the capture has ended
    count         \* packets captured so far

clientVars == <<outstanding, asked, written, pipelined>>
transfersVars == <<filesVars, clientVars, overflowed, ended, count>>

Positions(f) == 0 .. FileLen[f] - 1

\* The first n bytes of a file, and its bytes p .. p + n - 1.
Bytes(f, p, n) == [i \in 1 .. n |-> [file |-> f, pos |-> p + i - 1]]
Prefix(f, n) == Bytes(f, 0, n)

\* The n bytes of a file from p on in octet strings: in one or in two, in none
\* if there are none.
Octets(f, p, n) ==
    IF n = 0 THEN {<< >>}
    ELSE {<<Bytes(f, p, n)>>}
           \union {<<Bytes(f, p, k), Bytes(f, p + k, n - k)>> : k \in 1 .. n - 1}

\* The APDUs that carry them.
Apdus(f, p, n, eof) == {[start |-> p, eof |-> eof, chunks |-> c] : c \in Octets(f, p, n)}

Outstanding(f) == {o \in DOMAIN outstanding : outstanding[o].file = f}

-----------------------------------------------------------------------------
ClientInit ==
    /\ FilesInit
    /\ outstanding = << >>
    /\ asked = [f \in Stored |-> 0]
    /\ written = [f \in Stored |-> 0]
    /\ pipelined \in BOOLEAN
    /\ overflowed = FALSE
    /\ ended = FALSE
    /\ count = 0

CapturePacket == ~ended /\ count < MaxCaptured /\ count' = count + 1 /\ UNCHANGED ended

SendRequest(f, invoke) ==
    /\ CapturePacket
    /\ RememberFileRead(Client, f.server, invoke, f.file)
    /\ overflowed' = (overflowed \/ Cardinality(DOMAIN pending_file_reads) >= MaxPending)

\* A read of the next bytes, under an invoke ID that is not in use.  After
\* the end of the file the client begins anew.
Request(f, invoke) ==
    LET o == [server |-> f.server, invoke |-> invoke]
        from == IF asked[f] = FileLen[f] THEN 0 ELSE asked[f]
    IN  /\ o \notin DOMAIN outstanding
        /\ Outstanding(f) # {} => pipelined /\ asked[f] < FileLen[f]
        /\ \E n \in 0 .. Min({MaxChunk, FileLen[f] - from}) :
             /\ outstanding' = Put(outstanding, o, [file |-> f, from |-> from, n |-> n])
             /\ asked' = [asked EXCEPT ![f] = from + n]
        /\ SendRequest(f, invoke)
        /\ UNCHANGED <<written, pipelined>>

\* The client is not answered in time and sends its request again.
Repeat(o) ==
    /\ SendRequest(outstanding[o].file, o.invoke)
    /\ UNCHANGED clientVars

Answer(o) ==
    LET r == outstanding[o] IN
    /\ CapturePacket
    /\ \E apdu \in Apdus(r.file, r.from, r.n, r.from + r.n = FileLen[r.file]) :
         ReadFileAck(o.server, Client, o.invoke, apdu)
    /\ outstanding' = Without(outstanding, o)
    /\ UNCHANGED <<asked, written, pipelined, overflowed>>

\* An error, reject or abort: the client will ask for the same bytes again.
Refuse(o) ==
    /\ CapturePacket
    /\ RefusedRead
    /\ outstanding' = Without(outstanding, o)
    /\ asked' = [asked EXCEPT ![outstanding[o].file] = outstanding[o].from]
    /\ UNCHANGED <<written, pipelined, overflowed>>

\* A write of the next bytes, the last ones with or without an end-of-file mark.
Write(f) ==
    LET from == IF written[f] = FileLen[f] THEN 0 ELSE written[f] IN
    /\ CapturePacket
    /\ \E n \in 1 .. Min({MaxChunk, FileLen[f] - from}) :
         /\ written' = [written EXCEPT ![f] = from + n]
         /\ \E eof \in BOOLEAN :
              /\ eof => from + n = FileLen[f]
              /\ \E apdu \in Apdus(f, from, n, eof) : WriteFileRequest(Client, f.server, f.file, apdu)
    /\ UNCHANGED <<outstanding, asked, pipelined, overflowed>>

EndTransfers ==
    /\ ~ended
    /\ FinalizeFiles
    /\ ended' = TRUE
    /\ UNCHANGED <<clientVars, overflowed, count>>

ClientNext ==
    \/ \E f \in Stored : Write(f) \/ \E invoke \in InvokeIds : Request(f, invoke)
    \/ \E o \in DOMAIN outstanding : Repeat(o) \/ Answer(o) \/ Refuse(o)
    \/ EndTransfers

ClientSpec == ClientInit /\ [][ClientNext]_transfersVars

-----------------------------------------------------------------------------
\* The file of a buffer's or a candidate's key.
StoredAt(key) == [server |-> IF key.direction = "read" THEN key.src ELSE key.dst, file |-> key.file]

\* A byte is never put where another belongs, or into another file: with
\* chunks out of order, at most gaps are left, filled with zeros.
InPlace(key, data) ==
    \A i \in DOMAIN data : data[i] \in {Zero, [file |-> StoredAt(key), pos |-> i - 1]}
BytesInPlace ==
    /\ \A key \in DOMAIN file_buffers : InPlace(key, file_buffers[key].data)
    /\ \A i \in DOMAIN candidates : InPlace(candidates[i].key, candidates[i].data)

\* A file that is transferred chunk after chunk is handed over whole, or
\* as the bytes seen first with the mark that it was truncated, exactly when
\* it is longer than the cap (bacnet.py:728-729); at the end of the capture,
\* what has been transferred of it.
WholeFiles ==
    ~pipelined /\ ~overflowed => \A i \in DOMAIN candidates :
        LET c == candidates[i]
            f == StoredAt(c.key)
            whole == Min({FileLen[f], MaxAssembly})
        IN  /\ \E n \in 1 .. whole : c.data = Prefix(f, n)
            /\ c.truncated => Len(c.data) = MaxAssembly /\ FileLen[f] > MaxAssembly
            /\ ~ended => Len(c.data) = whole /\ (FileLen[f] > MaxAssembly => c.truncated)

Kept == (UNION {ToSet(file_buffers[key].data) : key \in DOMAIN file_buffers})
          \union (UNION {ToSet(candidates[i].data) : i \in DOMAIN candidates})

\* No step loses a byte that was put in a buffer: it stays there or is
\* handed over, at the latest when the capture ends (lines 748-772).
NoFileByteLost == [][Kept \ {Zero} \subseteq Kept']_transfersVars
=============================================================================
