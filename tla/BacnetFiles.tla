---------------------------- MODULE BacnetFiles -----------------------------
(***************************************************************************)
(* The file transfers of BacnetDecoder (pcap_decode/protocols/bacnet.py).  *)
(* An atomicReadFile request names the file, and its acknowledgement has   *)
(* the data, so that requests are remembered by their invoke ID;           *)
(* an atomicWriteFile request has both.  The data of a transfer is put     *)
(* together in a buffer, up to a cap, and becomes a candidate with the     *)
(* end-of-file mark or at the end of the capture.                          *)
(***************************************************************************)
EXTENDS Integers, Sequences, FiniteSets, SequencesExt

CONSTANTS
    MaxPending,    \* MAX_PENDING_FILE_READS
    MaxAssembly,   \* max_file_assembly_bytes
    Zero,          \* the byte that fills a gap
    NoStart        \* in place of the start position of an APDU without one

ASSUME BacnetFilesAssumption ==
    /\ MaxPending \in Nat \ {0}
    /\ MaxAssembly \in Nat
    /\ NoStart \notin Int

VARIABLES
    pending_file_reads,  \* [src, dst, invoke] of a request -> file
    file_buffers,        \* [direction, src, dst, file] -> buffer
    candidates           \* the files handed to the engine

filesVars == <<pending_file_reads, file_buffers, candidates>>

NewBuffer == [data |-> << >>, truncated |-> FALSE]

Put(f, key, value) == [k \in DOMAIN f \union {key} |-> IF k = key THEN value ELSE f[k]]

Without(f, key) == [k \in DOMAIN f \ {key} |-> f[k]]

-----------------------------------------------------------------------------
\* A slice bound of Python: negative ones count from the end.
Bound(i, n) == IF i < 0 THEN Max({i + n, 0}) ELSE Min({i, n})

\* data[p:q] = chunk
Splice(data, p, q, chunk) ==
    LET from == Bound(p, Len(data))
        to == Max({from, Bound(q, Len(data))})
    IN  SubSeq(data, 1, from) \o chunk \o SubSeq(data, to + 1, Len(data))

Extended(data, n) == data \o [i \in 1 .. n - Len(data) |-> Zero]

\* Fault: a chunk that does not fit is left out entirely.
PlaceOrDrop(acc, chunk) ==
    LET end == acc.position + Len(chunk) IN
    IF acc.full \/ end > MaxAssembly THEN [acc EXCEPT !.truncated = TRUE, !.full = TRUE]
    ELSE [acc EXCEPT !.data = Splice(Extended(@, end), acc.position, end, chunk),
                     !.position = end]

\* Fault: a chunk goes to the end of the buffer.
PlaceAtEnd(acc, chunk) ==
    LET kept == SubSeq(chunk, 1, Min({Len(chunk), MaxAssembly - Len(acc.data)})) IN
    [acc EXCEPT !.data = @ \o kept, !.truncated = @ \/ Len(kept) < Len(chunk)]

\* One chunk of an APDU: what does not fit under the cap is cut off, and a
\* gap before it is filled with zeros.
Place(acc, chunk) ==
    LET room == MaxAssembly - acc.position
        kept == SubSeq(chunk, 1, Min({room, Len(chunk)}))
        end == acc.position + Len(kept)
    IN  IF acc.full THEN acc
        ELSE IF room <= 0 THEN [acc EXCEPT !.truncated = TRUE, !.full = TRUE]
        ELSE [acc EXCEPT !.data = Splice(Extended(@, end), acc.position, end, kept),
                         !.truncated = @ \/ Len(kept) < Len(chunk),
                         !.position = end]

\* The buffer after the chunks of an APDU; without a start position they go
\* to its end.
Assemble(buffer, start, chunks) ==
    LET first == [data |-> buffer.data, truncated |-> buffer.truncated, full |-> FALSE,
                  position |-> IF start = NoStart THEN Len(buffer.data) ELSE start]
        after[n \in 0 .. Len(chunks)] == IF n = 0 THEN first ELSE Place(after[n - 1], chunks[n])
        last == after[Len(chunks)]
    IN  [data |-> last.data, truncated |-> last.truncated]

BufferFor(key) == IF key \in DOMAIN file_buffers THEN file_buffers[key] ELSE NewBuffer

\* _flush_file_buffer: an empty buffer is dropped.
Candidate(key, buffer) == [key |-> key, data |-> buffer.data, truncated |-> buffer.truncated]

Flushed(key, buffer) == IF buffer.data = << >> THEN << >> ELSE <<Candidate(key, buffer)>>

-----------------------------------------------------------------------------
FilesInit ==
    /\ pending_file_reads = << >>
    /\ file_buffers = << >>
    /\ candidates = << >>

\* _absorb_file_data.  An APDU is a record of its start position, its chunks
\* and its end-of-file mark.
IgnoreData(key, apdu) ==
    /\ apdu.chunks = << >> /\ ~apdu.eof
    /\ UNCHANGED <<file_buffers, candidates>>

BufferData(key, apdu) ==
    /\ apdu.chunks # << >> /\ ~apdu.eof
    /\ file_buffers' = Put(file_buffers, key, Assemble(BufferFor(key), apdu.start, apdu.chunks))
    /\ UNCHANGED candidates

FinishFile(key, apdu) ==
    /\ apdu.eof
    /\ candidates' = candidates
                       \o Flushed(key, Assemble(BufferFor(key), apdu.start, apdu.chunks))
    /\ file_buffers' = Without(file_buffers, key)

AbsorbFileData(key, apdu) ==
    \/ IgnoreData(key, apdu)
    \/ BufferData(key, apdu)
    \/ FinishFile(key, apdu)

\* _remember_file_read: a full table is emptied first.
RememberFileRead(src, dst, invoke, file) ==
    /\ pending_file_reads' =
         Put(IF Cardinality(DOMAIN pending_file_reads) >= MaxPending
             THEN << >> ELSE pending_file_reads,
             [src |-> src, dst |-> dst, invoke |-> invoke], file)
    /\ UNCHANGED <<file_buffers, candidates>>

\* The request that an acknowledgement from src to dst answers.
RequestOf(src, dst, invoke) == [src |-> dst, dst |-> src, invoke |-> invoke]

\* _parse_complex_ack, for atomicReadFile.
UnmatchedAck(src, dst, invoke) ==
    /\ RequestOf(src, dst, invoke) \notin DOMAIN pending_file_reads
    /\ UNCHANGED filesVars

MatchedAck(src, dst, invoke, apdu) ==
    LET request == RequestOf(src, dst, invoke) IN
    /\ request \in DOMAIN pending_file_reads
    /\ AbsorbFileData([direction |-> "read", src |-> src, dst |-> dst,
                       file |-> pending_file_reads[request]], apdu)
    /\ pending_file_reads' = Without(pending_file_reads, request)

ReadFileAck(src, dst, invoke, apdu) ==
    UnmatchedAck(src, dst, invoke) \/ MatchedAck(src, dst, invoke, apdu)

\* _parse_error and _parse_reject_or_abort: the request is not forgotten.
RefusedRead == UNCHANGED filesVars

\* _parse_confirmed_request, for atomicWriteFile.
WriteFileRequest(src, dst, file, apdu) ==
    /\ AbsorbFileData([direction |-> "write", src |-> src, dst |-> dst, file |-> file], apdu)
    /\ UNCHANGED pending_file_reads

\* Fault: what has had no end-of-file mark is discarded.
FinalizeDiscard ==
    /\ UNCHANGED candidates
    /\ file_buffers' = << >>
    /\ pending_file_reads' = << >>

\* finalize flushes the buffers in the order of their creation, here in any.
FinalizeFiles ==
    /\ \E order \in SetToSeqs({key \in DOMAIN file_buffers : file_buffers[key].data # << >>}) :
         candidates' = candidates
                         \o [i \in DOMAIN order |-> Candidate(order[i], file_buffers[order[i]])]
    /\ file_buffers' = << >>
    /\ pending_file_reads' = << >>
=============================================================================
