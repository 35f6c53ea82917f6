---------------------------- MODULE TcpDirection ----------------------------
(***************************************************************************)
(* DirectionalReassembler (pcap_decode/tcp_reassembly.py): one direction   *)
(* of a TCP connection, rebuilt from the captured segments.  The object is *)
(* a record and each method an operator that returns the new record.       *)
(* Timestamps and frame numbers, which no decision reads, are left out.    *)
(* The program's sequence numbers are modulo 2^32; SeqSpace is that        *)
(* modulus, so that a small instance wraps within a few bytes.             *)
(***************************************************************************)
EXTENDS Integers, Sequences, SequencesExt

CONSTANT SeqSpace

ASSUME SeqSpaceAssumption == SeqSpace \in Nat /\ SeqSpace >= 4 /\ SeqSpace % 2 = 0

SeqNumber == 0 .. SeqSpace - 1

SeqAdd(seq, n) == (seq + n) % SeqSpace

\* The signed distance from seq2 to seq1.
SeqDiff(seq1, seq2) ==
    LET diff == (seq1 - seq2) % SeqSpace
    IN  IF diff >= SeqSpace \div 2 THEN diff - SeqSpace ELSE diff

-----------------------------------------------------------------------------
None == -1  \* a sequence number not known yet

NewDirection ==
    [base_seq |-> None, next_expected_seq |-> None, data_buffer |-> << >>,
     segments |-> << >>, out_of_order |-> << >>, is_closed |-> FALSE]

Segment(seq, data) == [seq |-> seq, data |-> data]

\* The slice data[n:], which for a negative n is the last -n bytes.
Drop(data, n) == SubSeq(data, IF n >= 0 THEN n + 1 ELSE Max({Len(data) + n + 1, 1}), Len(data))

-----------------------------------------------------------------------------
\* _append_data
AppendData(r, seq, data) ==
    [r EXCEPT !.data_buffer = @ \o data,
              !.segments = Append(@, Segment(seq, data)),
              !.next_expected_seq = SeqAdd(@, Len(data))]

\* Fault: the held segment is appended with the bytes already there.
DrainUntrimmed(r, held) ==
    LET diff == SeqDiff(held.seq, r.next_expected_seq)
    IN  IF diff > 0 THEN [r EXCEPT !.out_of_order = Append(@, held)]
        ELSE IF -diff < Len(held.data) THEN AppendData(r, held.seq, held.data) ELSE r

\* Fault: the log has the number the segment was held with.
DrainOldNumber(r, held) ==
    LET diff == SeqDiff(held.seq, r.next_expected_seq)
    IN  IF diff > 0 THEN [r EXCEPT !.out_of_order = Append(@, held)]
        ELSE IF -diff < Len(held.data) THEN AppendData(r, held.seq, Drop(held.data, -diff))
        ELSE r

\* One held segment in a pass of _process_out_of_order: still beyond a gap,
\* now deliverable (less the bytes already there), or entirely old.
DrainSegment(r, held) ==
    LET diff == SeqDiff(held.seq, r.next_expected_seq)
    IN  IF diff > 0 THEN [r EXCEPT !.out_of_order = Append(@, held)]
        ELSE IF -diff < Len(held.data)
             THEN AppendData(r, SeqAdd(held.seq, -diff), Drop(held.data, -diff))
             ELSE r

\* One pass over the held segments.
DrainPass(r) ==
    LET drained[n \in 0 .. Len(r.out_of_order)] ==
          IF n = 0 THEN [r EXCEPT !.out_of_order = << >>]
          ELSE DrainSegment(drained[n - 1], r.out_of_order[n])
    IN  drained[Len(r.out_of_order)]

\* Fault: a single pass, as if the list were in stream order.
ProcessInOnePass(r) == DrainPass(r)

\* _process_out_of_order: passes over the list until one makes no progress.
\* A pass that makes progress takes a segment off the list, and a pass after
\* one that made none changes nothing, so as many passes as there are held
\* segments reach the loop's result.
ProcessOutOfOrder(r) ==
    LET pass[n \in 0 .. Len(r.out_of_order)] == IF n = 0 THEN r ELSE DrainPass(pass[n - 1])
    IN  pass[Len(r.out_of_order)]

\* Appending to a list sorted by raw sequence number and sorting it again:
\* the sort is stable, so a segment lands behind those with its number.
HoldSegment(r, seq, data) ==
    LET before == {i \in DOMAIN r.out_of_order : r.out_of_order[i].seq <= seq}
    IN  [r EXCEPT !.out_of_order = InsertAt(@, Cardinality(before) + 1, Segment(seq, data))]

\* Fault: a segment that starts with old bytes is dropped entirely.
AddWithoutOverlap(r, seq, data, fin) ==
    LET diff == SeqDiff(seq, r.next_expected_seq)
        added == IF diff > 0 THEN ProcessOutOfOrder(HoldSegment(r, seq, data))
                 ELSE IF diff = 0 THEN ProcessOutOfOrder(AppendData(r, seq, data)) ELSE r
    IN  [added EXCEPT !.is_closed = @ \/ fin]

\* Fault: FIN counts only on the expected segment.
AddFinInOrder(r, seq, data, fin) ==
    LET diff == SeqDiff(seq, r.next_expected_seq)
        added == IF diff > 0 THEN ProcessOutOfOrder(HoldSegment(r, seq, data))
                 ELSE IF -diff < Len(data)
                      THEN ProcessOutOfOrder(AppendData(r, SeqAdd(seq, -diff), Drop(data, -diff)))
                      ELSE r
    IN  [added EXCEPT !.is_closed = @ \/ (fin /\ diff = 0)]

\* add_segment from the comparison with next_expected_seq on.  Half the
\* sequence space away, the distance is negative in both directions: the
\* overlap is then negative too, and all the data is appended.
AddAfterBase(r, seq, data, fin) ==
    LET overlap == SeqDiff(r.next_expected_seq, seq)
        added == IF SeqDiff(seq, r.next_expected_seq) > 0
                 THEN ProcessOutOfOrder(HoldSegment(r, seq, data))
                 ELSE IF overlap < Len(data)
                      THEN ProcessOutOfOrder(AppendData(r, SeqAdd(seq, overlap), Drop(data, overlap)))
                      ELSE r
    IN  [added EXCEPT !.is_closed = @ \/ fin]

\* Fault: all of the data goes in front, with what is there already.
PrependWhole(r, seq, data, fin) ==
    [r EXCEPT !.data_buffer = data \o @,
              !.base_seq = seq,
              !.segments = <<Segment(seq, data)>> \o @]

\* A segment that starts before everything seen so far: what precedes the
\* base is put in front of the buffer, the rest is added as usual.  FIN is
\* looked at only when there is a rest.
Prepend(r, seq, data, fin) ==
    LET n == Min({SeqDiff(r.base_seq, seq), Len(data)})
        head == SubSeq(data, 1, n)
        front == [r EXCEPT !.data_buffer = head \o @,
                           !.base_seq = seq,
                           !.segments = <<Segment(seq, head)>> \o @]
    IN  IF Len(data) > n THEN AddAfterBase(front, SeqAdd(seq, n), Drop(data, n), fin) ELSE front

\* add_segment for a segment with data and no SYN.
AddData(r, seq, data, fin) ==
    IF r.base_seq = None
    THEN [r EXCEPT !.base_seq = seq,
                   !.next_expected_seq = SeqAdd(seq, Len(data)),
                   !.data_buffer = @ \o data,
                   !.segments = Append(@, Segment(seq, data))]
    ELSE IF SeqDiff(seq, r.base_seq) < 0 /\ SeqDiff(r.base_seq, seq) > 0
         THEN Prepend(r, seq, data, fin)
         ELSE AddAfterBase(r, seq, data, fin)

\* add_segment for a SYN: the base is reset.  A SYN with data calls itself
\* for what follows the first byte, with the flags it was given, and so
\* resets the base and prepends one byte at a time.
AddSyn(r, seq, data) ==
    LET reset == [r EXCEPT !.base_seq = SeqAdd(seq, 1), !.next_expected_seq = SeqAdd(seq, 1)]
        call[k \in 0 .. Len(data)] ==
          IF k = 0 THEN reset
          ELSE [call[k - 1] EXCEPT !.base_seq = SeqAdd(seq, k - 1),
                                   !.next_expected_seq = SeqAdd(seq, k),
                                   !.data_buffer = <<data[k]>> \o @,
                                   !.segments = <<Segment(SeqAdd(seq, k - 1), <<data[k]>>)>> \o @]
    IN  call[Len(data)]

\* add_segment
AddSegment(r, seg) ==
    LET q == [r EXCEPT !.is_closed = @ \/ "RST" \in seg.flags]
    IN  IF "SYN" \in seg.flags THEN AddSyn(q, seg.seq, seg.data)
        ELSE IF seg.data = << >> THEN [q EXCEPT !.is_closed = @ \/ "FIN" \in seg.flags]
        ELSE AddData(q, seg.seq, seg.data, "FIN" \in seg.flags)

\* get_data: what is held beyond a gap counts only when nothing else is there.
GetData(r) ==
    IF r.data_buffer = << >>
    THEN FlattenSeq([i \in DOMAIN r.out_of_order |-> r.out_of_order[i].data])
    ELSE r.data_buffer
=============================================================================
