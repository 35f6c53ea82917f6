-------------------------- MODULE TcpCaptureProofs --------------------------
(***************************************************************************)
(* Proofs about TcpCapture, for every sequence space, every initial number *)
(* and every stream shorter than half the space: whatever the order of the *)
(* segments, their overlaps and their repetitions.                         *)
(***************************************************************************)
EXTENDS TcpCapture, OperatorProofs

\* Positions of bytes, and the one behind the last.
Position == 1 .. StreamLen + 1

\* What a captured segment holds of the stream: a run of its bytes under the
\* sequence number of the first one.
Piece(p, q) == Segment(SeqAdd(isn, p), Bytes(p, q))

Pieces == UNION {{Piece(p, q) : q \in p .. StreamLen} : p \in Stream}

Direction == [base_seq : SeqNumber \union {None}, next_expected_seq : SeqNumber \union {None},
              data_buffer : Seq(Stream), segments : Seq(Pieces), out_of_order : Seq(Pieces),
              is_closed : BOOLEAN]

-----------------------------------------------------------------------------
LEMMA Lengths == StreamLen \in Nat /\ StreamLen + 1 <= SeqSpace \div 2 /\ SeqSpace \div 2 \in Nat
                 /\ 2 * (SeqSpace \div 2) = SeqSpace /\ SeqSpace \in Nat
  BY CaptureAssumption, Half, SeqSpaceAssumption

-----------------------------------------------------------------------------
\* Positions of the stream are as far apart as their sequence numbers.
LEMMA Distance ==
    ASSUME isn \in SeqNumber, NEW a \in Position, NEW b \in Position
    PROVE  /\ SeqAdd(isn, a) \in SeqNumber
           /\ SeqDiff(SeqAdd(isn, a), SeqAdd(isn, b)) = a - b
  <1>1. \A c \in Position : SeqAdd(isn, c) \in SeqNumber
    <2>1. \A m \in Int : m % SeqSpace \in 0 .. SeqSpace - 1
      BY SeqSpaceAssumption, Z3
    <2> QED
      BY <2>1, Lengths DEF SeqAdd, SeqNumber, Position
  <1>2. ASSUME NEW c \in Position, NEW d \in Position, c <= d
        PROVE  SeqDiff(SeqAdd(isn, d), SeqAdd(isn, c)) = d - c
    <2>1. SeqAdd(isn, d) = SeqAdd(SeqAdd(isn, c), d - c)
      BY <1>2, SeqAddTwice, Lengths DEF Position
    <2>2. d - c \in 0 .. (SeqSpace \div 2) - 1
      BY <1>2, Lengths DEF Position
    <2> QED
      BY <1>1, <2>1, <2>2, SeqDiffOfSeqAdd
  <1>3. CASE b <= a
    BY <1>1, <1>2, <1>3
  <1>4. CASE a < b
    <2>1. SeqDiff(SeqAdd(isn, b), SeqAdd(isn, a)) = b - a
      BY <1>2, <1>4 DEF Position
    <2>2. b - a # -(SeqSpace \div 2)
      BY <1>4, Lengths DEF Position
    <2>3. SeqDiff(SeqAdd(isn, a), SeqAdd(isn, b)) = -(b - a)
      BY <1>1, <2>1, <2>2, SeqDiffAntisymmetric
    <2> QED
      BY <1>1, <2>3, Lengths DEF Position
  <1> QED
    BY <1>3, <1>4, Lengths DEF Position

-----------------------------------------------------------------------------
LEMMA BytesFacts ==
    ASSUME NEW p \in Position, NEW q \in p - 1 .. StreamLen
    PROVE  /\ Bytes(p, q) \in Seq(Stream)
           /\ Len(Bytes(p, q)) = q - p + 1
           /\ \A i \in 1 .. q - p + 1 : Bytes(p, q)[i] = p + i - 1
           /\ ToSet(Bytes(p, q)) = p .. q
  <1>1. p \in Nat /\ p >= 1 /\ q \in Int /\ q - p + 1 \in Nat /\ q <= StreamLen
    BY Lengths DEF Position
  <1>2. Bytes(p, q) \in [1 .. q - p + 1 -> Stream]
    BY <1>1, Lengths DEF Bytes, Stream
  <1>3. Bytes(p, q) \in Seq(Stream) /\ Len(Bytes(p, q)) = q - p + 1
    BY <1>1, <1>2
  <1>4. \A i \in 1 .. q - p + 1 : Bytes(p, q)[i] = p + i - 1
    BY DEF Bytes
  <1>5. ToSet(Bytes(p, q)) = p .. q
    <2>1. DOMAIN Bytes(p, q) = 1 .. q - p + 1
      BY DEF Bytes
    <2>2. ASSUME NEW x \in p .. q PROVE x \in ToSet(Bytes(p, q))
      <3>1. x - p + 1 \in 1 .. q - p + 1 /\ Bytes(p, q)[x - p + 1] = x
        BY <1>1, <1>4
      <3> QED
        BY <2>1, <3>1 DEF ToSet
    <2>3. ASSUME NEW x \in ToSet(Bytes(p, q)) PROVE x \in p .. q
      <3>1. PICK i \in 1 .. q - p + 1 : x = p + i - 1
        BY <1>4, <2>1 DEF ToSet
      <3> QED
        BY <1>1, <3>1
    <2> QED
      BY <2>2, <2>3
  <1> QED
    BY <1>3, <1>4, <1>5

\* Adjacent runs of the stream make a longer one.
LEMMA BytesConcat ==
    ASSUME NEW p \in Position, NEW k \in p - 1 .. StreamLen, NEW q \in k .. StreamLen
    PROVE  Bytes(p, k) \o Bytes(k + 1, q) = Bytes(p, q)
  <1>1. p \in Nat /\ k \in Int /\ q \in Int /\ k + 1 \in Position /\ q \in p - 1 .. StreamLen
    BY Lengths DEF Position
  <1>2. /\ Bytes(p, k) \in Seq(Stream) /\ Len(Bytes(p, k)) = k - p + 1
        /\ \A i \in 1 .. k - p + 1 : Bytes(p, k)[i] = p + i - 1
    BY BytesFacts
  <1>3. /\ Bytes(k + 1, q) \in Seq(Stream) /\ Len(Bytes(k + 1, q)) = q - k
        /\ \A i \in 1 .. q - k : Bytes(k + 1, q)[i] = k + i
    <2>1. q \in (k + 1) - 1 .. StreamLen
      BY <1>1
    <2>2. q - (k + 1) + 1 = q - k /\ \A i \in 1 .. q - k : (k + 1) + i - 1 = k + i
      BY <1>1
    <2> QED
      BY <1>1, <2>1, <2>2, BytesFacts
  <1>4. /\ Bytes(p, q) \in Seq(Stream) /\ Len(Bytes(p, q)) = q - p + 1
        /\ \A i \in 1 .. q - p + 1 : Bytes(p, q)[i] = p + i - 1
    BY <1>1, BytesFacts
  <1> DEFINE both == Bytes(p, k) \o Bytes(k + 1, q)
  <1>5. /\ both \in Seq(Stream) /\ Len(both) = (k - p + 1) + (q - k)
        /\ \A i \in 1 .. (k - p + 1) + (q - k) :
             both[i] = IF i <= k - p + 1 THEN Bytes(p, k)[i] ELSE Bytes(k + 1, q)[i - (k - p + 1)]
    <2> DEFINE u == Bytes(p, k)
               v == Bytes(k + 1, q)
    <2>1. u \in Seq(Stream) /\ Len(u) = k - p + 1 /\ v \in Seq(Stream) /\ Len(v) = q - k
      BY <1>2, <1>3
    <2> HIDE DEF u, v
    <2>2. /\ u \o v \in Seq(Stream) /\ Len(u \o v) = Len(u) + Len(v)
          /\ \A i \in 1 .. Len(u) + Len(v) : (u \o v)[i] = IF i <= Len(u) THEN u[i] ELSE v[i - Len(u)]
      BY <2>1, ConcatProperties
    <2> QED
      BY <2>1, <2>2 DEF u, v
  <1> HIDE DEF both
  <1>6. (k - p + 1) + (q - k) = q - p + 1
    BY <1>1
  <1>7. ASSUME NEW i \in 1 .. q - p + 1 PROVE both[i] = Bytes(p, q)[i]
    <2>1. CASE i <= k - p + 1
      BY <1>1, <1>2, <1>4, <1>5, <1>6, <2>1
    <2>2. CASE ~(i <= k - p + 1)
      <3>1. i - (k - p + 1) \in 1 .. q - k /\ k + (i - (k - p + 1)) = p + i - 1
        BY <1>1, <2>2
      <3> QED
        BY <1>3, <1>4, <1>5, <1>6, <2>2, <3>1
    <2> QED
      BY <2>1, <2>2
  <1>8. both = Bytes(p, q)
    BY <1>4, <1>5, <1>6, <1>7, SeqEqual
  <1> QED
    BY <1>8 DEF both

\* The two parts of a run.
LEMMA CutBytes ==
    ASSUME NEW p \in Position, NEW q \in p - 1 .. StreamLen, NEW n \in 0 .. q - p + 1
    PROVE  /\ Drop(Bytes(p, q), n) = Bytes(p + n, q)
           /\ SubSeq(Bytes(p, q), 1, n) = Bytes(p, p + n - 1)
  <1>1. /\ p \in Nat /\ q \in Int /\ n \in Nat /\ p >= 1 /\ n <= q - p + 1 /\ q <= StreamLen
        /\ p + n \in Position /\ q \in (p + n) - 1 .. StreamLen /\ p + n - 1 \in p - 1 .. StreamLen
    BY Lengths DEF Position
  <1> DEFINE b == Bytes(p, q)
  <1>2. /\ b \in Seq(Stream) /\ Len(b) = q - p + 1
        /\ \A i \in 1 .. q - p + 1 : b[i] = p + i - 1 /\ b[i] \in Stream
    <2>1. b \in Seq(Stream) /\ Len(b) = q - p + 1 /\ \A i \in 1 .. q - p + 1 : b[i] = p + i - 1
      BY BytesFacts
    <2> QED
      BY <2>1, ElementOfSeq
  <1> HIDE DEF b
  <1>3. Drop(b, n) = SubSeq(b, n + 1, q - p + 1)
    BY <1>1, <1>2 DEF Drop
  <1>4. SubSeq(b, n + 1, q - p + 1) = Bytes(p + n, q)
    <2>1. \A i \in n + 1 .. q - p + 1 : b[i] \in Stream
      BY <1>1, <1>2
    <2>2. /\ SubSeq(b, n + 1, q - p + 1) \in Seq(Stream)
          /\ Len(SubSeq(b, n + 1, q - p + 1)) = IF n + 1 <= q - p + 1 THEN (q - p + 1) - (n + 1) + 1 ELSE 0
          /\ \A i \in 1 .. (q - p + 1) - (n + 1) + 1 : SubSeq(b, n + 1, q - p + 1)[i] = b[(n + 1) + i - 1]
      BY <1>1, <2>1, SubSeqProperties
    <2>3. /\ Bytes(p + n, q) \in Seq(Stream) /\ Len(Bytes(p + n, q)) = q - (p + n) + 1
          /\ \A i \in 1 .. q - (p + n) + 1 : Bytes(p + n, q)[i] = (p + n) + i - 1
      BY <1>1, BytesFacts
    <2>4. Len(SubSeq(b, n + 1, q - p + 1)) = q - (p + n) + 1
      BY <1>1, <2>2
    <2>5. ASSUME NEW i \in 1 .. q - (p + n) + 1
          PROVE  SubSeq(b, n + 1, q - p + 1)[i] = Bytes(p + n, q)[i]
      <3>1. i \in 1 .. (q - p + 1) - (n + 1) + 1 /\ (n + 1) + i - 1 \in 1 .. q - p + 1
            /\ p + ((n + 1) + i - 1) - 1 = (p + n) + i - 1
        BY <1>1
      <3> QED
        BY <1>2, <2>2, <2>3, <3>1
    <2> QED
      BY <2>2, <2>3, <2>4, <2>5, SeqEqual
  <1>5. SubSeq(b, 1, n) = Bytes(p, p + n - 1)
    <2>1. \A i \in 1 .. n : b[i] \in Stream
      BY <1>1, <1>2
    <2>2. /\ SubSeq(b, 1, n) \in Seq(Stream)
          /\ Len(SubSeq(b, 1, n)) = IF 1 <= n THEN n - 1 + 1 ELSE 0
          /\ \A i \in 1 .. n - 1 + 1 : SubSeq(b, 1, n)[i] = b[1 + i - 1]
      BY <1>1, <2>1, SubSeqProperties
    <2>3. /\ Bytes(p, p + n - 1) \in Seq(Stream) /\ Len(Bytes(p, p + n - 1)) = (p + n - 1) - p + 1
          /\ \A i \in 1 .. (p + n - 1) - p + 1 : Bytes(p, p + n - 1)[i] = p + i - 1
      BY <1>1, BytesFacts
    <2>4. Len(SubSeq(b, 1, n)) = n /\ (p + n - 1) - p + 1 = n
      BY <1>1, <2>2
    <2>5. ASSUME NEW i \in 1 .. n PROVE SubSeq(b, 1, n)[i] = Bytes(p, p + n - 1)[i]
      <3>1. i \in 1 .. n - 1 + 1 /\ 1 + i - 1 = i /\ i \in 1 .. q - p + 1
        BY <1>1
      <3> QED
        BY <1>2, <2>2, <2>3, <2>4, <3>1
    <2> QED
      BY <2>2, <2>3, <2>4, <2>5, SeqEqual
  <1> QED
    BY <1>3, <1>4, <1>5 DEF b

-----------------------------------------------------------------------------
\* The positions of a piece.
From(s) == s.data[1]
To(s) == s.data[Len(s.data)]

LEMMA PieceFacts ==
    ASSUME isn \in SeqNumber, NEW s \in Pieces
    PROVE  /\ From(s) \in Stream /\ To(s) \in From(s) .. StreamLen
           /\ s.seq = SeqAdd(isn, From(s)) /\ s.data = Bytes(From(s), To(s))
           /\ s.seq \in SeqNumber /\ s.data \in Seq(Stream) /\ s.data # << >>
           /\ Len(s.data) = To(s) - From(s) + 1
           /\ ToSet(s.data) = From(s) .. To(s)
           /\ s = Segment(s.seq, s.data)
  <1>1. PICK p \in Stream, q \in Stream : p <= q /\ s = Piece(p, q)
    <2>1. PICK p \in Stream : s \in {Piece(p, q) : q \in p .. StreamLen}
      BY DEF Pieces
    <2>2. PICK q \in p .. StreamLen : s = Piece(p, q)
      BY <2>1
    <2>3. q \in Stream /\ p <= q
      BY Lengths DEF Stream
    <2> QED
      BY <2>2, <2>3
  <1>2. p \in Position /\ q \in p - 1 .. StreamLen /\ q - p + 1 >= 1 /\ p \in Nat /\ q \in Nat
    BY <1>1, Lengths DEF Position, Stream
  <1>3. /\ Bytes(p, q) \in Seq(Stream) /\ Len(Bytes(p, q)) = q - p + 1
        /\ \A i \in 1 .. q - p + 1 : Bytes(p, q)[i] = p + i - 1
        /\ ToSet(Bytes(p, q)) = p .. q
    BY <1>2, BytesFacts
  <1>4. s.data = Bytes(p, q) /\ s.seq = SeqAdd(isn, p) /\ s = Segment(s.seq, s.data)
    BY <1>1 DEF Piece, Segment
  <1>5. From(s) = p /\ To(s) = q
    BY <1>2, <1>3, <1>4 DEF From, To
  <1>6. s.seq \in SeqNumber
    BY <1>2, <1>4, Distance
  <1>7. s.data # << >>
    BY <1>2, <1>3, <1>4
  <1>8. q \in p .. StreamLen
    BY <1>1, Lengths DEF Stream
  <1> QED
    BY <1>1, <1>2, <1>3, <1>4, <1>5, <1>6, <1>7, <1>8

\* A run of the stream is a piece.
LEMMA PieceIsPiece ==
    ASSUME isn \in SeqNumber, NEW p \in Stream, NEW q \in p .. StreamLen
    PROVE  /\ Piece(p, q) \in Pieces
           /\ From(Piece(p, q)) = p /\ To(Piece(p, q)) = q
           /\ Piece(p, q).data = Bytes(p, q)
  <1>1. q \in Stream /\ p <= q /\ p \in Position /\ q \in p - 1 .. StreamLen
    BY Lengths DEF Stream, Position
  <1>2. Piece(p, q) \in Pieces
    BY DEF Pieces
  <1>3. /\ Len(Bytes(p, q)) = q - p + 1
        /\ \A i \in 1 .. q - p + 1 : Bytes(p, q)[i] = p + i - 1
    BY <1>1, BytesFacts
  <1>4. Piece(p, q).data = Bytes(p, q)
    BY DEF Piece, Segment
  <1>5. From(Piece(p, q)) = p /\ To(Piece(p, q)) = q
    BY <1>1, <1>3, <1>4, Lengths DEF From, To, Stream
  <1> QED
    BY <1>2, <1>4, <1>5

-----------------------------------------------------------------------------
\* The data of a log of segments, put together.
Logged(segments) == FlattenSeq([i \in DOMAIN segments |-> segments[i].data])

\* The positions that are held.
HeldIn(list) == UNION {From(list[i]) .. To(list[i]) : i \in DOMAIN list}

\* A reassembler whose base is position b of the stream, and which has taken
\* up what there is until position k.
Based(r, b, k) ==
    /\ r \in Direction
    /\ b \in Position
    /\ k \in b - 1 .. StreamLen
    /\ r.base_seq = SeqAdd(isn, b)
    /\ r.next_expected_seq = SeqAdd(isn, k + 1)

\* From r to d the bytes between k and m were taken up, and nothing else.
Grown(r, k, d, m) ==
    /\ m \in k .. StreamLen
    /\ d.is_closed = r.is_closed
    /\ d.data_buffer = r.data_buffer \o Bytes(k + 1, m)
    /\ Logged(d.segments) = Logged(r.segments) \o Bytes(k + 1, m)

LEMMA GrownReflexive ==
    ASSUME NEW r, NEW b, NEW k, Based(r, b, k), Logged(r.segments) \in Seq(Stream)
    PROVE  Grown(r, k, r, k)
  <1>1. k \in Int /\ k + 1 \in Position /\ k \in (k + 1) - 1 .. StreamLen /\ k \in k .. StreamLen
    BY Lengths DEF Based, Position, Stream
  <1>2. Len(Bytes(k + 1, k)) = 0 /\ Bytes(k + 1, k) \in Seq(Stream)
    <2>1. k - (k + 1) + 1 = 0
      BY <1>1
    <2> QED
      BY <1>1, <2>1, BytesFacts
  <1>3. Bytes(k + 1, k) = << >>
    BY <1>2
  <1>4. r.data_buffer \in Seq(Stream)
    BY DEF Based, Direction
  <1> QED
    BY <1>1, <1>3, <1>4, ConcatEmptySeq DEF Grown

LEMMA GrownTransitive ==
    ASSUME NEW r, NEW d, NEW e, NEW b, NEW k, NEW m, NEW n,
           Based(r, b, k), Logged(r.segments) \in Seq(Stream), Grown(r, k, d, m), Grown(d, m, e, n)
    PROVE  Grown(r, k, e, n)
  <1>1. /\ k \in Nat /\ m \in k .. StreamLen /\ n \in m .. StreamLen /\ n \in k .. StreamLen
        /\ k + 1 \in Position /\ m + 1 \in Position
        /\ m \in (k + 1) - 1 .. StreamLen /\ n \in (m + 1) - 1 .. StreamLen
    BY Lengths DEF Based, Grown, Position, Stream
  <1>2. Bytes(k + 1, m) \in Seq(Stream) /\ Bytes(m + 1, n) \in Seq(Stream)
    BY <1>1, BytesFacts
  <1>3. Bytes(k + 1, m) \o Bytes(m + 1, n) = Bytes(k + 1, n)
    BY <1>1, BytesConcat
  <1>4. r.data_buffer \in Seq(Stream)
    BY DEF Based, Direction
  <1>5. e.data_buffer = r.data_buffer \o Bytes(k + 1, n)
    <2>1. e.data_buffer = (r.data_buffer \o Bytes(k + 1, m)) \o Bytes(m + 1, n)
      BY DEF Grown
    <2> DEFINE u == r.data_buffer
               v == Bytes(k + 1, m)
               w == Bytes(m + 1, n)
    <2>2. u \in Seq(Stream) /\ v \in Seq(Stream) /\ w \in Seq(Stream)
      BY <1>2, <1>4
    <2> HIDE DEF u, v, w
    <2>3. (u \o v) \o w = u \o (v \o w)
      BY <2>2, ConcatAssociative
    <2> QED
      BY <1>3, <2>1, <2>3 DEF u, v, w
  <1>6. Logged(e.segments) = Logged(r.segments) \o Bytes(k + 1, n)
    <2>1. Logged(e.segments) = (Logged(r.segments) \o Bytes(k + 1, m)) \o Bytes(m + 1, n)
      BY DEF Grown
    <2>2. @ = Logged(r.segments) \o (Bytes(k + 1, m) \o Bytes(m + 1, n))
      BY <1>2, ConcatAssociative
    <2> QED
      BY <1>3, <2>1, <2>2
  <1> QED
    BY <1>1, <1>5, <1>6 DEF Grown

-----------------------------------------------------------------------------
\* A log grows by its segments' data.
LEMMA LogGrows ==
    ASSUME isn \in SeqNumber, NEW segs \in Seq(Pieces), NEW s \in Pieces
    PROVE  /\ Logged(segs) \in Seq(Stream)
           /\ Append(segs, s) \in Seq(Pieces) /\ <<s>> \o segs \in Seq(Pieces)
           /\ Logged(Append(segs, s)) = Logged(segs) \o s.data
           /\ Logged(<<s>> \o segs) = s.data \o Logged(segs)
  <1> DEFINE n == Len(segs)
             data == [i \in DOMAIN segs |-> segs[i].data]
             last == Append(segs, s)
             first == <<s>> \o segs
  <1>1. n \in Nat /\ DOMAIN segs = 1 .. n /\ s.data \in Seq(Stream)
        /\ \A i \in 1 .. n : segs[i] \in Pieces /\ segs[i].data \in Seq(Stream)
    <2>1. \A x \in Pieces : x.data \in Seq(Stream)
      BY PieceFacts
    <2> QED
      BY <2>1
  <1>2. data \in Seq(Seq(Stream)) /\ Len(data) = n /\ DOMAIN data = 1 .. n
        /\ \A i \in 1 .. n : data[i] = segs[i].data
    <2>1. data \in [1 .. n -> Seq(Stream)]
      BY <1>1
    <2> QED
      BY <1>1, <2>1
  <1>3. last \in Seq(Pieces) /\ DOMAIN last = 1 .. n + 1 /\ last[n + 1] = s
        /\ \A i \in 1 .. n : last[i] = segs[i]
    BY <1>1, AppendProperties
  <1>4. first \in Seq(Pieces) /\ DOMAIN first = 1 .. n + 1 /\ first[1] = s
        /\ \A i \in 2 .. n + 1 : first[i] = segs[i - 1]
    <2>1. <<s>> \in Seq(Pieces) /\ Len(<<s>>) = 1 /\ <<s>>[1] = s
      OBVIOUS
    <2>2. /\ first \in Seq(Pieces) /\ Len(first) = 1 + n
          /\ \A i \in 1 .. 1 + n : first[i] = IF i <= 1 THEN <<s>>[i] ELSE segs[i - 1]
      BY <2>1, ConcatProperties
    <2> QED
      BY <1>1, <2>1, <2>2
  <1> HIDE DEF n, data, last, first
  <1>5. [i \in DOMAIN last |-> last[i].data] = Append(data, s.data)
    <2> DEFINE l == [i \in DOMAIN last |-> last[i].data]
               a == Append(data, s.data)
    <2>1. a \in Seq(Seq(Stream)) /\ Len(a) = n + 1 /\ a[n + 1] = s.data /\ \A i \in 1 .. n : a[i] = data[i]
      BY <1>1, <1>2, AppendProperties
    <2>2. DOMAIN l = 1 .. n + 1 /\ \A i \in 1 .. n + 1 : l[i] = last[i].data
      BY <1>3
    <2>3. \A i \in 1 .. n + 1 : l[i] = a[i]
      <3>1. \A i \in 1 .. n + 1 : i = n + 1 \/ i \in 1 .. n
        BY <1>1
      <3> QED
        BY <1>2, <1>3, <2>1, <2>2, <3>1
    <2>4. l \in Seq(Seq(Stream)) /\ Len(l) = n + 1
      <3>1. \A i \in 1 .. n + 1 : a[i] \in Seq(Stream)
        BY <2>1
      <3>2. l \in [1 .. n + 1 -> Seq(Stream)]
        BY <1>3, <2>2, <2>3, <3>1
      <3> QED
        BY <1>1, <3>2
    <2> HIDE DEF l, a
    <2>5. l = a
      BY <2>1, <2>3, <2>4, SeqEqual
    <2> QED
      BY <2>5 DEF l, a
  <1>6. [i \in DOMAIN first |-> first[i].data] = <<s.data>> \o data
    <2> DEFINE l == [i \in DOMAIN first |-> first[i].data]
               a == <<s.data>> \o data
    <2>1. a \in Seq(Seq(Stream)) /\ Len(a) = n + 1 /\ a[1] = s.data /\ \A i \in 2 .. n + 1 : a[i] = data[i - 1]
      <3>1. <<s.data>> \in Seq(Seq(Stream)) /\ Len(<<s.data>>) = 1 /\ <<s.data>>[1] = s.data
        BY <1>1
      <3>2. /\ a \in Seq(Seq(Stream)) /\ Len(a) = 1 + n
            /\ \A i \in 1 .. 1 + n : a[i] = IF i <= 1 THEN <<s.data>>[i] ELSE data[i - 1]
        BY <1>2, <3>1, ConcatProperties
      <3> QED
        BY <1>1, <3>1, <3>2
    <2>2. DOMAIN l = 1 .. n + 1 /\ \A i \in 1 .. n + 1 : l[i] = first[i].data
      BY <1>4
    <2>3. \A i \in 1 .. n + 1 : l[i] = a[i]
      <3>1. \A i \in 1 .. n + 1 : i = 1 \/ (i \in 2 .. n + 1 /\ i - 1 \in 1 .. n)
        BY <1>1
      <3> QED
        BY <1>2, <1>4, <2>1, <2>2, <3>1
    <2>4. l \in Seq(Seq(Stream)) /\ Len(l) = n + 1
      <3>1. \A i \in 1 .. n + 1 : a[i] \in Seq(Stream)
        BY <2>1
      <3>2. l \in [1 .. n + 1 -> Seq(Stream)]
        BY <1>4, <2>2, <2>3, <3>1
      <3> QED
        BY <1>1, <3>2
    <2> HIDE DEF l, a
    <2>5. l = a
      BY <2>1, <2>3, <2>4, SeqEqual
    <2> QED
      BY <2>5 DEF l, a
  <1>7. Logged(segs) = FlattenSeq(data)
    BY Zenon DEF Logged, data
  <1>8. FlattenSeq(data) \in Seq(Stream) /\ FlattenSeq(Append(data, s.data)) = FlattenSeq(data) \o s.data
    BY <1>1, <1>2, FlattenAppend
  <1>9. FlattenSeq(<<s.data>> \o data) = s.data \o FlattenSeq(data)
    BY <1>1, <1>2, FlattenPrepend
  <1>10. Logged(last) = Logged(segs) \o s.data
    BY <1>5, <1>7, <1>8, Zenon DEF Logged
  <1>11. Logged(first) = s.data \o Logged(segs)
    BY <1>6, <1>7, <1>9, Zenon DEF Logged
  <1> QED
    BY <1>3, <1>4, <1>7, <1>8, <1>10, <1>11 DEF last, first

-----------------------------------------------------------------------------
\* _append_data of the bytes that follow.
LEMMA AppendGrows ==
    ASSUME isn \in SeqNumber, NEW r, NEW b, NEW k, Based(r, b, k), NEW q \in k + 1 .. StreamLen
    PROVE  LET d == AppendData(r, SeqAdd(isn, k + 1), Bytes(k + 1, q))
           IN  /\ Based(d, b, q)
               /\ Grown(r, k, d, q)
               /\ d.out_of_order = r.out_of_order
  <1> DEFINE s == Piece(k + 1, q)
             d == AppendData(r, SeqAdd(isn, k + 1), Bytes(k + 1, q))
  <1>1. /\ k \in Nat /\ q \in Nat /\ k < q /\ q <= StreamLen /\ k + 1 \in Stream /\ q \in (k + 1) .. StreamLen
        /\ k + 1 \in Position /\ q \in (k + 1) - 1 .. StreamLen /\ q \in k .. StreamLen
        /\ b \in Stream /\ k \in b - 1 .. StreamLen /\ q \in b - 1 .. StreamLen
    BY Lengths DEF Based, Stream, Position
  <1>2. s \in Pieces /\ s.data = Bytes(k + 1, q) /\ s = Segment(SeqAdd(isn, k + 1), Bytes(k + 1, q))
    BY <1>1, PieceIsPiece DEF Piece
  <1>3. Bytes(k + 1, q) \in Seq(Stream) /\ Len(Bytes(k + 1, q)) = q - k
    <2>1. q - (k + 1) + 1 = q - k
      BY <1>1
    <2> QED
      BY <1>1, <2>1, BytesFacts
  <1>4. SeqAdd(r.next_expected_seq, q - k) = SeqAdd(isn, q + 1) /\ SeqAdd(isn, q + 1) \in SeqNumber
    <2>1. r.next_expected_seq = SeqAdd(isn, k + 1)
      BY DEF Based
    <2>2. (k + 1) + (q - k) = q + 1 /\ k + 1 \in Nat /\ q - k \in Nat /\ q + 1 < SeqSpace /\ q + 1 \in Position
      BY <1>1, Lengths DEF Position
    <2> QED
      BY <2>1, <2>2, SeqAddTwice, Distance
  <1>5. r \in Direction
    BY DEF Based
  <1> DEFINE buffer == r.data_buffer \o Bytes(k + 1, q)
             log == Append(r.segments, s)
  <1>6. d = [r EXCEPT !.data_buffer = buffer, !.segments = log, !.next_expected_seq = SeqAdd(isn, q + 1)]
    BY <1>2, <1>3, <1>4 DEF AppendData
  <1>7. buffer \in Seq(Stream) /\ log \in Seq(Pieces) /\ Logged(log) = Logged(r.segments) \o Bytes(k + 1, q)
    BY <1>2, <1>3, <1>5, LogGrows, ConcatProperties DEF Direction
  <1> HIDE DEF s, d, buffer, log
  <1>8. /\ d \in Direction
        /\ d.base_seq = r.base_seq /\ d.next_expected_seq = SeqAdd(isn, q + 1)
        /\ d.data_buffer = buffer /\ d.segments = log
        /\ d.out_of_order = r.out_of_order /\ d.is_closed = r.is_closed
    BY <1>4, <1>5, <1>6, <1>7 DEF Direction
  <1>9. Based(d, b, q)
    BY <1>1, <1>8 DEF Based
  <1>10. Grown(r, k, d, q)
    BY <1>1, <1>7, <1>8 DEF Grown, buffer
  <1> QED
    BY <1>8, <1>9, <1>10 DEF d

LEMMA LogType ==
    ASSUME isn \in SeqNumber, NEW r, NEW b, NEW k, Based(r, b, k)
    PROVE  Logged(r.segments) \in Seq(Stream)
  <1> DEFINE segs == r.segments
             n == Len(segs)
             data == [i \in DOMAIN segs |-> segs[i].data]
  <1>1. segs \in Seq(Pieces) /\ n \in Nat /\ DOMAIN segs = 1 .. n /\ \A i \in 1 .. n : segs[i] \in Pieces
    BY DEF Based, Direction
  <1>2. \A x \in Pieces : x.data \in Seq(Stream)
    BY PieceFacts
  <1> HIDE DEF n, segs
  <1>3. data \in [1 .. n -> Seq(Stream)]
    BY <1>1, <1>2
  <1> HIDE DEF data
  <1>4. data \in Seq(Seq(Stream))
    BY <1>1, <1>3
  <1>5. << >> \in Seq(Stream)
    OBVIOUS
  <1>6. FlattenSeq(data) \in Seq(Stream)
    BY <1>4, <1>5, FlattenAppend
  <1> QED
    BY <1>6, Zenon DEF Logged, data, segs

\* One held segment: it stays held beyond the gap, or what it has of the
\* bytes behind k is taken up, or it is old.
LEMMA DrainCases ==
    ASSUME isn \in SeqNumber, NEW r, NEW b, NEW k, Based(r, b, k), NEW s \in Pieces
    PROVE  LET d == DrainSegment(r, s)
           IN  \/ From(s) > k + 1 /\ d = [r EXCEPT !.out_of_order = Append(@, s)]
               \/ /\ From(s) <= k + 1 /\ To(s) > k
                  /\ Based(d, b, To(s)) /\ Grown(r, k, d, To(s))
                  /\ d.out_of_order = r.out_of_order
               \/ From(s) <= k + 1 /\ To(s) <= k /\ d = r
  <1> DEFINE p == From(s)
             q == To(s)
             d == DrainSegment(r, s)
             diff == SeqDiff(s.seq, r.next_expected_seq)
  <1>1. /\ p \in Stream /\ q \in p .. StreamLen /\ s.seq = SeqAdd(isn, p) /\ s.data = Bytes(p, q)
        /\ Len(s.data) = q - p + 1
    BY PieceFacts
  <1>2. /\ p \in Nat /\ p >= 1 /\ q \in Nat /\ p <= q /\ q <= StreamLen /\ k \in Nat /\ k <= StreamLen
        /\ p \in Position /\ k + 1 \in Position /\ q \in p - 1 .. StreamLen
    BY <1>1, Lengths DEF Based, Stream, Position
  <1>3. diff = p - (k + 1)
    BY <1>1, <1>2, Distance DEF Based
  <1>4. d = IF diff > 0 THEN [r EXCEPT !.out_of_order = Append(@, s)]
            ELSE IF -diff < Len(s.data) THEN AppendData(r, SeqAdd(s.seq, -diff), Drop(s.data, -diff))
            ELSE r
    BY Zenon DEF DrainSegment
  <1> HIDE DEF p, q, d, diff
  <1>5. CASE p > k + 1
    <2>1. diff > 0
      BY <1>2, <1>3, <1>5
    <2> QED
      BY <1>4, <1>5, <2>1 DEF d, p
  <1>6. CASE p <= k + 1 /\ q > k
    <2>1. ~(diff > 0) /\ -diff = k + 1 - p /\ -diff < q - p + 1 /\ k + 1 - p \in 0 .. q - p + 1
          /\ k + 1 - p \in Nat /\ p + (k + 1 - p) = k + 1 /\ p + (k + 1 - p) < SeqSpace
      BY <1>2, <1>3, <1>6, Lengths
    <2>2. Drop(s.data, -diff) = Bytes(k + 1, q)
      BY <1>1, <1>2, <2>1, CutBytes
    <2>3. SeqAdd(s.seq, -diff) = SeqAdd(isn, k + 1)
      BY <1>1, <1>2, <2>1, SeqAddTwice
    <2>4. d = AppendData(r, SeqAdd(isn, k + 1), Bytes(k + 1, q))
      BY <1>1, <1>4, <2>1, <2>2, <2>3
    <2>5. q \in k + 1 .. StreamLen
      BY <1>2, <1>6
    <2>6. Based(d, b, q) /\ Grown(r, k, d, q) /\ d.out_of_order = r.out_of_order
      BY <2>4, <2>5, AppendGrows
    <2> QED
      BY <1>6, <2>6 DEF d, p, q
  <1>7. CASE p <= k + 1 /\ q <= k
    <2>1. ~(diff > 0) /\ ~(-diff < q - p + 1)
      BY <1>2, <1>3, <1>7
    <2>2. d = r
      BY <1>1, <1>4, <2>1
    <2> QED
      BY <1>7, <2>2 DEF d, p, q
  <1> QED
    BY <1>2, <1>5, <1>6, <1>7

-----------------------------------------------------------------------------
\* All that is held starts beyond the byte behind k.
Beyond(r, k) == \A i \in DOMAIN r.out_of_order : From(r.out_of_order[i]) > k + 1

\* What the first n held segments have.
HeldUpTo(list, n) == UNION {From(list[i]) .. To(list[i]) : i \in 1 .. n}

LEMMA HeldGrows ==
    ASSUME NEW T, NEW list \in Seq(T), NEW s \in T
    PROVE  /\ HeldIn(Append(list, s)) = HeldIn(list) \union From(s) .. To(s)
           /\ HeldIn(list) = HeldUpTo(list, Len(list))
           /\ \A n \in Nat : HeldUpTo(list, n + 1) = HeldUpTo(list, n) \union From(list[n + 1]) .. To(list[n + 1])
           /\ HeldUpTo(list, 0) = {} /\ HeldIn(<< >>) = {}
  <1> DEFINE n == Len(list)
             last == Append(list, s)
  <1>1. n \in Nat /\ DOMAIN list = 1 .. n
    OBVIOUS
  <1>2. /\ DOMAIN last = 1 .. n + 1 /\ last[n + 1] = s
        /\ \A i \in 1 .. n : last[i] = list[i]
    BY AppendProperties
  <1> HIDE DEF n, last
  <1>3. 1 .. n + 1 = (1 .. n) \union {n + 1}
    BY <1>1
  <1>4. HeldIn(last) = HeldIn(list) \union From(s) .. To(s)
    BY <1>1, <1>2, <1>3 DEF HeldIn
  <1>5. HeldIn(list) = HeldUpTo(list, n)
    BY <1>1 DEF HeldIn, HeldUpTo
  <1>6. ASSUME NEW m \in Nat
        PROVE HeldUpTo(list, m + 1) = HeldUpTo(list, m) \union From(list[m + 1]) .. To(list[m + 1])
    <2>1. 1 .. m + 1 = (1 .. m) \union {m + 1}
      OBVIOUS
    <2> QED
      BY <2>1 DEF HeldUpTo
  <1>7. HeldUpTo(list, 0) = {} /\ HeldIn(<< >>) = {}
    BY DEF HeldUpTo, HeldIn
  <1> QED
    BY <1>4, <1>5, <1>6, <1>7 DEF n, last

\* A pass over the first n held segments has led from r to d: nothing held is
\* lost, and the list got shorter unless all n are beyond the gap, in which
\* case d holds them and has taken up nothing.
Drained(r, b, k, n, d, m) ==
    /\ Based(d, b, m) /\ Grown(r, k, d, m)
    /\ 1 .. m \union HeldIn(d.out_of_order) = 1 .. k \union HeldUpTo(r.out_of_order, n)
    /\ Len(d.out_of_order) <= n
    /\ Len(d.out_of_order) = n <=> \A i \in 1 .. n : From(r.out_of_order[i]) > k + 1
    /\ Len(d.out_of_order) = n =>
         /\ m = k
         /\ \A i \in 1 .. n : d.out_of_order[i] = r.out_of_order[i]
         /\ d = [r EXCEPT !.out_of_order = d.out_of_order]

LEMMA DrainedInit ==
    ASSUME isn \in SeqNumber, NEW r, NEW b, NEW k, Based(r, b, k)
    PROVE  Drained(r, b, k, 0, [r EXCEPT !.out_of_order = << >>], k)
  <1> DEFINE d == [r EXCEPT !.out_of_order = << >>]
  <1>1. r \in Direction
    BY DEF Based
  <1>2. /\ d \in Direction /\ d.out_of_order = << >>
        /\ d.base_seq = r.base_seq /\ d.next_expected_seq = r.next_expected_seq
        /\ d.data_buffer = r.data_buffer /\ d.segments = r.segments /\ d.is_closed = r.is_closed
    <2> DEFINE none == << >>
    <2>1. none \in Seq(Pieces)
      OBVIOUS
    <2>2. d = [r EXCEPT !.out_of_order = none]
      OBVIOUS
    <2> HIDE DEF none, d
    <2>3. /\ d \in Direction /\ d.out_of_order = none
          /\ d.base_seq = r.base_seq /\ d.next_expected_seq = r.next_expected_seq
          /\ d.data_buffer = r.data_buffer /\ d.segments = r.segments /\ d.is_closed = r.is_closed
      BY <1>1, <2>1, <2>2 DEF Direction
    <2> QED
      BY <2>3 DEF none
  <1>3. d = [r EXCEPT !.out_of_order = d.out_of_order]
    BY <1>2
  <1> HIDE DEF d
  <1>4. Based(d, b, k)
    BY <1>2 DEF Based
  <1>5. Grown(r, k, d, k)
    <2>1. Grown(r, k, r, k)
      BY GrownReflexive, LogType
    <2> QED
      BY <1>2, <2>1 DEF Grown
  <1>6. HeldIn(d.out_of_order) = {} /\ HeldUpTo(r.out_of_order, 0) = {} /\ Len(d.out_of_order) = 0
    BY <1>2 DEF HeldIn, HeldUpTo
  <1>7. Drained(r, b, k, 0, d, k)
    BY <1>3, <1>4, <1>5, <1>6 DEF Drained
  <1> QED
    BY <1>7 DEF d

LEMMA DrainedStep ==
    ASSUME isn \in SeqNumber, NEW r, NEW b, NEW k, Based(r, b, k),
           NEW n \in 0 .. Len(r.out_of_order) - 1, NEW d, NEW m, Drained(r, b, k, n, d, m)
    PROVE  \E m2 : Drained(r, b, k, n + 1, DrainSegment(d, r.out_of_order[n + 1]), m2)
  <1> DEFINE list == r.out_of_order
             held == d.out_of_order
             s == list[n + 1]
             e == DrainSegment(d, s)
  <1>1. /\ list \in Seq(Pieces) /\ held \in Seq(Pieces) /\ Len(list) \in Nat /\ Len(held) \in Nat
        /\ r \in Direction /\ d \in Direction /\ Based(d, b, m)
    BY DEF Drained, Based, Direction
  <1>2. n \in Nat /\ n + 1 \in 1 .. Len(list) /\ s \in Pieces
    BY <1>1
  <1>3. From(s) \in Nat /\ From(s) >= 1 /\ To(s) \in Nat /\ From(s) <= To(s) /\ To(s) <= StreamLen
    BY <1>2, PieceFacts, Lengths DEF Stream
  <1>4. k \in Nat /\ m \in Nat /\ k <= m /\ m <= StreamLen /\ Grown(r, k, d, m)
    <2>1. Grown(r, k, d, m) /\ m \in k .. StreamLen
      BY DEF Drained, Grown
    <2>2. b \in Position /\ k \in b - 1 .. StreamLen
      BY DEF Based
    <2> QED
      BY <2>1, <2>2, Lengths DEF Position
  <1>5. /\ 1 .. m \union HeldIn(held) = 1 .. k \union HeldUpTo(list, n)
        /\ Len(held) <= n
        /\ Len(held) = n <=> \A i \in 1 .. n : From(list[i]) > k + 1
        /\ Len(held) = n => /\ m = k
                            /\ \A i \in 1 .. n : held[i] = list[i]
                            /\ d = [r EXCEPT !.out_of_order = held]
    BY DEF Drained
  <1>6. HeldUpTo(list, n + 1) = HeldUpTo(list, n) \union From(s) .. To(s)
    BY <1>1, <1>2, HeldGrows
  <1>7. (\A i \in 1 .. n + 1 : From(list[i]) > k + 1) <=>
          (\A i \in 1 .. n : From(list[i]) > k + 1) /\ From(s) > k + 1
    <2>1. \A i \in 1 .. n + 1 : i \in 1 .. n \/ i = n + 1
      BY <1>2
    <2>2. \A i \in 1 .. n : i \in 1 .. n + 1
      BY <1>2
    <2> QED
      BY <1>2, <2>1, <2>2
  <1>8. \/ From(s) > m + 1 /\ e = [d EXCEPT !.out_of_order = Append(@, s)]
        \/ /\ From(s) <= m + 1 /\ To(s) > m
           /\ Based(e, b, To(s)) /\ Grown(d, m, e, To(s))
           /\ e.out_of_order = held
        \/ From(s) <= m + 1 /\ To(s) <= m /\ e = d
    BY <1>1, <1>2, DrainCases
  <1>9. Logged(r.segments) \in Seq(Stream)
    BY LogType
  <1> HIDE DEF list, held, s, e
  <1>10. CASE From(s) > m + 1 /\ e = [d EXCEPT !.out_of_order = Append(@, s)]
    <2> DEFINE list2 == Append(held, s)
    <2>1. /\ list2 \in Seq(Pieces) /\ Len(list2) = Len(held) + 1 /\ list2[Len(held) + 1] = s
          /\ \A i \in 1 .. Len(held) : list2[i] = held[i]
      BY <1>1, <1>2, AppendProperties
    <2>2. e = [d EXCEPT !.out_of_order = list2]
      BY <1>10 DEF held
    <2> HIDE DEF list2
    <2>3. /\ e \in Direction /\ e.out_of_order = list2
          /\ e.base_seq = d.base_seq /\ e.next_expected_seq = d.next_expected_seq
          /\ e.data_buffer = d.data_buffer /\ e.segments = d.segments /\ e.is_closed = d.is_closed
      BY <1>1, <2>1, <2>2 DEF Direction
    <2>4. Based(e, b, m) /\ Grown(r, k, e, m)
      BY <1>1, <1>4, <2>3 DEF Based, Grown
    <2>5. HeldIn(list2) = HeldIn(held) \union From(s) .. To(s)
      BY <1>1, <1>2, HeldGrows DEF list2
    <2>6. 1 .. m \union HeldIn(list2) = 1 .. k \union HeldUpTo(list, n + 1)
      BY <1>5, <1>6, <2>5
    <2>7. Len(list2) <= n + 1 /\ (Len(list2) = n + 1 <=> Len(held) = n)
      BY <1>1, <1>2, <1>5, <2>1
    <2>8. Len(list2) = n + 1 <=> \A i \in 1 .. n + 1 : From(list[i]) > k + 1
      <3>1. Len(held) = n => From(s) > k + 1
        BY <1>5, <1>10
      <3> QED
        BY <1>5, <1>7, <2>7, <3>1
    <2>9. ASSUME Len(list2) = n + 1
          PROVE  /\ m = k
                 /\ \A i \in 1 .. n + 1 : list2[i] = list[i]
                 /\ e = [r EXCEPT !.out_of_order = list2]
      <3>1. Len(held) = n /\ m = k /\ (\A i \in 1 .. n : held[i] = list[i])
            /\ d = [r EXCEPT !.out_of_order = held]
        BY <1>5, <2>7, <2>9
      <3>2. \A i \in 1 .. n + 1 : i \in 1 .. n \/ i = n + 1
        BY <1>2
      <3>3. \A i \in 1 .. n + 1 : list2[i] = list[i]
        BY <2>1, <3>1, <3>2 DEF s
      <3>4. e = [r EXCEPT !.out_of_order = list2]
        BY <1>1, <2>2, <3>1 DEF Direction
      <3> QED
        BY <3>1, <3>3, <3>4
    <2>10. Drained(r, b, k, n + 1, e, m)
      BY <2>3, <2>4, <2>6, <2>7, <2>8, <2>9 DEF Drained, list
    <2> QED
      BY <2>10 DEF e, s, list
  <1>11. CASE From(s) <= m + 1 /\ To(s) > m /\ Based(e, b, To(s)) /\ Grown(d, m, e, To(s))
              /\ e.out_of_order = held
    <2>1. Grown(r, k, e, To(s))
      BY <1>4, <1>9, <1>11, GrownTransitive
    <2>2. 1 .. To(s) = 1 .. m \union From(s) .. To(s)
      BY <1>3, <1>4, <1>11
    <2>3. 1 .. To(s) \union HeldIn(held) = 1 .. k \union HeldUpTo(list, n + 1)
      BY <1>5, <1>6, <2>2
    <2>4. Len(held) <= n + 1 /\ Len(held) # n + 1
      BY <1>1, <1>2, <1>5
    <2>5. ~ \A i \in 1 .. n + 1 : From(list[i]) > k + 1
      BY <1>3, <1>4, <1>5, <1>7, <1>11
    <2>6. Drained(r, b, k, n + 1, e, To(s))
      BY <1>11, <2>1, <2>3, <2>4, <2>5 DEF Drained, list
    <2> QED
      BY <2>6 DEF e, s, list
  <1>12. CASE From(s) <= m + 1 /\ To(s) <= m /\ e = d
    <2>1. From(s) .. To(s) \subseteq 1 .. m
      BY <1>3, <1>4, <1>12
    <2>2. 1 .. m \union HeldIn(held) = 1 .. k \union HeldUpTo(list, n + 1)
      BY <1>5, <1>6, <2>1
    <2>3. Len(held) <= n + 1 /\ Len(held) # n + 1
      BY <1>1, <1>2, <1>5
    <2>4. ~ \A i \in 1 .. n + 1 : From(list[i]) > k + 1
      BY <1>3, <1>4, <1>5, <1>7, <1>12
    <2>5. Drained(r, b, k, n + 1, e, m)
      BY <1>1, <1>4, <1>12, <2>2, <2>3, <2>4 DEF Drained, list, held
    <2> QED
      BY <2>5 DEF e, s, list
  <1> QED
    BY <1>8, <1>10, <1>11, <1>12

\* From r to d nothing held and no position up to k is lost.
Keeps(r, k, d, m) ==
    1 .. m \union HeldIn(d.out_of_order) = 1 .. k \union HeldIn(r.out_of_order)

\* A whole pass takes a segment off the list, unless all are beyond the gap:
\* then it changes nothing.
LEMMA PassResult ==
    ASSUME isn \in SeqNumber, NEW r, NEW b, NEW k, Based(r, b, k)
    PROVE  \E m : LET d == DrainPass(r)
                  IN  /\ Based(d, b, m) /\ Grown(r, k, d, m) /\ Keeps(r, k, d, m)
                      /\ Beyond(r, k) \/ Len(d.out_of_order) < Len(r.out_of_order)
                      /\ Beyond(r, k) => d = r /\ m = k
  <1> DEFINE list == r.out_of_order
             n == Len(list)
  <1>1. list \in Seq(Pieces) /\ n \in Nat /\ DOMAIN list = 1 .. n /\ r \in Direction
    BY DEF Based, Direction
  <1>2. PICK f : /\ f[0] = [r EXCEPT !.out_of_order = << >>]
                 /\ \A i \in 1 .. n : f[i] = DrainSegment(f[i - 1], list[i])
                 /\ DrainPass(r) = f[n]
    BY <1>1, DrainPassIs
  <1> DEFINE S == {i \in Nat : i \in 0 .. n => \E m : Drained(r, b, k, i, f[i], m)}
  <1> HIDE DEF n, list
  <1>3. 0 \in S
    BY <1>2, DrainedInit
  <1>4. ASSUME NEW i \in S PROVE i + 1 \in S
    <2> SUFFICES ASSUME i + 1 \in 0 .. n PROVE \E m : Drained(r, b, k, i + 1, f[i + 1], m)
      OBVIOUS
    <2>1. i \in 0 .. n /\ i \in 0 .. n - 1 /\ i + 1 \in 1 .. n /\ (i + 1) - 1 = i
      BY <1>1
    <2>2. PICK m : Drained(r, b, k, i, f[i], m)
      BY <2>1
    <2>3. f[i + 1] = DrainSegment(f[i], list[i + 1])
      BY <1>2, <2>1
    <2> QED
      BY <2>1, <2>2, <2>3, DrainedStep DEF n, list
  <1>5. S \subseteq Nat
    OBVIOUS
  <1> HIDE DEF S
  <1>6. S = Nat
    BY <1>3, <1>4, <1>5, Induction
  <1>7. n \in S /\ n \in 0 .. n
    BY <1>1, <1>6
  <1> USE DEF S
  <1>8. PICK m : Drained(r, b, k, n, f[n], m)
    BY <1>7
  <1> DEFINE d == DrainPass(r)
  <1>9. Drained(r, b, k, n, d, m)
    BY <1>2, <1>8
  <1> HIDE DEF d, S
  <1>10. HeldUpTo(list, n) = HeldIn(list)
    BY <1>1 DEF HeldUpTo, HeldIn
  <1>11. Based(d, b, m) /\ Grown(r, k, d, m) /\ Keeps(r, k, d, m)
    BY <1>9, <1>10 DEF Drained, Keeps, list
  <1>12. Beyond(r, k) <=> \A i \in 1 .. n : From(list[i]) > k + 1
    BY <1>1 DEF Beyond, list
  <1>13. d.out_of_order \in Seq(Pieces) /\ Len(d.out_of_order) \in Nat
    BY <1>11 DEF Based, Direction
  <1>14. Beyond(r, k) \/ Len(d.out_of_order) < n
    BY <1>1, <1>9, <1>12, <1>13 DEF Drained, list
  <1>15. ASSUME Beyond(r, k) PROVE d = r /\ m = k
    <2>1. /\ Len(d.out_of_order) = n /\ m = k
          /\ \A i \in 1 .. n : d.out_of_order[i] = list[i]
          /\ d = [r EXCEPT !.out_of_order = d.out_of_order]
      BY <1>9, <1>12, <1>15 DEF Drained, list
    <2>2. d.out_of_order = list
      BY <1>1, <1>13, <2>1, SeqEqual DEF n
    <2>3. d = [r EXCEPT !.out_of_order = list]
      BY <2>1, <2>2, Zenon
    <2>4. [r EXCEPT !.out_of_order = list] = r
      BY <1>1 DEF Direction, list
    <2> QED
      BY <2>1, <2>3, <2>4
  <1> QED
    BY <1>11, <1>14, <1>15 DEF d, n, list

-----------------------------------------------------------------------------
\* The loop ends with everything that is held beyond the gap: as many passes
\* as there are held segments are enough for that.
LEMMA ProcessResult ==
    ASSUME isn \in SeqNumber, NEW r, NEW b, NEW k, Based(r, b, k)
    PROVE  \E m : LET d == ProcessOutOfOrder(r)
                  IN  Based(d, b, m) /\ Grown(r, k, d, m) /\ Keeps(r, k, d, m) /\ Beyond(d, m)
  <1> DEFINE n == Len(r.out_of_order)
  <1>1. r.out_of_order \in Seq(Pieces) /\ n \in Nat
    BY DEF Based, Direction
  <1>2. PICK f : /\ f[0] = r
                 /\ \A i \in 1 .. n : f[i] = DrainPass(f[i - 1])
                 /\ ProcessOutOfOrder(r) = f[n]
    BY <1>1, ProcessIs
  <1> DEFINE Passed(i, m) == /\ Based(f[i], b, m) /\ Grown(r, k, f[i], m) /\ Keeps(r, k, f[i], m)
                             /\ Beyond(f[i], m) \/ Len(f[i].out_of_order) <= n - i
             S == {i \in Nat : i \in 0 .. n => \E m : Passed(i, m)}
  <1>3. Logged(r.segments) \in Seq(Stream)
    BY LogType
  <1>4. 0 \in S
    <2>1. Passed(0, k)
      BY <1>1, <1>2, <1>3, GrownReflexive DEF Keeps
    <2> HIDE DEF Passed
    <2> QED
      BY <2>1
  <1>5. ASSUME NEW i \in S PROVE i + 1 \in S
    <2> HIDE DEF n, Passed
    <2> SUFFICES ASSUME i + 1 \in 0 .. n PROVE \E m : Passed(i + 1, m)
      OBVIOUS
    <2> USE DEF Passed
    <2>1. i \in 0 .. n /\ i + 1 \in 1 .. n /\ (i + 1) - 1 = i
      BY <1>1
    <2>2. PICK m : Passed(i, m)
      <3> HIDE DEF Passed
      <3> QED
        BY <2>1
    <2>3. f[i + 1] = DrainPass(f[i])
      BY <1>2, <2>1
    <2> DEFINE p == f[i]
               d == f[i + 1]
    <2>4. PICK m2 : /\ Based(d, b, m2) /\ Grown(p, m, d, m2) /\ Keeps(p, m, d, m2)
                    /\ Beyond(p, m) \/ Len(d.out_of_order) < Len(p.out_of_order)
                    /\ Beyond(p, m) => d = p /\ m2 = m
      BY <2>2, <2>3, PassResult
    <2>5. Grown(r, k, d, m2)
      BY <1>3, <2>2, <2>4, GrownTransitive
    <2>6. Keeps(r, k, d, m2)
      BY <2>2, <2>4 DEF Keeps
    <2>7. Len(p.out_of_order) \in Nat /\ Len(d.out_of_order) \in Nat
      <3> HIDE DEF p, d
      <3>1. Based(p, b, m) /\ Based(d, b, m2)
        BY <2>2, <2>4 DEF p
      <3>2. p.out_of_order \in Seq(Pieces) /\ d.out_of_order \in Seq(Pieces)
        BY <3>1 DEF Based, Direction
      <3> QED
        BY <3>2
    <2>8. Beyond(d, m2) \/ Len(d.out_of_order) <= n - (i + 1)
      <3>1. CASE Beyond(p, m)
        BY <2>4, <3>1
      <3>2. CASE ~Beyond(p, m)
        <4>1. Len(p.out_of_order) <= n - i /\ Len(d.out_of_order) < Len(p.out_of_order)
          BY <2>2, <2>4, <3>2
        <4> QED
          BY <1>1, <2>1, <2>7, <4>1
      <3> QED
        BY <3>1, <3>2
    <2>9. Passed(i + 1, m2)
      BY <2>4, <2>5, <2>6, <2>8
    <2> HIDE DEF Passed
    <2> QED
      BY <2>9
  <1>6. S \subseteq Nat
    OBVIOUS
  <1> HIDE DEF S
  <1>7. S = Nat
    BY <1>4, <1>5, <1>6, Induction
  <1> HIDE DEF n
  <1>8. n \in S /\ n \in 0 .. n
    BY <1>1, <1>7
  <1>9. \E m : Passed(n, m)
    <2> HIDE DEF Passed
    <2> USE DEF S
    <2> QED
      BY <1>8
  <1>10. PICK m : Passed(n, m)
    BY <1>9
  <1>11. Beyond(f[n], m)
    <2>1. CASE Beyond(f[n], m)
      BY <2>1
    <2>2. CASE Len(f[n].out_of_order) <= n - n
      <3>1. f[n].out_of_order \in Seq(Pieces)
        BY <1>10 DEF Based, Direction
      <3>2. DOMAIN f[n].out_of_order = {}
        BY <1>1, <2>2, <3>1
      <3> QED
        BY <3>2 DEF Beyond
    <2> QED
      BY <1>10, <2>1, <2>2
  <1> QED
    BY <1>2, <1>10, <1>11

-----------------------------------------------------------------------------
\* A segment that is held is held with the others.
LEMMA HoldResult ==
    ASSUME isn \in SeqNumber, NEW r, NEW b, NEW k, Based(r, b, k), NEW s \in Pieces
    PROVE  LET d == HoldSegment(r, s.seq, s.data)
           IN  /\ Based(d, b, k) /\ Grown(r, k, d, k)
               /\ HeldIn(d.out_of_order) = HeldIn(r.out_of_order) \union From(s) .. To(s)
               /\ Beyond(r, k) /\ From(s) > k + 1 => Beyond(d, k)
  <1> DEFINE list == r.out_of_order
             before == {i \in DOMAIN list : list[i].seq <= s.seq}
             n == Cardinality(before)
             l == InsertAt(list, n + 1, s)
             d == HoldSegment(r, s.seq, s.data)
  <1>1. r \in Direction /\ list \in Seq(Pieces) /\ Len(list) \in Nat /\ DOMAIN list = 1 .. Len(list)
    BY DEF Based, Direction
  <1>2. n \in 0 .. Len(list)
    BY <1>1, HeldBefore
  <1>3. s = Segment(s.seq, s.data)
    BY PieceFacts
  <1>4. d = [r EXCEPT !.out_of_order = l]
    <2>1. d = [r EXCEPT !.out_of_order = InsertAt(list, n + 1, Segment(s.seq, s.data))]
      BY DEF HoldSegment
    <2> QED
      BY <1>3, <2>1, Zenon
  <1> HIDE DEF n, d, list
  <1>5. l \in Seq(Pieces) /\ HasAlso(l, list, s)
    BY <1>1, <1>2, InsertHas
  <1> HIDE DEF l
  <1>6. /\ d \in Direction /\ d.out_of_order = l
        /\ d.base_seq = r.base_seq /\ d.next_expected_seq = r.next_expected_seq
        /\ d.data_buffer = r.data_buffer /\ d.segments = r.segments /\ d.is_closed = r.is_closed
    BY <1>1, <1>4, <1>5 DEF Direction
  <1>7. Based(d, b, k)
    BY <1>6 DEF Based
  <1>8. Grown(r, k, d, k)
    <2>1. Grown(r, k, r, k)
      BY LogType, GrownReflexive
    <2> QED
      BY <1>6, <2>1 DEF Grown
  <1>9. HeldIn(l) = HeldIn(list) \union From(s) .. To(s)
    <2>1. ASSUME NEW x \in HeldIn(l) PROVE x \in HeldIn(list) \union From(s) .. To(s)
      <3>1. PICK i \in DOMAIN l : x \in From(l[i]) .. To(l[i])
        BY <2>1 DEF HeldIn
      <3>2. l[i] = s \/ \E j \in DOMAIN list : list[j] = l[i]
        BY <1>5 DEF HasAlso
      <3> QED
        BY <3>1, <3>2 DEF HeldIn
    <2>2. ASSUME NEW x \in HeldIn(list) PROVE x \in HeldIn(l)
      <3>1. PICK i \in DOMAIN list : x \in From(list[i]) .. To(list[i])
        BY <2>2 DEF HeldIn
      <3>2. PICK j \in DOMAIN l : l[j] = list[i]
        BY <1>5 DEF HasAlso
      <3> QED
        BY <3>1, <3>2 DEF HeldIn
    <2>3. ASSUME NEW x \in From(s) .. To(s) PROVE x \in HeldIn(l)
      <3>1. PICK j \in DOMAIN l : l[j] = s
        BY <1>5 DEF HasAlso
      <3> QED
        BY <2>3, <3>1 DEF HeldIn
    <2> QED
      BY <2>1, <2>2, <2>3
  <1>10. Beyond(r, k) /\ From(s) > k + 1 => Beyond(d, k)
    BY <1>5, <1>6 DEF Beyond, list, HasAlso
  <1> QED
    BY <1>6, <1>7, <1>8, <1>9, <1>10 DEF d, list

-----------------------------------------------------------------------------
\* From r to d the positions p .. q came to those that are taken up or held.
Took(r, k, p, q, d, m) ==
    1 .. m \union HeldIn(d.out_of_order) = 1 .. k \union HeldIn(r.out_of_order) \union p .. q

\* Whether the end of the direction was seen concerns nothing else.
LEMMA Closing ==
    ASSUME NEW r, NEW b, NEW k, Based(r, b, k), NEW fin \in BOOLEAN
    PROVE  LET d == [r EXCEPT !.is_closed = @ \/ fin]
           IN  /\ Based(d, b, k)
               /\ d.is_closed = (r.is_closed \/ fin)
               /\ d.data_buffer = r.data_buffer /\ d.segments = r.segments
               /\ d.out_of_order = r.out_of_order
  <1> DEFINE d == [r EXCEPT !.is_closed = @ \/ fin]
  <1>1. r \in Direction /\ (r.is_closed \/ fin) \in BOOLEAN
    BY DEF Based, Direction
  <1>2. /\ d \in Direction /\ d.is_closed = (r.is_closed \/ fin)
        /\ d.base_seq = r.base_seq /\ d.next_expected_seq = r.next_expected_seq
        /\ d.data_buffer = r.data_buffer /\ d.segments = r.segments
        /\ d.out_of_order = r.out_of_order
    BY <1>1 DEF Direction
  <1> HIDE DEF d
  <1>3. Based(d, b, k)
    BY <1>2 DEF Based
  <1> QED
    BY <1>2, <1>3 DEF d

\* _process_out_of_order after the bytes p .. q, when they start beyond k.
LEMMA TakeBeyond ==
    ASSUME isn \in SeqNumber, NEW r, NEW b, NEW k, Based(r, b, k), NEW s \in Pieces
    PROVE  \E m : LET d == ProcessOutOfOrder(HoldSegment(r, s.seq, s.data))
                  IN  /\ Based(d, b, m) /\ Grown(r, k, d, m) /\ Beyond(d, m)
                      /\ Took(r, k, From(s), To(s), d, m)
  <1> DEFINE h == HoldSegment(r, s.seq, s.data)
             d == ProcessOutOfOrder(h)
  <1>1. /\ Based(h, b, k) /\ Grown(r, k, h, k)
        /\ HeldIn(h.out_of_order) = HeldIn(r.out_of_order) \union From(s) .. To(s)
    BY HoldResult
  <1> HIDE DEF h
  <1>2. PICK m : Based(d, b, m) /\ Grown(h, k, d, m) /\ Keeps(h, k, d, m) /\ Beyond(d, m)
    BY <1>1, ProcessResult
  <1> HIDE DEF d
  <1>3. Grown(r, k, d, m)
    BY <1>1, <1>2, LogType, GrownTransitive
  <1>4. Took(r, k, From(s), To(s), d, m)
    BY <1>1, <1>2 DEF Took, Keeps
  <1> QED
    BY <1>2, <1>3, <1>4 DEF d, h

\* _process_out_of_order after the bytes k + 1 .. q.
LEMMA TakeNext ==
    ASSUME isn \in SeqNumber, NEW r, NEW b, NEW k, Based(r, b, k), NEW q \in k + 1 .. StreamLen,
           NEW p \in 1 .. k + 1
    PROVE  \E m : LET d == ProcessOutOfOrder(AppendData(r, SeqAdd(isn, k + 1), Bytes(k + 1, q)))
                  IN  /\ Based(d, b, m) /\ Grown(r, k, d, m) /\ Beyond(d, m)
                      /\ Took(r, k, p, q, d, m)
  <1> DEFINE a == AppendData(r, SeqAdd(isn, k + 1), Bytes(k + 1, q))
             d == ProcessOutOfOrder(a)
  <1>1. Based(a, b, q) /\ Grown(r, k, a, q) /\ a.out_of_order = r.out_of_order
    BY AppendGrows
  <1> HIDE DEF a
  <1>2. PICK m : Based(d, b, m) /\ Grown(a, q, d, m) /\ Keeps(a, q, d, m) /\ Beyond(d, m)
    BY <1>1, ProcessResult
  <1> HIDE DEF d
  <1>3. Grown(r, k, d, m)
    BY <1>1, <1>2, LogType, GrownTransitive
  <1>4. 1 .. q = 1 .. k \union p .. q
    BY Lengths DEF Based, Stream
  <1>5. Took(r, k, p, q, d, m)
    BY <1>1, <1>2, <1>4 DEF Took, Keeps
  <1> QED
    BY <1>2, <1>3, <1>5 DEF d, a

\* The buffer grew by what follows it, and the positions p .. q were taken up
\* or are held.
Added(r, b, k, p, q, fin, d, m) ==
    /\ Based(d, b, m) /\ Beyond(d, m) /\ Took(r, k, p, q, d, m)
    /\ m \in k .. StreamLen
    /\ d.is_closed = (r.is_closed \/ fin)
    /\ d.data_buffer = r.data_buffer \o Bytes(k + 1, m)
    /\ Logged(d.segments) = Logged(r.segments) \o Bytes(k + 1, m)

\* add_segment from the comparison with next_expected_seq on.
LEMMA AddResult ==
    ASSUME isn \in SeqNumber, NEW r, NEW b, NEW k, Based(r, b, k), Beyond(r, k),
           NEW p \in Stream, NEW q \in p .. StreamLen, NEW fin \in BOOLEAN
    PROVE  \E m : Added(r, b, k, p, q, fin, AddAfterBase(r, SeqAdd(isn, p), Bytes(p, q), fin), m)
  <1> DEFINE s == Piece(p, q)
             overlap == SeqDiff(r.next_expected_seq, SeqAdd(isn, p))
             diff == SeqDiff(SeqAdd(isn, p), r.next_expected_seq)
             data == Bytes(p, q)
             added == IF diff > 0 THEN ProcessOutOfOrder(HoldSegment(r, SeqAdd(isn, p), data))
                      ELSE IF overlap < Len(data)
                      THEN ProcessOutOfOrder(AppendData(r, SeqAdd(SeqAdd(isn, p), overlap), Drop(data, overlap)))
                      ELSE r
             d == AddAfterBase(r, SeqAdd(isn, p), data, fin)
  <1>1. d = [added EXCEPT !.is_closed = @ \/ fin]
    BY Zenon DEF AddAfterBase
  <1>2. /\ p \in Nat /\ p >= 1 /\ q \in Nat /\ p <= q /\ q <= StreamLen /\ k \in Nat /\ k <= StreamLen
        /\ p \in Position /\ k + 1 \in Position /\ q \in p - 1 .. StreamLen
    BY Lengths DEF Based, Stream, Position
  <1>3. diff = p - (k + 1) /\ overlap = (k + 1) - p
    BY <1>2, Distance DEF Based
  <1>4. s \in Pieces /\ From(s) = p /\ To(s) = q /\ s.data = data /\ s.seq = SeqAdd(isn, p)
    BY PieceIsPiece DEF Piece, Segment
  <1>5. Len(data) = q - p + 1
    BY <1>2, BytesFacts
  <1> HIDE DEF s, overlap, diff, data, d
  <1>6. \E m : Based(added, b, m) /\ Grown(r, k, added, m) /\ Beyond(added, m) /\ Took(r, k, p, q, added, m)
    <2>1. CASE p > k + 1
      <3>1. diff > 0
        BY <1>2, <1>3, <2>1
      <3>2. added = ProcessOutOfOrder(HoldSegment(r, s.seq, s.data))
        BY <1>4, <3>1
      <3> HIDE DEF added
      <3> QED
        BY <1>4, <3>2, TakeBeyond
    <2>2. CASE p <= k + 1 /\ q > k
      <3>1. /\ ~(diff > 0) /\ overlap < q - p + 1 /\ overlap \in 0 .. q - p + 1 /\ overlap \in Nat
            /\ p + overlap = k + 1 /\ p + overlap < SeqSpace
        BY <1>2, <1>3, <2>2, Lengths
      <3>2. Drop(data, overlap) = Bytes(k + 1, q)
        BY <1>2, <3>1, CutBytes DEF data
      <3>3. SeqAdd(SeqAdd(isn, p), overlap) = SeqAdd(isn, k + 1)
        BY <1>2, <3>1, SeqAddTwice
      <3>4. added = ProcessOutOfOrder(AppendData(r, SeqAdd(isn, k + 1), Bytes(k + 1, q)))
        BY <1>5, <3>1, <3>2, <3>3
      <3>5. q \in k + 1 .. StreamLen /\ p \in 1 .. k + 1
        BY <1>2, <2>2
      <3> HIDE DEF added
      <3> QED
        BY <3>4, <3>5, TakeNext
    <2>3. CASE p <= k + 1 /\ q <= k
      <3>1. ~(diff > 0) /\ ~(overlap < q - p + 1)
        BY <1>2, <1>3, <2>3
      <3>2. added = r
        BY <1>5, <3>1
      <3> HIDE DEF added
      <3>3. Grown(r, k, r, k)
        BY LogType, GrownReflexive
      <3>4. p .. q \subseteq 1 .. k
        BY <1>2, <2>3
      <3>5. Took(r, k, p, q, r, k)
        BY <3>4 DEF Took
      <3> QED
        BY <3>2, <3>3, <3>5
    <2> QED
      BY <1>2, <2>1, <2>2, <2>3
  <1> HIDE DEF added
  <1>7. PICK m : Based(added, b, m) /\ Grown(r, k, added, m) /\ Beyond(added, m) /\ Took(r, k, p, q, added, m)
    BY <1>6
  <1>8. /\ Based(d, b, m) /\ d.is_closed = (added.is_closed \/ fin)
        /\ d.data_buffer = added.data_buffer /\ d.segments = added.segments
        /\ d.out_of_order = added.out_of_order
    BY <1>1, <1>7, Closing
  <1>9. Beyond(d, m) /\ Took(r, k, p, q, d, m)
    BY <1>7, <1>8 DEF Beyond, Took
  <1>10. /\ m \in k .. StreamLen
         /\ d.is_closed = (r.is_closed \/ fin)
         /\ d.data_buffer = r.data_buffer \o Bytes(k + 1, m)
         /\ Logged(d.segments) = Logged(r.segments) \o Bytes(k + 1, m)
    BY <1>7, <1>8 DEF Grown
  <1>11. Added(r, b, k, p, q, fin, d, m)
    BY <1>8, <1>9, <1>10 DEF Added
  <1> QED
    BY <1>11 DEF d, data

-----------------------------------------------------------------------------
\* The bytes p .. e before the base are put in front.
Fronted(r, p, e) ==
    [r EXCEPT !.data_buffer = Bytes(p, e) \o @, !.base_seq = SeqAdd(isn, p),
              !.segments = <<Segment(SeqAdd(isn, p), Bytes(p, e))>> \o @]

LEMMA FrontResult ==
    ASSUME isn \in SeqNumber, NEW r, NEW b, NEW k, Based(r, b, k), Beyond(r, k),
           NEW p \in 1 .. b - 1, NEW e \in p .. b - 1
    PROVE  LET d == Fronted(r, p, e)
           IN  /\ Based(d, p, k) /\ Beyond(d, k)
               /\ d.data_buffer = Bytes(p, e) \o r.data_buffer
               /\ Logged(d.segments) = Bytes(p, e) \o Logged(r.segments)
  <1> DEFINE buffer == Bytes(p, e) \o r.data_buffer
             s == Segment(SeqAdd(isn, p), Bytes(p, e))
             log == <<s>> \o r.segments
             base == SeqAdd(isn, p)
             d == Fronted(r, p, e)
  <1>1. /\ p \in Stream /\ p \in Position /\ e \in p .. StreamLen /\ e \in p - 1 .. StreamLen
        /\ k \in p - 1 .. StreamLen
    BY Lengths DEF Based, Stream, Position
  <1>2. r \in Direction
    BY DEF Based
  <1>3. s \in Pieces /\ s.data = Bytes(p, e)
    BY <1>1, PieceIsPiece DEF Piece, Segment
  <1>4. base \in SeqNumber
    BY <1>1, Distance
  <1>5. buffer \in Seq(Stream)
    BY <1>1, <1>2, BytesFacts, ConcatProperties DEF Direction
  <1>6. log \in Seq(Pieces) /\ Logged(log) = Bytes(p, e) \o Logged(r.segments)
    BY <1>2, <1>3, LogGrows DEF Direction
  <1>. d = [r EXCEPT !.data_buffer = buffer, !.base_seq = base, !.segments = log]
    BY DEF Fronted
  <1> HIDE DEF buffer, log, base, d
  <1>7. /\ d \in Direction /\ d.base_seq = base /\ d.next_expected_seq = r.next_expected_seq
        /\ d.data_buffer = buffer /\ d.segments = log /\ d.out_of_order = r.out_of_order
    BY <1>2, <1>4, <1>5, <1>6 DEF Direction
  <1>8. Based(d, p, k)
    BY <1>1, <1>7 DEF Based, base
  <1>9. Beyond(d, k)
    BY <1>7 DEF Beyond
  <1> QED
    BY <1>6, <1>7, <1>8, <1>9 DEF d, buffer, log, base

\* The bytes p .. e went in front of the buffer, and what follows it behind.
Prepended(r, b, k, p, d, e, m) ==
    /\ e \in p .. b - 1 /\ m \in k .. StreamLen
    /\ Based(d, p, m) /\ Beyond(d, m)
    /\ d.data_buffer = (Bytes(p, e) \o r.data_buffer) \o Bytes(k + 1, m)
    /\ Logged(d.segments) = (Bytes(p, e) \o Logged(r.segments)) \o Bytes(k + 1, m)

\* A segment that starts before the base: what precedes the base goes in
\* front, the rest is added as usual.
LEMMA PrependResult ==
    ASSUME isn \in SeqNumber, NEW r, NEW b, NEW k, Based(r, b, k), Beyond(r, k),
           NEW p \in 1 .. b - 1, NEW q \in p .. StreamLen, NEW fin \in BOOLEAN
    PROVE  \E e, m : Prepended(r, b, k, p, Prepend(r, SeqAdd(isn, p), Bytes(p, q), fin), e, m)
  <1> DEFINE data == Bytes(p, q)
             seq == SeqAdd(isn, p)
             n == Min({SeqDiff(r.base_seq, seq), Len(data)})
             head == SubSeq(data, 1, n)
             front == [r EXCEPT !.data_buffer = head \o @, !.base_seq = seq,
                                !.segments = <<Segment(seq, head)>> \o @]
             d == Prepend(r, seq, data, fin)
  <1>1. /\ p \in Nat /\ p >= 1 /\ q \in Nat /\ p <= q /\ q <= StreamLen /\ b \in Nat /\ p < b /\ b <= StreamLen + 1
        /\ k \in Nat /\ b - 1 <= k /\ k <= StreamLen
        /\ p \in Position /\ b \in Position /\ p \in Stream /\ q \in p - 1 .. StreamLen
    BY Lengths DEF Based, Stream, Position
  <1>2. d = IF Len(data) > n THEN AddAfterBase(front, SeqAdd(seq, n), Drop(data, n), fin) ELSE front
    BY Zenon DEF Prepend
  <1>3. Len(data) = q - p + 1 /\ SeqDiff(r.base_seq, seq) = b - p
    BY <1>1, BytesFacts, Distance DEF Based
  <1>4. n = IF b - p <= q - p + 1 THEN b - p ELSE q - p + 1
    BY <1>1, <1>3, MinOfTwo
  <1> HIDE DEF d, n
  <1> DEFINE e == p + n - 1
  <1>5. n \in 0 .. q - p + 1 /\ e \in p .. b - 1 /\ n \in Nat
    BY <1>1, <1>4
  <1>6. head = Bytes(p, e) /\ Drop(data, n) = Bytes(p + n, q)
    BY <1>1, <1>5, CutBytes
  <1>7. /\ Based(front, p, k) /\ Beyond(front, k)
        /\ front.data_buffer = Bytes(p, e) \o r.data_buffer
        /\ Logged(front.segments) = Bytes(p, e) \o Logged(r.segments)
    <2> HIDE DEF e, head
    <2>1. front = Fronted(r, p, e)
      BY <1>6, Zenon DEF Fronted
    <2> HIDE DEF front
    <2> QED
      BY <1>5, <2>1, FrontResult
  <1> HIDE DEF data, head, front, e
  <1>8. CASE Len(data) > n
    <2>1. n = b - p /\ q >= b
      BY <1>1, <1>3, <1>4, <1>8
    <2>2. p + n = b /\ p + n < SeqSpace /\ b \in Stream /\ q \in b .. StreamLen
      BY <1>1, <2>1, Lengths DEF Stream
    <2>3. SeqAdd(seq, n) = SeqAdd(isn, b) /\ Drop(data, n) = Bytes(b, q)
      BY <1>1, <1>5, <1>6, <2>2, SeqAddTwice
    <2>4. d = AddAfterBase(front, SeqAdd(isn, b), Bytes(b, q), fin)
      BY <1>2, <1>8, <2>3
    <2>5. PICK m : /\ Based(d, p, m) /\ Beyond(d, m) /\ m \in k .. StreamLen
                   /\ d.data_buffer = front.data_buffer \o Bytes(k + 1, m)
                   /\ Logged(d.segments) = Logged(front.segments) \o Bytes(k + 1, m)
      <3>1. \E m : Added(front, p, k, b, q, fin, d, m)
        BY <1>1, <1>7, <2>2, <2>4, AddResult
      <3> QED
        BY <3>1 DEF Added
    <2>6. Prepended(r, b, k, p, d, e, m)
      BY <1>5, <1>7, <2>5 DEF Prepended
    <2> QED
      BY <2>6 DEF d, data
  <1>9. CASE ~(Len(data) > n)
    <2>1. d = front
      BY <1>2, <1>9
    <2>2. /\ front.data_buffer = front.data_buffer \o Bytes(k + 1, k)
          /\ Logged(front.segments) = Logged(front.segments) \o Bytes(k + 1, k)
      <3>1. Grown(front, k, front, k)
        BY <1>7, LogType, GrownReflexive
      <3> QED
        BY <3>1 DEF Grown
    <2>3. k \in k .. StreamLen
      BY <1>1
    <2>4. /\ Based(d, p, k) /\ Beyond(d, k)
          /\ d.data_buffer = (Bytes(p, e) \o r.data_buffer) \o Bytes(k + 1, k)
          /\ Logged(d.segments) = (Bytes(p, e) \o Logged(r.segments)) \o Bytes(k + 1, k)
      BY <1>7, <2>1, <2>2, Zenon
    <2>5. Prepended(r, b, k, p, d, e, k)
      BY <1>5, <2>3, <2>4 DEF Prepended
    <2> QED
      BY <2>5 DEF d, data
  <1> QED
    BY <1>8, <1>9

-----------------------------------------------------------------------------
\* Bytes in stream order, none of them before lo or after hi.
Ascending(s, lo, hi) ==
    /\ \A i \in DOMAIN s : s[i] \in lo .. hi
    /\ \A i, j \in DOMAIN s : i < j => s[i] < s[j]

LEMMA AscendingBytes ==
    ASSUME NEW p \in Position, NEW q \in p - 1 .. StreamLen
    PROVE  Ascending(Bytes(p, q), p, q)
  <1>1. p \in Nat /\ q \in Int /\ DOMAIN Bytes(p, q) = 1 .. q - p + 1
        /\ \A i \in 1 .. q - p + 1 : Bytes(p, q)[i] = p + i - 1
    BY Lengths DEF Bytes, Position
  <1> QED
    BY <1>1 DEF Ascending

LEMMA AscendingConcat ==
    ASSUME NEW u \in Seq(Stream), NEW v \in Seq(Stream),
           NEW a \in Int, NEW c \in Int, NEW e \in Int, NEW z \in Int,
           Ascending(u, a, c), Ascending(v, e, z), a <= e, c < e, c <= z
    PROVE  Ascending(u \o v, a, z)
  <1> DEFINE w == u \o v
             n == Len(u)
             l == Len(v)
  <1>1. /\ n \in Nat /\ l \in Nat /\ DOMAIN u = 1 .. n /\ DOMAIN v = 1 .. l
        /\ DOMAIN w = 1 .. n + l
        /\ \A i \in 1 .. n + l : w[i] = IF i <= n THEN u[i] ELSE v[i - n]
    BY ConcatProperties
  <1> HIDE DEF w, n, l
  <1>2. /\ \A i \in 1 .. n : u[i] \in a .. c
        /\ \A i, j \in 1 .. n : i < j => u[i] < u[j]
        /\ \A i \in 1 .. l : v[i] \in e .. z
        /\ \A i, j \in 1 .. l : i < j => v[i] < v[j]
    BY <1>1 DEF Ascending
  <1>3. \A i \in 1 .. n + l : IF i <= n THEN i \in 1 .. n /\ w[i] = u[i]
                              ELSE i - n \in 1 .. l /\ w[i] = v[i - n]
    BY <1>1
  <1>4. ASSUME NEW i \in 1 .. n + l PROVE w[i] \in a .. z
    <2>1. w[i] \in a .. c \/ w[i] \in e .. z
      BY <1>2, <1>3
    <2> QED
      BY <2>1
  <1>5. ASSUME NEW i \in 1 .. n + l, NEW j \in 1 .. n + l, i < j PROVE w[i] < w[j]
    <2>1. CASE j <= n
      BY <1>1, <1>2, <1>3, <1>5, <2>1
    <2>2. CASE i <= n /\ ~(j <= n)
      <3>1. w[i] \in a .. c /\ w[j] \in e .. z
        BY <1>2, <1>3, <2>2
      <3> QED
        BY <3>1
    <2>3. CASE ~(i <= n)
      <3>1. ~(j <= n) /\ i - n < j - n
        BY <1>1, <1>5, <2>3
      <3> QED
        BY <1>2, <1>3, <2>3, <3>1
    <2> QED
      BY <1>1, <2>1, <2>2, <2>3
  <1>6. Ascending(w, a, z)
    BY <1>1, <1>4, <1>5 DEF Ascending
  <1> QED
    BY <1>6 DEF w

LEMMA LogEmpty == Logged(<< >>) = << >>
  <1> DEFINE none == [i \in DOMAIN << >> |-> << >>[i].data]
  <1>1. none \in [1 .. 0 -> {}]
    OBVIOUS
  <1>2. none \in Seq({}) /\ Len(none) = 0
    BY <1>1
  <1> HIDE DEF none
  <1>3. none = << >>
    BY <1>2
  <1>4. FlattenSeq(none) = none
    BY <1>2, Zenon DEF FlattenSeq
  <1> QED
    BY <1>3, <1>4, Zenon DEF Logged, none

-----------------------------------------------------------------------------
\* The buffer and the log are what a run of add_segment makes of the stream
\* from position b on: in stream order, whatever has been taken up.
Rebuilt(r, b, k) ==
    /\ Based(r, b, k) /\ Beyond(r, k)
    /\ Logged(r.segments) = r.data_buffer
    /\ Ascending(r.data_buffer, b, k)

\* With the handshake: the buffer is the stream up to k, and what was
\* captured besides is held.
Complete(r, k, positions, end) ==
    /\ r.data_buffer = Bytes(1, k)
    /\ positions = 1 .. k \union HeldIn(r.out_of_order)
    /\ r.is_closed <=> end

\* Without it, the first data there is sets the base.
LEMMA FirstData ==
    ASSUME isn \in SeqNumber, NEW r \in Direction, r.base_seq = None, r.data_buffer = << >>,
           r.segments = << >>, r.out_of_order = << >>,
           NEW p \in Stream, NEW q \in p .. StreamLen, NEW fin \in BOOLEAN
    PROVE  LET d == AddData(r, SeqAdd(isn, p), Bytes(p, q), fin)
           IN  Rebuilt(d, p, q) /\ d.data_buffer # << >>
  <1> DEFINE s == Segment(SeqAdd(isn, p), Bytes(p, q))
             buffer == << >> \o Bytes(p, q)
             log == Append(<< >>, s)
             next == SeqAdd(SeqAdd(isn, p), Len(Bytes(p, q)))
             base == SeqAdd(isn, p)
             d == AddData(r, SeqAdd(isn, p), Bytes(p, q), fin)
  <1>1. /\ p \in Nat /\ p >= 1 /\ q \in Nat /\ p <= q /\ q <= StreamLen
        /\ p \in Position /\ q + 1 \in Position /\ q \in p - 1 .. StreamLen
    BY Lengths DEF Stream, Position
  <1>2. Bytes(p, q) \in Seq(Stream) /\ Len(Bytes(p, q)) = q - p + 1
    BY <1>1, BytesFacts
  <1>3. s \in Pieces /\ s.data = Bytes(p, q)
    BY PieceIsPiece DEF Piece, Segment
  <1>4. d = [r EXCEPT !.base_seq = base, !.next_expected_seq = next, !.data_buffer = buffer, !.segments = log]
    BY DEF AddData
  <1>5. base \in SeqNumber /\ next = SeqAdd(isn, q + 1) /\ next \in SeqNumber
    <2>1. p + (q - p + 1) = q + 1 /\ q - p + 1 \in Nat /\ p + (q - p + 1) < SeqSpace
      BY <1>1, Lengths
    <2> QED
      BY <1>1, <1>2, <2>1, SeqAddTwice, Distance
  <1>6. buffer = Bytes(p, q) /\ buffer \in Seq(Stream) /\ buffer # << >>
    <2>1. buffer = Bytes(p, q)
      BY <1>2, ConcatEmptySeq
    <2> QED
      BY <1>1, <1>2, <2>1
  <1>7. log \in Seq(Pieces) /\ Logged(log) = Bytes(p, q)
    <2>1. << >> \in Seq(Pieces)
      OBVIOUS
    <2>2. log \in Seq(Pieces) /\ Logged(log) = Logged(<< >>) \o s.data
      BY <1>3, <2>1, LogGrows
    <2> QED
      BY <1>2, <1>3, <2>2, LogEmpty, ConcatEmptySeq
  <1> HIDE DEF s, buffer, log, next, base, d
  <1>8. /\ d \in Direction /\ d.base_seq = base /\ d.next_expected_seq = next
        /\ d.data_buffer = buffer /\ d.segments = log /\ d.out_of_order = << >>
    BY <1>4, <1>5, <1>6, <1>7 DEF Direction
  <1>9. Based(d, p, q)
    BY <1>1, <1>5, <1>8 DEF Based, base
  <1>10. Beyond(d, q)
    BY <1>8 DEF Beyond
  <1>11. Ascending(Bytes(p, q), p, q)
    BY <1>1, AscendingBytes
  <1>12. Rebuilt(d, p, q)
    BY <1>6, <1>7, <1>8, <1>9, <1>10, <1>11 DEF Rebuilt
  <1> QED
    BY <1>6, <1>8, <1>12 DEF d

\* What is appended follows the buffer.
LEMMA GrownAscending ==
    ASSUME NEW u \in Seq(Stream), NEW b \in Position, NEW k \in b - 1 .. StreamLen, NEW m \in k .. StreamLen,
           Ascending(u, b, k)
    PROVE  Ascending(u \o Bytes(k + 1, m), b, m) /\ u \o Bytes(k + 1, m) \in Seq(Stream)
  <1>1. /\ k + 1 \in Position /\ m \in (k + 1) - 1 .. StreamLen
        /\ b \in Int /\ k \in Int /\ k + 1 \in Int /\ m \in Int /\ b <= k + 1 /\ k < k + 1 /\ k <= m
    BY Lengths DEF Position
  <1>2. Bytes(k + 1, m) \in Seq(Stream) /\ Ascending(Bytes(k + 1, m), k + 1, m)
    BY <1>1, BytesFacts, AscendingBytes
  <1>3. Ascending(u \o Bytes(k + 1, m), b, m)
    BY <1>1, <1>2, AscendingConcat
  <1> QED
    BY <1>2, <1>3, ConcatProperties

\* Further data: before the base, or behind it.
LEMMA EarlierData ==
    ASSUME isn \in SeqNumber, NEW r, NEW b, NEW k, Rebuilt(r, b, k), r.data_buffer # << >>,
           NEW p \in 1 .. b - 1, NEW q \in p .. StreamLen, NEW fin \in BOOLEAN
    PROVE  \E m : LET d == AddData(r, SeqAdd(isn, p), Bytes(p, q), fin)
                  IN  Rebuilt(d, p, m) /\ d.data_buffer # << >>
  <1> DEFINE data == Bytes(p, q)
             d == AddData(r, SeqAdd(isn, p), data, fin)
  <1>1. /\ Based(r, b, k) /\ Beyond(r, k) /\ r.data_buffer \in Seq(Stream)
        /\ Logged(r.segments) = r.data_buffer /\ Ascending(r.data_buffer, b, k)
    BY DEF Rebuilt, Based, Direction
  <1>2. /\ p \in Nat /\ p >= 1 /\ b \in Nat /\ p < b /\ b \in Position /\ p \in Position
        /\ k \in Nat /\ b - 1 <= k /\ k <= StreamLen
    BY <1>1, Lengths DEF Based, Position
  <1>3. d = Prepend(r, SeqAdd(isn, p), data, fin)
    <2>1. r.base_seq = SeqAdd(isn, b) /\ SeqAdd(isn, b) \in SeqNumber
      BY <1>1, <1>2, Distance DEF Based
    <2>2. r.base_seq # None
      BY <2>1, SeqSpaceAssumption DEF SeqNumber, None
    <2>3. SeqDiff(SeqAdd(isn, p), r.base_seq) = p - b /\ SeqDiff(r.base_seq, SeqAdd(isn, p)) = b - p
      BY <1>2, <2>1, Distance
    <2>4. SeqDiff(SeqAdd(isn, p), r.base_seq) < 0 /\ SeqDiff(r.base_seq, SeqAdd(isn, p)) > 0
      BY <1>2, <2>3
    <2> QED
      BY <2>2, <2>4, Zenon DEF AddData
  <1> HIDE DEF d
  <1>. PICK e, m : Prepended(r, b, k, p, d, e, m)
    BY <1>1, <1>3, PrependResult
  <1>4. /\ e \in p .. b - 1 /\ m \in k .. StreamLen
        /\ Based(d, p, m) /\ Beyond(d, m)
        /\ d.data_buffer = (Bytes(p, e) \o r.data_buffer) \o Bytes(k + 1, m)
        /\ Logged(d.segments) = (Bytes(p, e) \o Logged(r.segments)) \o Bytes(k + 1, m)
    BY DEF Prepended
  <1>5. Logged(d.segments) = d.data_buffer
    BY <1>1, <1>4
  <1> DEFINE u == Bytes(p, e) \o r.data_buffer
  <1>6. e \in p - 1 .. StreamLen /\ e \in Int /\ e < b /\ p <= e /\ e <= k /\ k \in p - 1 .. StreamLen
        /\ p \in Int /\ b \in Int /\ k \in Int /\ p <= b
    BY <1>2, <1>4, Lengths
  <1>7. Bytes(p, e) \in Seq(Stream) /\ Len(Bytes(p, e)) = e - p + 1 /\ Ascending(Bytes(p, e), p, e)
    BY <1>2, <1>6, BytesFacts, AscendingBytes
  <1>8. u \in Seq(Stream) /\ Len(u) = (e - p + 1) + Len(r.data_buffer)
    <2>1. u \in Seq(Stream) /\ Len(u) = Len(Bytes(p, e)) + Len(r.data_buffer)
      BY <1>1, <1>7, ConcatProperties
    <2> HIDE DEF u
    <2> QED
      BY <1>7, <2>1
  <1>9. Ascending(u, p, k)
    BY <1>1, <1>6, <1>7, AscendingConcat
  <1> HIDE DEF u
  <1>10. Ascending(u \o Bytes(k + 1, m), p, m)
    BY <1>2, <1>4, <1>6, <1>8, <1>9, GrownAscending
  <1>11. u \o Bytes(k + 1, m) # << >>
    <2>1. /\ k + 1 \in Position /\ m \in (k + 1) - 1 .. StreamLen
      BY <1>2, <1>4, Lengths DEF Position
    <2>2. Bytes(k + 1, m) \in Seq(Stream)
      BY <2>1, BytesFacts
    <2>3. Len(u \o Bytes(k + 1, m)) = Len(u) + Len(Bytes(k + 1, m))
      BY <1>8, <2>2, ConcatProperties
    <2>4. Len(u) \in Nat /\ Len(u) > 0 /\ Len(Bytes(k + 1, m)) \in Nat
      <3>1. Len(u) \in Nat /\ Len(r.data_buffer) \in Nat /\ Len(Bytes(k + 1, m)) \in Nat
        BY <1>1, <1>8, <2>2
      <3>2. e - p + 1 \in Int /\ e - p + 1 > 0
        BY <1>6
      <3> DEFINE front == e - p + 1
      <3> HIDE DEF front
      <3>3. Len(u) = front + Len(r.data_buffer) /\ front \in Int /\ front > 0
        BY <1>8, <3>2 DEF front
      <3>4. Len(u) > 0
        BY <3>1, <3>3
      <3> QED
        BY <3>1, <3>4
    <2>5. Len(u \o Bytes(k + 1, m)) # 0
      BY <2>3, <2>4
    <2> QED
      BY <2>5
  <1>12. d.data_buffer = u \o Bytes(k + 1, m)
    BY <1>4 DEF u
  <1>13. Rebuilt(d, p, m) /\ d.data_buffer # << >>
    BY <1>4, <1>5, <1>10, <1>11, <1>12 DEF Rebuilt
  <1> QED
    BY <1>13 DEF d

LEMMA LaterData ==
    ASSUME isn \in SeqNumber, NEW r, NEW b, NEW k, Rebuilt(r, b, k),
           NEW p \in b .. StreamLen, NEW q \in p .. StreamLen, NEW fin \in BOOLEAN
    PROVE  \E m : LET d == AddData(r, SeqAdd(isn, p), Bytes(p, q), fin)
                  IN  Rebuilt(d, b, m) /\ Added(r, b, k, p, q, fin, d, m)
  <1> DEFINE data == Bytes(p, q)
             d == AddData(r, SeqAdd(isn, p), data, fin)
  <1>1. /\ Based(r, b, k) /\ Beyond(r, k) /\ r.data_buffer \in Seq(Stream)
        /\ Logged(r.segments) = r.data_buffer /\ Ascending(r.data_buffer, b, k)
    BY DEF Rebuilt, Based, Direction
  <1>2. /\ p \in Nat /\ p >= 1 /\ b \in Nat /\ b <= p /\ b \in Position /\ p \in Position /\ p \in Stream
        /\ k \in b - 1 .. StreamLen
    BY <1>1, Lengths DEF Based, Position, Stream
  <1>3. d = AddAfterBase(r, SeqAdd(isn, p), data, fin)
    <2>1. r.base_seq = SeqAdd(isn, b) /\ SeqAdd(isn, b) \in SeqNumber
      BY <1>1, <1>2, Distance DEF Based
    <2>2. r.base_seq # None
      BY <2>1, SeqSpaceAssumption DEF SeqNumber, None
    <2>3. SeqDiff(SeqAdd(isn, p), r.base_seq) = p - b
      BY <1>2, <2>1, Distance
    <2>4. ~(SeqDiff(SeqAdd(isn, p), r.base_seq) < 0)
      BY <1>2, <2>3
    <2> QED
      BY <2>2, <2>4, Zenon DEF AddData
  <1> HIDE DEF d
  <1>4. PICK m : Added(r, b, k, p, q, fin, d, m)
    BY <1>1, <1>2, <1>3, AddResult
  <1>5. /\ Based(d, b, m) /\ Beyond(d, m) /\ m \in k .. StreamLen
        /\ d.data_buffer = r.data_buffer \o Bytes(k + 1, m) /\ Logged(d.segments) = d.data_buffer
    BY <1>1, <1>4 DEF Added
  <1>6. Ascending(d.data_buffer, b, m)
    BY <1>1, <1>2, <1>5, GrownAscending
  <1>7. Rebuilt(d, b, m)
    BY <1>5, <1>6 DEF Rebuilt
  <1> QED
    BY <1>4, <1>7 DEF d

-----------------------------------------------------------------------------
\* Before the first SYN or data there is nothing, and with the handshake in
\* the capture nothing else has been captured either.
Unbased ==
    /\ dir.base_seq = None /\ dir.data_buffer = << >> /\ dir.segments = << >> /\ dir.out_of_order = << >>
    /\ with_syn => captured = {} /\ ended = FALSE /\ dir.is_closed = FALSE

\* After it the base is a position of the stream: the first one, if the
\* capture has the handshake.
InStream(b, k) ==
    /\ Rebuilt(dir, b, k)
    /\ with_syn => b = 1 /\ Complete(dir, k, captured, ended)
    /\ ~with_syn => dir.data_buffer # << >>

\* The inductive invariant: what the reassembler has taken up is the stream
\* between two positions, as far as it was captured, and what it holds lies
\* beyond the second one.  The properties say less, and none of them is
\* preserved without the log, the held pieces and next_expected_seq.
IInv ==
    /\ with_syn \in BOOLEAN /\ isn \in SeqNumber /\ dir \in Direction
    /\ captured \subseteq Stream /\ ended \in BOOLEAN
    /\ Unbased \/ \E b, k : InStream(b, k)

LEMMA SameSender ==
    ASSUME isn' = isn
    PROVE  Pieces' = Pieces /\ Direction' = Direction
  <1>1. ASSUME NEW x PROVE x \in Pieces' <=> x \in Pieces
    <2>1. x \in Pieces' <=> \E p \in Stream : \E q \in p .. StreamLen : x = Segment(SeqAdd(isn', p), Bytes(p, q))
      BY DEF Pieces, Piece
    <2>2. x \in Pieces <=> \E p \in Stream : \E q \in p .. StreamLen : x = Segment(SeqAdd(isn, p), Bytes(p, q))
      BY DEF Pieces, Piece
    <2> QED
      BY <2>1, <2>2
  <1>2. Pieces' = Pieces
    BY <1>1
  <1> QED
    BY <1>2 DEF Direction

\* A step after which there is a base.
LEMMA InStreamNext ==
    ASSUME isn' = isn, with_syn' = with_syn, NEW b, NEW k, Rebuilt(dir', b, k),
           with_syn => b = 1 /\ Complete(dir', k, captured', ended'),
           ~with_syn => dir'.data_buffer # << >>
    PROVE  InStream(b, k)' /\ dir' \in Direction'
  <1>1. Direction' = Direction
    BY SameSender
  <1>2. Rebuilt(dir, b, k)'
    BY <1>1 DEF Rebuilt, Based, Beyond, From, Logged, Ascending
  <1>3. with_syn => Complete(dir, k, captured, ended)'
    BY DEF Complete, HeldIn, From, To
  <1>4. dir' \in Direction'
    BY <1>1 DEF Rebuilt, Based
  <1> QED
    BY <1>2, <1>3, <1>4 DEF InStream

-----------------------------------------------------------------------------
LEMMA InitInv == Init => IInv
  <1> SUFFICES ASSUME Init PROVE IInv
    OBVIOUS
  <1>1. dir \in Direction
    BY DEF Init, NewDirection, Direction
  <1>2. Unbased
    BY DEF Init, NewDirection, Unbased
  <1> QED
    BY <1>1, <1>2, CaptureAssumption DEF Init, IInv

\* add_segment without SYN, as its cases.
LEMMA SegmentCases ==
    ASSUME NEW r \in Direction, NEW seg, "SYN" \notin seg.flags
    PROVE  /\ "RST" \notin seg.flags /\ seg.data # << >>
                => AddSegment(r, seg) = AddData(r, seg.seq, seg.data, "FIN" \in seg.flags)
           /\ seg.data = << >>
                => AddSegment(r, seg) = [r EXCEPT !.is_closed = @ \/ "RST" \in seg.flags \/ "FIN" \in seg.flags]
  <1> DEFINE q == [r EXCEPT !.is_closed = @ \/ "RST" \in seg.flags]
             d == AddSegment(r, seg)
  <1>1. d = IF "SYN" \in seg.flags THEN AddSyn(q, seg.seq, seg.data)
            ELSE IF seg.data = << >> THEN [q EXCEPT !.is_closed = @ \/ "FIN" \in seg.flags]
            ELSE AddData(q, seg.seq, seg.data, "FIN" \in seg.flags)
    BY Zenon DEF AddSegment
  <1>2. "RST" \notin seg.flags => q = r
    <2>1. r.is_closed \in BOOLEAN
      BY DEF Direction
    <2>2. "RST" \notin seg.flags => q = [r EXCEPT !.is_closed = r.is_closed]
      BY <2>1
    <2> QED
      BY <2>2 DEF Direction
  <1>3. [q EXCEPT !.is_closed = @ \/ "FIN" \in seg.flags]
        = [r EXCEPT !.is_closed = @ \/ "RST" \in seg.flags \/ "FIN" \in seg.flags]
    BY DEF Direction
  <1> HIDE DEF q, d
  <1> QED
    BY <1>1, <1>2, <1>3 DEF d

\* The SYN, the first time or again while nothing else was captured.
LEMMA SynStep ==
    ASSUME IInv, with_syn, captured = {}, ~ended, ReceiveSyn
    PROVE  IInv'
  <1> DEFINE seg == [seq |-> SeqAdd(isn, 0), data |-> Bytes(0, -1), flags |-> {"SYN"}]
             first == SeqAdd(isn, 1)
  <1>1. dir \in Direction /\ isn \in SeqNumber /\ dir.is_closed \in BOOLEAN
    BY DEF IInv, Direction
  <1>2. /\ dir' = AddSegment(dir, seg) /\ captured' = captured \union 0 .. -1
        /\ ended' = (ended \/ {"SYN"} \intersect {"FIN", "RST"} # {})
        /\ UNCHANGED <<with_syn, isn>>
    BY DEF ReceiveSyn, Receive
  <1>3. captured' = {} /\ ended' = FALSE
    BY <1>2 DEF IInv
  <1>4. Len(Bytes(0, -1)) = 0
    <2>1. Bytes(0, -1) \in [1 .. 0 -> {}]
      BY DEF Bytes
    <2> QED
      BY <2>1
  <1>5. dir' = [dir EXCEPT !.base_seq = first, !.next_expected_seq = first]
    <2> DEFINE q == [dir EXCEPT !.is_closed = @ \/ "RST" \in seg.flags]
    <2>1. seg.seq = SeqAdd(isn, 0) /\ seg.data = Bytes(0, -1) /\ seg.flags = {"SYN"}
      OBVIOUS
    <2> HIDE DEF seg
    <2>2. q = dir
      BY <1>1, <2>1 DEF Direction
    <2>3. dir' = AddSyn(dir, SeqAdd(isn, 0), Bytes(0, -1))
      <3>1. dir' = IF "SYN" \in seg.flags THEN AddSyn(q, seg.seq, seg.data)
                   ELSE IF seg.data = << >> THEN [q EXCEPT !.is_closed = @ \/ "FIN" \in seg.flags]
                   ELSE AddData(q, seg.seq, seg.data, "FIN" \in seg.flags)
        BY <1>2, Zenon DEF AddSegment
      <3> HIDE DEF q
      <3> QED
        BY <2>1, <2>2, <3>1
    <2>4. SeqAdd(SeqAdd(isn, 0), 1) = first
      BY <1>1, SeqAddTwice, SeqSpaceAssumption
    <2>5. AddSyn(dir, SeqAdd(isn, 0), Bytes(0, -1))
          = [dir EXCEPT !.base_seq = SeqAdd(SeqAdd(isn, 0), 1), !.next_expected_seq = SeqAdd(SeqAdd(isn, 0), 1)]
      BY <1>4, SynWithoutData, Zenon DEF Reset
    <2> HIDE DEF first
    <2> QED
      BY <2>3, <2>4, <2>5, Zenon
  <1>6. first \in SeqNumber
    BY <1>1, Distance, Lengths DEF Position
  <1> HIDE DEF seg, first
  <1>7. /\ dir' \in Direction /\ dir'.base_seq = first /\ dir'.next_expected_seq = first
        /\ dir'.data_buffer = dir.data_buffer /\ dir'.segments = dir.segments
        /\ dir'.out_of_order = dir.out_of_order /\ dir'.is_closed = dir.is_closed
    BY <1>1, <1>5, <1>6 DEF Direction
  <1>8. /\ dir.data_buffer = << >> /\ Logged(dir.segments) = << >>
        /\ HeldIn(dir.out_of_order) = {} /\ Beyond(dir, 0) /\ dir.is_closed = FALSE
    <2>1. CASE Unbased
      BY <2>1, LogEmpty DEF Unbased, HeldIn, Beyond
    <2>2. CASE \E b, k : InStream(b, k)
      <3>1. PICK b, k : InStream(b, k)
        BY <2>2
      <3>2. /\ Rebuilt(dir, b, k) /\ dir.data_buffer = Bytes(1, k)
            /\ {} = 1 .. k \union HeldIn(dir.out_of_order) /\ b = 1 /\ dir.is_closed = FALSE
        BY <1>1, <3>1 DEF InStream, Complete, IInv
      <3>3. k \in 0 .. StreamLen /\ 1 \notin 1 .. k
        BY <3>2, Lengths DEF Rebuilt, Based
      <3>4. k = 0
        BY <3>3, Lengths
      <3>5. Bytes(1, 0) \in [1 .. 0 -> {}]
        BY DEF Bytes
      <3>6. Bytes(1, 0) = << >>
        BY <3>5
      <3> QED
        BY <3>2, <3>4, <3>6 DEF Rebuilt
    <2> QED
      BY <2>1, <2>2 DEF IInv
  <1>9. Based(dir', 1, 0)
    BY <1>7, Lengths DEF Based, Position, first
  <1>10. Rebuilt(dir', 1, 0)
    BY <1>7, <1>8, <1>9 DEF Rebuilt, Beyond, Ascending
  <1>11. Complete(dir', 0, captured', ended')
    <2>1. Bytes(1, 0) \in [1 .. 0 -> {}]
      BY DEF Bytes
    <2>2. Bytes(1, 0) = << >>
      BY <2>1
    <2> QED
      BY <1>3, <1>7, <1>8, <2>2 DEF Complete
  <1>12. InStream(1, 0)' /\ dir' \in Direction'
    BY <1>2, <1>10, <1>11, InStreamNext
  <1> QED
    BY <1>1, <1>2, <1>3, <1>12 DEF IInv

\* What is grown is complete, and not empty if it was not.
LEMMA GrownComplete ==
    ASSUME isn \in SeqNumber, NEW r, NEW k, NEW p, NEW q, NEW d, NEW m, NEW fin \in BOOLEAN,
           Based(r, 1, k), Added(r, 1, k, p, q, fin, d, m),
           NEW positions, NEW end \in BOOLEAN, Complete(r, k, positions, end)
    PROVE  Complete(d, m, positions \union p .. q, end \/ fin)
  <1>1. 1 \in Position /\ k \in 1 - 1 .. StreamLen /\ m \in k .. StreamLen
    BY Lengths DEF Based, Added, Position
  <1>2. Bytes(1, k) \o Bytes(k + 1, m) = Bytes(1, m)
    BY <1>1, BytesConcat
  <1>3. d.data_buffer = Bytes(1, m)
    BY <1>2 DEF Added, Complete
  <1>4. positions \union p .. q = 1 .. m \union HeldIn(d.out_of_order)
    BY DEF Added, Took, Complete
  <1>5. r.is_closed \in BOOLEAN /\ d.is_closed = (r.is_closed \/ fin)
    BY DEF Based, Direction, Added
  <1>6. d.is_closed <=> (end \/ fin)
    BY <1>5 DEF Complete
  <1> QED
    BY <1>3, <1>4, <1>6 DEF Complete

LEMMA GrownNotEmpty ==
    ASSUME NEW r, NEW b, NEW k, NEW p, NEW q, NEW d, NEW m, NEW fin,
           Based(r, b, k), Added(r, b, k, p, q, fin, d, m), r.data_buffer # << >>
    PROVE  d.data_buffer # << >>
  <1> DEFINE u == r.data_buffer
             v == Bytes(k + 1, m)
  <1>1. k + 1 \in Position /\ m \in (k + 1) - 1 .. StreamLen
    BY Lengths DEF Based, Added, Position
  <1>2. u \in Seq(Stream) /\ v \in Seq(Stream)
    BY <1>1, BytesFacts DEF Based, Direction
  <1>3. d.data_buffer = u \o v
    BY DEF Added
  <1> HIDE DEF v
  <1>4. Len(u \o v) = Len(u) + Len(v) /\ Len(v) \in Nat /\ Len(u) \in Nat /\ Len(u) # 0
    BY <1>2, ConcatProperties
  <1>5. Len(u \o v) # 0
    BY <1>4
  <1> QED
    BY <1>3, <1>5

\* A segment with data.
LEMMA DataStep ==
    ASSUME IInv, with_syn => dir.base_seq # None, NEW p \in Stream, NEW q \in p .. StreamLen,
           NEW flags \in {{}, {"FIN"}}, Receive(p, q, flags)
    PROVE  IInv'
  <1> DEFINE fin == "FIN" \in flags
             seq == SeqAdd(isn, p)
             data == Bytes(p, q)
  <1>1. dir \in Direction /\ isn \in SeqNumber /\ ended \in BOOLEAN /\ captured \subseteq Stream
        /\ with_syn \in BOOLEAN
    BY DEF IInv
  <1>2. /\ dir' = AddSegment(dir, [seq |-> seq, data |-> data, flags |-> flags])
        /\ captured' = captured \union p .. q
        /\ ended' = (ended \/ flags \intersect {"FIN", "RST"} # {})
        /\ with_syn' = with_syn /\ isn' = isn
    BY DEF Receive
  <1>3. fin \in BOOLEAN /\ ended' = (ended \/ fin) /\ captured' \subseteq Stream /\ ended' \in BOOLEAN
    <2>1. ended' = (ended \/ fin)
      BY <1>1, <1>2
    <2>2. p .. q \subseteq Stream
      BY Lengths DEF Stream
    <2> QED
      BY <1>1, <1>2, <2>1, <2>2
  <1>4. data # << >>
    <2>1. Len(data) = q - p + 1 /\ q - p + 1 # 0
      BY BytesFacts, Lengths DEF Stream, Position
    <2> HIDE DEF data
    <2> QED
      BY <2>1
  <1>5. dir' = AddData(dir, seq, data, fin)
    <2> DEFINE seg == [seq |-> seq, data |-> data, flags |-> flags]
    <2>1. seg.seq = seq /\ seg.data = data /\ seg.flags = flags
      OBVIOUS
    <2>2. "SYN" \notin seg.flags /\ "RST" \notin seg.flags /\ dir' = AddSegment(dir, seg)
      BY <1>2, <2>1
    <2>3. seg.data # << >>
      BY <1>4, <2>1
    <2> HIDE DEF data, seq, seg
    <2>4. dir' = AddData(dir, seg.seq, seg.data, "FIN" \in seg.flags)
      BY <1>1, <2>2, <2>3, SegmentCases, Zenon
    <2> QED
      BY <2>1, <2>4, Zenon
  <1>6. SUFFICES \E b, k : InStream(b, k)' /\ dir' \in Direction'
    BY <1>1, <1>2, <1>3 DEF IInv
  <1> HIDE DEF fin
  <1>7. CASE Unbased
    <2>1. ~with_syn
      BY <1>7 DEF Unbased
    <2>2. Rebuilt(dir', p, q) /\ dir'.data_buffer # << >>
      BY <1>1, <1>3, <1>5, <1>7, FirstData DEF Unbased
    <2>3. InStream(p, q)' /\ dir' \in Direction'
      BY <1>2, <2>1, <2>2, InStreamNext
    <2> QED
      BY <2>3
  <1>8. CASE \E b, k : InStream(b, k)
    <2>1. PICK b, k : InStream(b, k)
      BY <1>8
    <2>2. Rebuilt(dir, b, k) /\ Based(dir, b, k) /\ b \in Nat /\ p \in Nat /\ p >= 1 /\ b >= 1 /\ p <= StreamLen
      BY <2>1, Lengths DEF InStream, Rebuilt, Based, Position, Stream
    <2>3. CASE p < b
      <3>1. ~with_syn /\ dir.data_buffer # << >>
        BY <2>1, <2>2, <2>3 DEF InStream
      <3>2. p \in 1 .. b - 1
        BY <2>2, <2>3
      <3>3. PICK m : Rebuilt(dir', p, m) /\ dir'.data_buffer # << >>
        BY <1>1, <1>3, <1>5, <2>2, <3>1, <3>2, EarlierData
      <3>4. InStream(p, m)' /\ dir' \in Direction'
        BY <1>2, <3>1, <3>3, InStreamNext
      <3> QED
        BY <3>4
    <2>4. CASE ~(p < b)
      <3>1. p \in b .. StreamLen
        BY <2>2, <2>4
      <3>2. PICK m : Rebuilt(dir', b, m) /\ Added(dir, b, k, p, q, fin, dir', m)
        BY <1>1, <1>3, <1>5, <2>2, <3>1, LaterData
      <3>3. with_syn => b = 1 /\ Complete(dir', m, captured', ended')
        BY <1>1, <1>2, <1>3, <2>1, <2>2, <3>2, GrownComplete DEF InStream
      <3>4. ~with_syn => dir'.data_buffer # << >>
        BY <2>1, <2>2, <3>2, GrownNotEmpty DEF InStream
      <3>5. InStream(b, m)' /\ dir' \in Direction'
        BY <1>2, <3>2, <3>3, <3>4, InStreamNext
      <3> QED
        BY <3>5
    <2> QED
      BY <2>3, <2>4
  <1> QED
    BY <1>7, <1>8 DEF IInv

\* A FIN or RST without data.
LEMMA EndStep ==
    ASSUME IInv, with_syn => dir.base_seq # None, NEW p \in Position,
           NEW flags \in {{"FIN"}, {"RST"}}, Receive(p, p - 1, flags)
    PROVE  IInv'
  <1> DEFINE seq == SeqAdd(isn, p)
             data == Bytes(p, p - 1)
             d == [dir EXCEPT !.is_closed = TRUE]
  <1>1. dir \in Direction /\ isn \in SeqNumber /\ ended \in BOOLEAN /\ captured \subseteq Stream
        /\ with_syn \in BOOLEAN /\ p \in Nat /\ p - 1 \in p - 1 .. StreamLen /\ p .. p - 1 = {}
    BY Lengths DEF IInv, Position
  <1>2. /\ dir' = AddSegment(dir, [seq |-> seq, data |-> data, flags |-> flags])
        /\ captured' = captured \union p .. p - 1
        /\ ended' = (ended \/ flags \intersect {"FIN", "RST"} # {})
        /\ with_syn' = with_syn /\ isn' = isn
    BY DEF Receive
  <1>3. captured' = captured /\ ended' = TRUE
    BY <1>1, <1>2
  <1>4. data = << >>
    <2>1. (p - 1) - p + 1 = 0
      BY <1>1
    <2>2. data \in Seq(Stream) /\ Len(data) = 0
      BY <1>1, <2>1, BytesFacts
    <2> HIDE DEF data
    <2> QED
      BY <2>2
  <1>5. dir' = d
    <2> DEFINE seg == [seq |-> seq, data |-> data, flags |-> flags]
    <2>1. /\ "SYN" \notin seg.flags /\ ("FIN" \in seg.flags \/ "RST" \in seg.flags)
          /\ dir' = AddSegment(dir, seg) /\ seg.data = data
      BY <1>2
    <2> HIDE DEF data, seq, seg
    <2>2. dir' = [dir EXCEPT !.is_closed = @ \/ "RST" \in seg.flags \/ "FIN" \in seg.flags]
      BY <1>1, <1>4, <2>1, SegmentCases, Zenon
    <2>3. (dir.is_closed \/ "RST" \in seg.flags \/ "FIN" \in seg.flags) = TRUE
      BY <2>1
    <2> QED
      BY <2>2, <2>3
  <1>6. /\ d \in Direction /\ d.is_closed = TRUE
        /\ d.base_seq = dir.base_seq /\ d.next_expected_seq = dir.next_expected_seq
        /\ d.data_buffer = dir.data_buffer /\ d.segments = dir.segments
        /\ d.out_of_order = dir.out_of_order
    BY <1>1 DEF Direction
  <1> HIDE DEF d
  <1>7. CASE Unbased
    <2>1. ~with_syn
      BY <1>7 DEF Unbased
    <2>2. Unbased'
      BY <1>2, <1>5, <1>6, <1>7, <2>1 DEF Unbased
    <2>3. dir' \in Direction'
      BY <1>2, <1>5, <1>6, SameSender
    <2> QED
      BY <1>1, <1>2, <1>3, <2>2, <2>3 DEF IInv
  <1>8. CASE \E b, k : InStream(b, k)
    <2>1. PICK b, k : InStream(b, k)
      BY <1>8
    <2>2. Rebuilt(dir', b, k)
      BY <1>5, <1>6, <2>1 DEF InStream, Rebuilt, Based, Beyond
    <2>3. with_syn => b = 1 /\ Complete(dir', k, captured', ended')
      BY <1>3, <1>5, <1>6, <2>1 DEF InStream, Complete
    <2>4. ~with_syn => dir'.data_buffer # << >>
      BY <1>5, <1>6, <2>1 DEF InStream
    <2>5. InStream(b, k)' /\ dir' \in Direction'
      BY <1>2, <2>2, <2>3, <2>4, InStreamNext
    <2> QED
      BY <1>1, <1>2, <1>3, <2>5 DEF IInv
  <1> QED
    BY <1>7, <1>8 DEF IInv

-----------------------------------------------------------------------------
LEMMA StepInv ==
    ASSUME IInv, [Next]_vars
    PROVE  IInv'
  <1>1. ASSUME with_syn => dir.base_seq # None, ReceiveOther PROVE IInv'
    <2>1. CASE ReceiveData
      <3>1. PICK p \in Stream : \E q \in p .. StreamLen : Receive(p, q, {})
        BY <2>1 DEF ReceiveData
      <3>2. PICK q \in p .. StreamLen : Receive(p, q, {})
        BY <3>1
      <3> QED
        BY <1>1, <3>2, DataStep
    <2>2. CASE ReceiveFin
      <3>1. PICK p \in 1 .. StreamLen + 1 : Receive(p, StreamLen, {"FIN"})
        BY <2>2 DEF ReceiveFin
      <3>2. CASE p = StreamLen + 1
        <4>1. p \in Position /\ p - 1 = StreamLen
          BY <3>2, Lengths DEF Position
        <4> QED
          BY <1>1, <3>1, <4>1, EndStep
      <3>3. CASE p # StreamLen + 1
        <4>1. p \in Stream /\ StreamLen \in p .. StreamLen
          BY <3>3, Lengths DEF Stream
        <4> QED
          BY <1>1, <3>1, <4>1, DataStep
      <3> QED
        BY <3>2, <3>3
    <2>3. CASE ReceiveRst
      <3>1. PICK p \in Stream : Receive(p, p - 1, {"RST"})
        BY <2>3 DEF ReceiveRst
      <3>2. p \in Position
        BY Lengths DEF Stream, Position
      <3> QED
        BY <1>1, <3>1, <3>2, EndStep
    <2> QED
      BY <1>1, <2>1, <2>2, <2>3 DEF ReceiveOther
  <1>2. CASE UNCHANGED vars
    <2>1. isn' = isn /\ with_syn' = with_syn /\ dir' = dir /\ captured' = captured /\ ended' = ended
      BY <1>2 DEF vars
    <2>2. CASE Unbased
      <3>1. Unbased'
        BY <2>1, <2>2 DEF Unbased
      <3> QED
        BY <2>1, <3>1, SameSender DEF IInv
    <2>3. CASE \E b, k : InStream(b, k)
      <3>1. PICK b, k : InStream(b, k)
        BY <2>3
      <3>2. InStream(b, k)' /\ dir' \in Direction'
        BY <2>1, <3>1, InStreamNext DEF InStream
      <3> QED
        BY <2>1, <3>2 DEF IInv
    <2> QED
      BY <2>2, <2>3 DEF IInv
  <1>3. CASE with_syn /\ captured = {} /\ ~ended /\ ReceiveSyn
    BY <1>3, SynStep
  <1> QED
    BY <1>1, <1>2, <1>3 DEF Next

\* The invariant holds in every state of every capture.
THEOREM Invariant == Spec => []IInv
  BY InitInv, StepInv, PTL DEF Spec

-----------------------------------------------------------------------------
LEMMA HeldIsHeldIn ==
    ASSUME isn \in SeqNumber, dir \in Direction
    PROVE  Held = HeldIn(dir.out_of_order)
  <1>1. \A i \in DOMAIN dir.out_of_order : dir.out_of_order[i] \in Pieces
    BY DEF Direction
  <1>2. \A i \in DOMAIN dir.out_of_order :
          ToSet(dir.out_of_order[i].data) = From(dir.out_of_order[i]) .. To(dir.out_of_order[i])
    BY <1>1, PieceFacts
  <1> QED
    BY <1>2 DEF Held, HeldIn

LEMMA InvNothingForgotten ==
    ASSUME IInv
    PROVE  NothingForgotten
  <1> SUFFICES ASSUME with_syn PROVE captured = ToSet(dir.data_buffer) \union Held
    BY DEF NothingForgotten
  <1>1. Held = HeldIn(dir.out_of_order)
    BY HeldIsHeldIn DEF IInv
  <1>2. CASE Unbased
    BY <1>1, <1>2 DEF Unbased, HeldIn, ToSet
  <1>3. CASE \E b, k : InStream(b, k)
    <2>1. PICK b, k : InStream(b, k)
      BY <1>3
    <2>2. k \in 0 .. StreamLen /\ dir.data_buffer = Bytes(1, k)
          /\ captured = 1 .. k \union HeldIn(dir.out_of_order)
      BY <2>1 DEF InStream, Complete, Rebuilt, Based
    <2>3. ToSet(Bytes(1, k)) = 1 .. k
      BY <2>2, BytesFacts, Lengths DEF Position
    <2> QED
      BY <1>1, <2>2, <2>3
  <1> QED
    BY <1>2, <1>3 DEF IInv

LEMMA InvHeldBeyondGap ==
    ASSUME IInv
    PROVE  HeldBeyondGap
  <1> SUFFICES ASSUME with_syn, NEW i \in DOMAIN dir.out_of_order
               PROVE  dir.out_of_order[i].data[1] > Len(dir.data_buffer) + 1
    BY DEF HeldBeyondGap
  <1>1. CASE Unbased
    BY <1>1 DEF Unbased
  <1>2. CASE \E b, k : InStream(b, k)
    <2>1. PICK b, k : InStream(b, k)
      BY <1>2
    <2>2. k \in 0 .. StreamLen /\ dir.data_buffer = Bytes(1, k) /\ Beyond(dir, k)
      BY <2>1 DEF InStream, Complete, Rebuilt, Based
    <2>3. Len(Bytes(1, k)) = k
      <3>1. 1 \in Position /\ k \in 1 - 1 .. StreamLen /\ k - 1 + 1 = k
        BY <2>2, Lengths DEF Position
      <3> QED
        BY <3>1, BytesFacts
    <2> QED
      BY <2>2, <2>3 DEF Beyond, From
  <1> QED
    BY <1>1, <1>2 DEF IInv

LEMMA InvSegmentLogMatches ==
    ASSUME IInv
    PROVE  SegmentLogMatches
  <1>1. dir \in Direction /\ isn \in SeqNumber
    BY DEF IInv
  <1>2. Logged(dir.segments) = dir.data_buffer
    BY LogEmpty DEF IInv, Unbased, InStream, Rebuilt
  <1>3. FlattenSeq([i \in DOMAIN dir.segments |-> dir.segments[i].data]) = dir.data_buffer
    BY <1>2, Zenon DEF Logged
  <1>4. ASSUME NEW i \in DOMAIN dir.segments
        PROVE  dir.segments[i].seq = SeqAdd(isn, dir.segments[i].data[1])
    <2>1. dir.segments[i] \in Pieces
      BY <1>1 DEF Direction
    <2> QED
      BY <1>1, <2>1, PieceFacts DEF From
  <1> QED
    BY <1>3, <1>4, Zenon DEF SegmentLogMatches

LEMMA InvClosedWhenEnded ==
    ASSUME IInv
    PROVE  ClosedWhenEnded
  BY DEF IInv, Unbased, InStream, Complete, ClosedWhenEnded

LEMMA InvOrderKept ==
    ASSUME IInv
    PROVE  OrderKept
  <1> SUFFICES ASSUME ~with_syn
               PROVE  \A i, j \in DOMAIN GetData(dir) : i < j => GetData(dir)[i] < GetData(dir)[j]
    BY DEF OrderKept
  <1>1. CASE Unbased
    <2>1. GetData(dir) = Logged(<< >>)
      BY <1>1, Zenon DEF Unbased, GetData, Logged
    <2>2. GetData(dir) = << >>
      BY <2>1, LogEmpty
    <2> QED
      BY <2>2
  <1>2. CASE \E b, k : InStream(b, k)
    <2>1. PICK b, k : InStream(b, k)
      BY <1>2
    <2>2. GetData(dir) = dir.data_buffer
      BY <2>1, Zenon DEF InStream, GetData
    <2>3. Ascending(dir.data_buffer, b, k)
      BY <2>1 DEF InStream, Rebuilt
    <2> QED
      BY <2>2, <2>3 DEF Ascending
  <1> QED
    BY <1>1, <1>2 DEF IInv

\* Every byte captured after the handshake is delivered or held, whatever the
\* order, the overlaps and the repetitions of the segments: none is forgotten.
THEOREM NothingForgottenHolds == Spec => []NothingForgotten
  BY Invariant, InvNothingForgotten, PTL

\* Nothing is held that could be delivered, so a list of held segments always
\* means a byte that is missing: as many passes as there are held segments are
\* enough, in whatever order they were captured.
THEOREM HeldBeyondGapHolds == Spec => []HeldBeyondGap
  BY Invariant, InvHeldBeyondGap, PTL

\* The segment log is the buffer, cut where the segments were cut, under the
\* sequence numbers the sender gave to the bytes.
THEOREM SegmentLogMatchesHolds == Spec => []SegmentLogMatches
  BY Invariant, InvSegmentLogMatches, PTL

\* A direction is closed exactly when its FIN or RST has been captured.
THEOREM ClosedWhenEndedHolds == Spec => []ClosedWhenEnded
  BY Invariant, InvClosedWhenEnded, PTL

\* Without the handshake the bytes are delivered in stream order, none twice.
THEOREM OrderKeptHolds == Spec => []OrderKept
  BY Invariant, InvOrderKept, PTL

-----------------------------------------------------------------------------
\* The reassembler implements the reader that delivers the bytes before the
\* first one that is missing.
LEMMA FrontIs ==
    ASSUME NEW S, NEW k \in 0 .. StreamLen, 1 .. k \subseteq S, k + 1 \notin S
    PROVE  Reader!Front(S) = k
  <1> DEFINE P(n) == 1 .. n \subseteq S /\ n + 1 \notin S
  <1>1. ASSUME NEW n \in 0 .. StreamLen, P(n) PROVE n = k
    <2>1. CASE n < k
      <3>1. n + 1 \in 1 .. k
        BY <2>1
      <3> QED
        BY <1>1, <3>1
    <2>2. CASE k < n
      <3>1. k + 1 \in 1 .. n
        BY <2>2
      <3> QED
        BY <1>1, <3>1
    <2> QED
      BY <2>1, <2>2, Lengths
  <1>2. P(k)
    OBVIOUS
  <1>3. Reader!Front(S) = CHOOSE n \in 0 .. StreamLen : P(n)
    BY Zenon DEF Reader!Front
  <1> HIDE DEF P
  <1> QED
    BY <1>1, <1>2, <1>3

\* With the handshake, the buffer is what the reader delivers.
Delivers == with_syn => dir.data_buffer = [i \in 1 .. Reader!Front(captured) |-> i]

LEMMA InvDelivers ==
    ASSUME IInv
    PROVE  Delivers
  <1> SUFFICES ASSUME with_syn
               PROVE  dir.data_buffer = [i \in 1 .. Reader!Front(captured) |-> i]
    BY DEF Delivers
  <1>1. ASSUME NEW k \in 0 .. StreamLen PROVE Bytes(1, k) = [i \in 1 .. k |-> i]
    <2>1. k - 1 + 1 = k /\ \A i \in 1 .. k : 1 + i - 1 = i
      OBVIOUS
    <2> QED
      BY <2>1 DEF Bytes
  <1>2. CASE Unbased
    <2>1. captured = {} /\ dir.data_buffer = << >>
      BY <1>2 DEF Unbased
    <2>2. 0 \in 0 .. StreamLen /\ 1 .. 0 \subseteq {} /\ 0 + 1 \notin {}
      BY Lengths
    <2>3. Reader!Front(captured) = 0
      BY <2>1, <2>2, FrontIs
    <2>4. [i \in 1 .. 0 |-> i] \in [1 .. 0 -> {}]
      OBVIOUS
    <2>5. [i \in 1 .. 0 |-> i] = << >>
      BY <2>4
    <2> QED
      BY <2>1, <2>3, <2>5
  <1>3. CASE \E b, k : InStream(b, k)
    <2>1. PICK b, k : InStream(b, k)
      BY <1>3
    <2>2. k \in 0 .. StreamLen /\ dir.data_buffer = Bytes(1, k) /\ Beyond(dir, k)
          /\ captured = 1 .. k \union HeldIn(dir.out_of_order)
      BY <2>1 DEF InStream, Complete, Rebuilt, Based
    <2>3. k + 1 \notin captured
      <3>1. ASSUME NEW i \in DOMAIN dir.out_of_order
            PROVE  k + 1 \notin From(dir.out_of_order[i]) .. To(dir.out_of_order[i])
        <4>1. dir.out_of_order[i] \in Pieces
          BY DEF IInv, Direction
        <4>2. From(dir.out_of_order[i]) \in Stream /\ From(dir.out_of_order[i]) > k + 1
          BY <2>2, <4>1, PieceFacts DEF IInv, Beyond
        <4> QED
          BY <2>2, <4>2, Lengths DEF Stream
      <3>2. k + 1 \notin 1 .. k
        BY <2>2
      <3> QED
        BY <2>2, <3>1, <3>2 DEF HeldIn
    <2>4. Reader!Front(captured) = k
      BY <2>2, <2>3, FrontIs
    <2> QED
      BY <1>1, <2>2, <2>4
  <1> QED
    BY <1>2, <1>3 DEF IInv

\* What a step captures is a set of positions of the stream.
LEMMA StepCaptures ==
    ASSUME [Next]_vars
    PROVE  with_syn' = with_syn /\ \E bytes \in SUBSET Stream : captured' = captured \union bytes
  <1>1. ASSUME NEW p, NEW q, NEW flags, Receive(p, q, flags), p .. q \subseteq Stream
        PROVE  with_syn' = with_syn /\ \E bytes \in SUBSET Stream : captured' = captured \union bytes
    BY <1>1 DEF Receive
  <1>2. CASE ReceiveSyn
    <2>1. 0 .. -1 \subseteq Stream
      OBVIOUS
    <2> QED
      BY <1>1, <1>2, <2>1 DEF ReceiveSyn
  <1>3. CASE ReceiveData
    <2>1. PICK p \in Stream : \E q \in p .. StreamLen : Receive(p, q, {})
      BY <1>3 DEF ReceiveData
    <2>2. PICK q \in p .. StreamLen : Receive(p, q, {})
      BY <2>1
    <2>3. p .. q \subseteq Stream
      BY Lengths DEF Stream
    <2> QED
      BY <1>1, <2>2, <2>3
  <1>4. CASE ReceiveFin
    <2>1. PICK p \in 1 .. StreamLen + 1 : Receive(p, StreamLen, {"FIN"})
      BY <1>4 DEF ReceiveFin
    <2>2. p .. StreamLen \subseteq Stream
      BY Lengths DEF Stream
    <2> QED
      BY <1>1, <2>1, <2>2
  <1>5. CASE ReceiveRst
    <2>1. PICK p \in Stream : Receive(p, p - 1, {"RST"})
      BY <1>5 DEF ReceiveRst
    <2>2. p .. p - 1 \subseteq Stream
      BY Lengths DEF Stream
    <2> QED
      BY <1>1, <2>1, <2>2
  <1>6. CASE UNCHANGED vars
    <2>1. with_syn' = with_syn /\ captured' = captured \union {}
      BY <1>6 DEF vars
    <2> QED
      BY <2>1
  <1> QED
    BY <1>2, <1>3, <1>4, <1>5, <1>6 DEF Next, ReceiveOther

LEMMA ReaderInit ==
    ASSUME Init
    PROVE  Reader!Init
  BY DEF Init, NewDirection, Reader!Init

LEMMA ReaderStep ==
    ASSUME [Next]_vars, Delivers'
    PROVE  [Reader!Next]_<<IF with_syn THEN captured ELSE {}, IF with_syn THEN dir.data_buffer ELSE << >>>>
  <1>1. with_syn' = with_syn
    BY StepCaptures
  <1>2. CASE ~with_syn
    BY <1>1, <1>2
  <1>3. CASE with_syn
    <2>1. PICK bytes \in SUBSET Stream : captured' = captured \union bytes
      BY StepCaptures
    <2>2. dir'.data_buffer = [i \in 1 .. Reader!Front(captured') |-> i]
      BY <1>1, <1>3 DEF Delivers, Reader!Front
    <2>3. Reader!Capture(bytes)
      BY <1>1, <1>3, <2>1, <2>2 DEF Reader!Capture
    <2> QED
      BY <2>3 DEF Reader!Next, Stream
  <1> QED
    BY <1>2, <1>3

\* After the handshake, whatever the order, the overlaps and the repetitions
\* of the segments, the buffer is the part of the stream before the first
\* missing byte: the reassembler implements InOrderReader.
THEOREM InOrderPrefixHolds == Spec => InOrderPrefix
  <1>1. IInv => Delivers
    BY InvDelivers
  <1>2. Init => Reader!Init
    BY ReaderInit
  <1>3. [Next]_vars /\ Delivers'
        => [Reader!Next]_<<IF with_syn THEN captured ELSE {}, IF with_syn THEN dir.data_buffer ELSE << >>>>
    BY ReaderStep
  <1> QED
    BY Invariant, <1>1, <1>2, <1>3, PTL DEF Spec, InOrderPrefix, Reader!Spec

=============================================================================
