---------------------------- MODULE BacnetProofs ----------------------------
(***************************************************************************)
(* Proofs about the BACnet decoder in its two environments.  First         *)
(* BacnetTransfers, for all files, caps and captures: an APDU overlays the *)
(* buffer with the bytes it carries as far as they fit under the cap       *)
(* (Absorbed): on what the bytes before a position left (Partial) this     *)
(* leaves what the bytes up to the end of the APDU leave.  Then            *)
(* BacnetCapture, for any traffic and any limits of the tables: what the   *)
(* decoder reports, one packet at a time, is what the capture as a whole   *)
(* says it should be.                                                      *)
(***************************************************************************)
EXTENDS BacnetTransfers, BacnetCapture, OperatorProofs

ByteOf(f, i) == [file |-> f, pos |-> i]

Byte == {Zero} \union [file : Stored, pos : Nat]
Buffers == [data : Seq(Byte), truncated : BOOLEAN]

-----------------------------------------------------------------------------
LEMMA BytesAre ==
    ASSUME NEW f \in Stored, NEW p \in Nat, NEW n \in Nat
    PROVE  /\ Bytes(f, p, n) \in Seq(Byte)
           /\ Len(Bytes(f, p, n)) = n
           /\ \A i \in 1 .. n : Bytes(f, p, n)[i] = ByteOf(f, p + i - 1)
  <1>1. \A i \in 1 .. n : ByteOf(f, p + i - 1) \in Byte
    BY DEF ByteOf, Byte
  <1>2. Bytes(f, p, n) = [i \in 1 .. n |-> ByteOf(f, p + i - 1)]
    BY DEF Bytes, ByteOf
  <1> HIDE DEF Byte, ByteOf
  <1> QED
    BY <1>1, <1>2

LEMMA FirstPart ==
    ASSUME NEW S, NEW s \in Seq(S), NEW m \in 0 .. Len(s)
    PROVE  /\ SubSeq(s, 1, m) \in Seq(S)
           /\ Len(SubSeq(s, 1, m)) = m
           /\ \A i \in 1 .. m : SubSeq(s, 1, m)[i] = s[i]
  <1>1. Len(s) \in Nat /\ \A i \in 1 .. Len(s) : s[i] \in S
    BY LenProperties, ElementOfSeq
  <1>2. m \in Int /\ 1 \in Int /\ (\A i \in 1 .. m : s[i] \in S)
    BY <1>1
  <1>3. /\ SubSeq(s, 1, m) \in Seq(S)
        /\ Len(SubSeq(s, 1, m)) = IF 1 <= m THEN m - 1 + 1 ELSE 0
        /\ \A i \in 1 .. m - 1 + 1 : SubSeq(s, 1, m)[i] = s[1 + i - 1]
    BY <1>2, SubSeqProperties
  <1> QED
    BY <1>1, <1>3

LEMMA LastPart ==
    ASSUME NEW S, NEW s \in Seq(S), NEW m \in 0 .. Len(s)
    PROVE  /\ SubSeq(s, m + 1, Len(s)) \in Seq(S)
           /\ Len(SubSeq(s, m + 1, Len(s))) = Len(s) - m
           /\ \A i \in 1 .. Len(s) - m : SubSeq(s, m + 1, Len(s))[i] = s[m + i]
  <1> DEFINE n == Len(s)
             q == m + 1
  <1>1. n \in Nat /\ \A i \in 1 .. n : s[i] \in S
    BY LenProperties, ElementOfSeq
  <1>2. q \in Int /\ n \in Int /\ (\A i \in q .. n : s[i] \in S)
    BY <1>1
  <1>3. (IF q <= n THEN n - q + 1 ELSE 0) = n - m /\ n - q + 1 = n - m
        /\ \A i \in 1 .. n - m : q + i - 1 = m + i
    BY <1>1
  <1> HIDE DEF n, q
  <1>4. /\ SubSeq(s, q, n) \in Seq(S)
        /\ Len(SubSeq(s, q, n)) = IF q <= n THEN n - q + 1 ELSE 0
        /\ \A i \in 1 .. n - q + 1 : SubSeq(s, q, n)[i] = s[q + i - 1]
    BY <1>2, SubSeqProperties
  <1> QED
    BY <1>3, <1>4 DEF n, q

\* Some first bytes of a piece of a file.
LEMMA BytesCut ==
    ASSUME NEW f \in Stored, NEW p \in Nat, NEW n \in Nat, NEW m \in 0 .. n
    PROVE  SubSeq(Bytes(f, p, n), 1, m) = Bytes(f, p, m)
  <1>1. m \in Nat
    OBVIOUS
  <1>2. /\ SubSeq(Bytes(f, p, n), 1, m) \in Seq(Byte)
        /\ Len(SubSeq(Bytes(f, p, n), 1, m)) = m
        /\ \A i \in 1 .. m : SubSeq(Bytes(f, p, n), 1, m)[i] = Bytes(f, p, n)[i]
    <2>1. Bytes(f, p, n) \in Seq(Byte) /\ Len(Bytes(f, p, n)) = n
      BY BytesAre
    <2> QED
      BY <2>1, FirstPart
  <1>3. \A i \in 1 .. m : SubSeq(Bytes(f, p, n), 1, m)[i] = Bytes(f, p, m)[i]
    <2> TAKE i \in 1 .. m
    <2>1. i \in 1 .. n
      OBVIOUS
    <2> QED
      BY <1>1, <1>2, <2>1, BytesAre
  <1>4. Bytes(f, p, m) \in Seq(Byte) /\ Len(Bytes(f, p, m)) = m
    BY <1>1, BytesAre
  <1> DEFINE a == SubSeq(Bytes(f, p, n), 1, m)
             b == Bytes(f, p, m)
  <1> HIDE DEF Byte
  <1>5. a \in Seq(Byte) /\ b \in Seq(Byte) /\ Len(a) = Len(b) /\ \A i \in 1 .. Len(a) : a[i] = b[i]
    BY <1>2, <1>3, <1>4
  <1> HIDE DEF a, b
  <1>6. a = b
    BY <1>5, SeqEqual
  <1> QED
    BY <1>6 DEF a, b

-----------------------------------------------------------------------------
\* A sequence with one put over it from p on, and with zeros in between.
Overlaid(data, p, chunk) ==
    LET end == p + Len(chunk) IN
    [i \in 1 .. (IF Len(data) >= end THEN Len(data) ELSE end) |->
       IF p < i /\ i <= end THEN chunk[i - p] ELSE IF i <= Len(data) THEN data[i] ELSE Zero]

LEMMA ExtendedIs ==
    ASSUME NEW data \in Seq(Byte), NEW n \in Nat
    PROVE  LET d == Extended(data, n)
           IN  /\ d \in Seq(Byte)
               /\ Len(d) = IF Len(data) >= n THEN Len(data) ELSE n
               /\ \A i \in 1 .. Len(d) : d[i] = IF i <= Len(data) THEN data[i] ELSE Zero
  <1> DEFINE z == [i \in 1 .. n - Len(data) |-> Zero]
  <1>1. Len(data) \in Nat
    BY LenProperties
  <1>2. Zero \in Byte
    BY DEF Byte
  <1>3. z \in Seq(Byte) /\ Len(z) = IF n >= Len(data) THEN n - Len(data) ELSE 0
    <2> DEFINE k == IF n >= Len(data) THEN n - Len(data) ELSE 0
    <2>1. k \in Nat /\ 1 .. n - Len(data) = 1 .. k
      BY <1>1
    <2>2. z = [i \in 1 .. k |-> Zero]
      BY <2>1
    <2> HIDE DEF k, Byte, z
    <2>3. z \in Seq(Byte) /\ Len(z) = k
      BY <1>2, <2>1, <2>2
    <2> QED
      BY <2>3 DEF k
  <1>4. \A i \in 1 .. Len(z) : z[i] = Zero
    <2>1. \A i \in 1 .. n - Len(data) : z[i] = Zero
      OBVIOUS
    <2> HIDE DEF z
    <2>2. 1 .. Len(z) \subseteq 1 .. n - Len(data)
      BY <1>1, <1>3
    <2> QED
      BY <2>1, <2>2
  <1>5. Extended(data, n) = data \o z
    BY DEF Extended
  <1> HIDE DEF z, Byte
  <1>6. /\ data \o z \in Seq(Byte)
        /\ Len(data \o z) = Len(data) + Len(z)
        /\ \A i \in 1 .. Len(data) + Len(z) :
             (data \o z)[i] = IF i <= Len(data) THEN data[i] ELSE z[i - Len(data)]
    BY <1>3, ConcatProperties
  <1>7. ASSUME NEW i \in 1 .. Len(data) + Len(z), ~(i <= Len(data)) PROVE z[i - Len(data)] = Zero
    BY <1>1, <1>3, <1>4, <1>7
  <1> QED
    BY <1>1, <1>3, <1>5, <1>6, <1>7

\* Slice assignment after the extension puts a chunk over the buffer.
LEMMA SpliceIs ==
    ASSUME NEW data \in Seq(Byte), NEW chunk \in Seq(Byte), NEW p \in Nat
    PROVE  LET end == p + Len(chunk)
           IN  Splice(Extended(data, end), p, end, chunk) = Overlaid(data, p, chunk)
  <1> DEFINE end == p + Len(chunk)
             d == Extended(data, end)
             L == IF Len(data) >= end THEN Len(data) ELSE end
  <1>1. Len(data) \in Nat /\ Len(chunk) \in Nat /\ end \in Nat /\ L \in Nat /\ p <= end /\ end <= L
    BY LenProperties
  <1>2. /\ d \in Seq(Byte) /\ Len(d) = L
        /\ \A i \in 1 .. L : d[i] = IF i <= Len(data) THEN data[i] ELSE Zero
    BY <1>1, ExtendedIs
  <1>3. Overlaid(data, p, chunk) = [i \in 1 .. L |->
          IF p < i /\ i <= end THEN chunk[i - p] ELSE IF i <= Len(data) THEN data[i] ELSE Zero]
    BY DEF Overlaid
  <1>a. end - p = Len(chunk)
    BY <1>1
  <1> HIDE DEF d, L, end, Byte
  <1>4. Bound(p, L) = p /\ Bound(end, L) = end
    <2>1. Min({p, L}) = p /\ Min({end, L}) = end
      BY <1>1, MinOfTwo
    <2>2. ~(p < 0) /\ ~(end < 0)
      BY <1>1
    <2> QED
      BY <2>1, <2>2 DEF Bound
  <1>5. Max({p, end}) = end
    BY <1>1, MaxOfTwo
  <1>6. Splice(d, p, end, chunk) = SubSeq(d, 1, p) \o chunk \o SubSeq(d, end + 1, L)
    BY <1>2, <1>4, <1>5 DEF Splice
  <1> DEFINE front == SubSeq(d, 1, p)
             back == SubSeq(d, end + 1, L)
  <1>7. /\ front \in Seq(Byte) /\ Len(front) = p
        /\ \A i \in 1 .. p : front[i] = d[i]
    <2>1. p \in 0 .. L
      BY <1>1
    <2> QED
      BY <1>2, <2>1, FirstPart DEF front
  <1>8. /\ back \in Seq(Byte) /\ Len(back) = L - end
        /\ \A i \in 1 .. L - end : back[i] = d[end + i]
    <2>1. end \in 0 .. L
      BY <1>1
    <2> QED
      BY <1>2, <2>1, LastPart DEF back
  <1> HIDE DEF front, back
  <1>9. /\ front \o chunk \in Seq(Byte) /\ Len(front \o chunk) = end
        /\ \A i \in 1 .. end : (front \o chunk)[i] = IF i <= p THEN front[i] ELSE chunk[i - p]
    <2>1. p + Len(chunk) = end
      BY DEF end
    <2> QED
      BY <1>7, <2>1, ConcatProperties
  <1> DEFINE head == front \o chunk
             whole == head \o back
  <1> HIDE DEF head
  <1>b. /\ head \in Seq(Byte) /\ Len(head) = end
        /\ \A i \in 1 .. end : head[i] = IF i <= p THEN front[i] ELSE chunk[i - p]
    BY <1>9 DEF head
  <1>10. /\ whole \in Seq(Byte)
         /\ Len(whole) = L
         /\ \A i \in 1 .. L : whole[i] = IF i <= end THEN head[i] ELSE back[i - end]
    <2>1. end + (L - end) = L
      BY <1>1
    <2>2. back \in Seq(Byte) /\ Len(back) = L - end /\ head \in Seq(Byte) /\ Len(head) = end
      BY <1>8, <1>b
    <2>3. /\ head \o back \in Seq(Byte)
          /\ Len(head \o back) = Len(head) + Len(back)
          /\ \A i \in 1 .. Len(head) + Len(back) :
               (head \o back)[i] = IF i <= Len(head) THEN head[i] ELSE back[i - Len(head)]
      BY <2>2, ConcatProperties
    <2> QED
      BY <2>1, <2>2, <2>3
  <1> HIDE DEF whole
  <1>11. ASSUME NEW i \in 1 .. L
         PROVE  whole[i] = Overlaid(data, p, chunk)[i]
    <2>1. CASE i <= p
      <3>1. i \in 1 .. p /\ i \in 1 .. end /\ i <= end /\ ~(p < i)
        BY <1>1, <2>1
      <3>2. whole[i] = d[i]
        BY <1>7, <1>b, <1>10, <2>1, <3>1
      <3> QED
        BY <1>2, <1>3, <3>1, <3>2
    <2>2. CASE p < i /\ i <= end
      <3>1. i \in 1 .. end /\ ~(i <= p)
        BY <1>1, <2>2
      <3>2. whole[i] = chunk[i - p]
        BY <1>b, <1>10, <2>2, <3>1
      <3> QED
        BY <1>3, <2>2, <3>2
    <2>3. CASE end < i
      <3>1. i - end \in 1 .. L - end /\ end + (i - end) = i /\ ~(i <= end)
        BY <1>1, <2>3
      <3>2. whole[i] = d[i]
        BY <1>8, <1>10, <3>1
      <3> QED
        BY <1>2, <1>3, <3>1, <3>2
    <2>4. i <= p \/ (p < i /\ i <= end) \/ end < i
      BY <1>1
    <2> QED
      BY <2>1, <2>2, <2>3, <2>4, Zenon
  <1>12. Overlaid(data, p, chunk) = [i \in 1 .. L |-> whole[i]]
    BY <1>3, <1>11
  <1>13. whole = [i \in 1 .. L |-> whole[i]]
    BY <1>10
  <1>14. Splice(d, p, end, chunk) = whole
    BY <1>6 DEF whole, head, front, back
  <1>15. Splice(d, p, end, chunk) = Overlaid(data, p, chunk)
    BY <1>12, <1>13, <1>14
  <1> QED
    BY <1>15 DEF end, d

-----------------------------------------------------------------------------
\* A position, or the cap if that is before it; whether one is beyond the cap.
Fit(e) == IF e <= MaxAssembly THEN e ELSE MaxAssembly
Cut(truncated, e) == truncated \/ e > MaxAssembly

\* Data with the bytes p .. e - 1 of a file put over it.
Laid(data, f, p, e) ==
    [i \in 1 .. (IF Len(data) >= e THEN Len(data) ELSE e) |->
       IF p < i /\ i <= e THEN ByteOf(f, i - 1) ELSE IF i <= Len(data) THEN data[i] ELSE Zero]

LEMMA OverlaidIsLaid ==
    ASSUME NEW data \in Seq(Byte), NEW f \in Stored, NEW p \in Nat, NEW m \in Nat
    PROVE  Overlaid(data, p, Bytes(f, p, m)) = Laid(data, f, p, p + m)
  <1> DEFINE e == p + m
             L == IF Len(data) >= e THEN Len(data) ELSE e
             F(i) == IF p < i /\ i <= e THEN Bytes(f, p, m)[i - p]
                     ELSE IF i <= Len(data) THEN data[i] ELSE Zero
             G(i) == IF p < i /\ i <= e THEN ByteOf(f, i - 1)
                     ELSE IF i <= Len(data) THEN data[i] ELSE Zero
  <1>1. Len(Bytes(f, p, m)) = m /\ \A i \in 1 .. m : Bytes(f, p, m)[i] = ByteOf(f, p + i - 1)
    BY BytesAre
  <1>2. Overlaid(data, p, Bytes(f, p, m)) = [i \in 1 .. L |-> F(i)]
    BY <1>1 DEF Overlaid
  <1>3. Laid(data, f, p, e) = [i \in 1 .. L |-> G(i)]
    BY DEF Laid
  <1>4. ASSUME NEW i \in 1 .. L PROVE F(i) = G(i)
    <2>1. i \in Nat
      BY LenProperties
    <2>2. CASE p < i /\ i <= e
      <3>1. i - p \in 1 .. m /\ p + (i - p) - 1 = i - 1
        BY <2>1, <2>2
      <3> QED
        BY <1>1, <2>2, <3>1
    <2> QED
      BY <2>2
  <1> HIDE DEF F, G, L
  <1> QED
    BY <1>2, <1>3, <1>4

LEMMA LaidIs ==
    ASSUME NEW data \in Seq(Byte), NEW f \in Stored, NEW p \in Nat, NEW e \in Nat
    PROVE  /\ Laid(data, f, p, e) \in Seq(Byte)
           /\ Len(Laid(data, f, p, e)) = IF Len(data) >= e THEN Len(data) ELSE e
           /\ \A i \in 1 .. Len(Laid(data, f, p, e)) :
                Laid(data, f, p, e)[i] = IF p < i /\ i <= e THEN ByteOf(f, i - 1)
                                         ELSE IF i <= Len(data) THEN data[i] ELSE Zero
  <1> DEFINE L == IF Len(data) >= e THEN Len(data) ELSE e
             G(i) == IF p < i /\ i <= e THEN ByteOf(f, i - 1)
                     ELSE IF i <= Len(data) THEN data[i] ELSE Zero
  <1>1. Laid(data, f, p, e) = [i \in 1 .. L |-> G(i)]
    BY DEF Laid
  <1>2. L \in Nat /\ Len(data) \in Nat
    BY LenProperties
  <1>3. ASSUME NEW i \in 1 .. L PROVE G(i) \in Byte
    <2>1. i \in Nat /\ i - 1 \in Nat
      BY <1>2
    <2>2. ByteOf(f, i - 1) \in Byte /\ Zero \in Byte
      BY <2>1 DEF ByteOf, Byte
    <2>3. i <= Len(data) => data[i] \in Byte
      BY <1>2, <2>1, ElementOfSeq
    <2> QED
      BY <2>2, <2>3
  <1> HIDE DEF G, L, Byte
  <1>4. [i \in 1 .. L |-> G(i)] \in Seq(Byte) /\ Len([i \in 1 .. L |-> G(i)]) = L
    BY <1>2, <1>3
  <1>5. \A i \in 1 .. L : Laid(data, f, p, e)[i] = G(i)
    BY <1>1
  <1>6. Laid(data, f, p, e) \in Seq(Byte) /\ Len(Laid(data, f, p, e)) = L
    BY <1>1, <1>4
  <1> QED
    BY <1>5, <1>6 DEF G, L

\* One piece after another is one piece.
LEMMA LaidTwice ==
    ASSUME NEW data \in Seq(Byte), NEW f \in Stored,
           NEW p \in Nat, NEW q \in Nat, NEW e \in Nat, p <= q, q <= e
    PROVE  Laid(Laid(data, f, p, q), f, q, e) = Laid(data, f, p, e)
  <1> DEFINE a == Laid(data, f, p, q)
             b == Laid(a, f, q, e)
             c == Laid(data, f, p, e)
  <1>1. Len(data) \in Nat
    BY LenProperties
  <1>2. /\ a \in Seq(Byte) /\ Len(a) = IF Len(data) >= q THEN Len(data) ELSE q
        /\ \A i \in 1 .. Len(a) : a[i] = IF p < i /\ i <= q THEN ByteOf(f, i - 1)
                                         ELSE IF i <= Len(data) THEN data[i] ELSE Zero
    BY LaidIs
  <1>3. /\ c \in Seq(Byte) /\ Len(c) = IF Len(data) >= e THEN Len(data) ELSE e
        /\ \A i \in 1 .. Len(c) : c[i] = IF p < i /\ i <= e THEN ByteOf(f, i - 1)
                                         ELSE IF i <= Len(data) THEN data[i] ELSE Zero
    BY LaidIs
  <1> HIDE DEF a, c, Byte
  <1>4. /\ b \in Seq(Byte) /\ Len(b) = IF Len(a) >= e THEN Len(a) ELSE e
        /\ \A i \in 1 .. Len(b) : b[i] = IF q < i /\ i <= e THEN ByteOf(f, i - 1)
                                         ELSE IF i <= Len(a) THEN a[i] ELSE Zero
    BY <1>2, LaidIs
  <1> HIDE DEF b
  <1>5. Len(b) = Len(c) /\ Len(c) \in Nat
    BY <1>1, <1>2, <1>3, <1>4
  <1>6. ASSUME NEW i \in 1 .. Len(b) PROVE b[i] = c[i]
    <2>1. i \in Nat /\ i \in 1 .. Len(c)
      BY <1>5
    <2>2. CASE q < i /\ i <= e
      BY <1>3, <1>4, <2>1, <2>2
    <2>3. CASE ~(q < i /\ i <= e) /\ i <= Len(a)
      <3>1. i \in 1 .. Len(a) /\ b[i] = a[i]
        BY <1>2, <1>4, <2>1, <2>3
      <3>2. a[i] = IF p < i /\ i <= q THEN ByteOf(f, i - 1)
                   ELSE IF i <= Len(data) THEN data[i] ELSE Zero
        BY <1>2, <3>1
      <3>3. c[i] = IF p < i /\ i <= e THEN ByteOf(f, i - 1)
                   ELSE IF i <= Len(data) THEN data[i] ELSE Zero
        BY <1>3, <2>1
      <3>4. (p < i /\ i <= q) <=> (p < i /\ i <= e)
        BY <2>1, <2>3
      <3> QED
        BY <3>1, <3>2, <3>3, <3>4
    <2>4. CASE ~(q < i /\ i <= e) /\ ~(i <= Len(a))
      BY <1>1, <1>2, <1>4, <1>5, <2>1, <2>4
    <2> QED
      BY <2>2, <2>3, <2>4
  <1>7. b = c
    BY <1>3, <1>4, <1>5, <1>6, SeqEqual
  <1> QED
    BY <1>7 DEF a, b, c

-----------------------------------------------------------------------------
\* The state of the loop over the chunks; as it goes on and after its end.
State(data, truncated, full, p) ==
    [data |-> data, truncated |-> truncated, full |-> full, position |-> p]
Going(data, truncated, p) == State(data, truncated, FALSE, p)
Stopped(data, p) == State(data, TRUE, TRUE, p)

\* The updates of the loop.
Advanced(r, data, truncated, p) == [r EXCEPT !.data = data, !.truncated = truncated, !.position = p]
Ended(r, truncated, full) == [r EXCEPT !.truncated = truncated, !.full = full]

LEMMA GoesOn ==
    ASSUME NEW data, NEW truncated, NEW full, NEW p, NEW s, NEW u, NEW e
    PROVE  Advanced(State(data, truncated, full, p), s, u, e) = State(s, u, full, e)
  <1> DEFINE r == State(data, truncated, full, p)
  <1>1. [r EXCEPT !.data = s] = State(s, truncated, full, p)
    BY DEF State
  <1>2. [State(s, truncated, full, p) EXCEPT !.truncated = u] = State(s, u, full, p)
    BY DEF State
  <1>3. [State(s, u, full, p) EXCEPT !.position = e] = State(s, u, full, e)
    BY DEF State
  <1> HIDE DEF r
  <1>4. Advanced(r, s, u, e) = [[[r EXCEPT !.data = s] EXCEPT !.truncated = u] EXCEPT !.position = e]
    BY Zenon DEF Advanced
  <1> QED
    BY <1>1, <1>2, <1>3, <1>4 DEF r

LEMMA GoesNoFurther ==
    ASSUME NEW data, NEW truncated, NEW full, NEW p, NEW u, NEW v
    PROVE  Ended(State(data, truncated, full, p), u, v) = State(data, u, v, p)
  <1> DEFINE r == State(data, truncated, full, p)
  <1>1. [r EXCEPT !.truncated = u] = State(data, u, full, p)
    BY DEF State
  <1>2. [State(data, u, full, p) EXCEPT !.full = v] = State(data, u, v, p)
    BY DEF State
  <1> HIDE DEF r
  <1>3. Ended(r, u, v) = [[r EXCEPT !.truncated = u] EXCEPT !.full = v]
    BY Zenon DEF Ended
  <1> QED
    BY <1>1, <1>2, <1>3 DEF r

LEMMA PlacedWithin ==
    ASSUME NEW data \in Seq(Byte), NEW truncated \in BOOLEAN, NEW f \in Stored,
           NEW p \in Nat, NEW n \in Nat, p < MaxAssembly
    PROVE  Place(Going(data, truncated, p), Bytes(f, p, n))
             = Going(Laid(data, f, p, Fit(p + n)), Cut(truncated, p + n), Fit(p + n))
  <1> DEFINE acc == Going(data, truncated, p)
             chunk == Bytes(f, p, n)
             room == MaxAssembly - p
             m == IF room <= n THEN room ELSE n
             kept == Bytes(f, p, m)
             e == p + m
             more == m < n
  <1>1. /\ MaxAssembly \in Nat /\ room \in Nat /\ m \in Nat /\ m \in 0 .. n /\ ~(room <= 0)
        /\ e \in Nat /\ e = Fit(p + n) /\ (more <=> p + n > MaxAssembly)
    BY BacnetFilesAssumption DEF Fit
  <1>2. Len(chunk) = n /\ Len(kept) = m /\ kept \in Seq(Byte)
    BY <1>1, BytesAre
  <1>3. Min({room, n}) = m
    BY <1>1, MinOfTwo
  <1>4. SubSeq(chunk, 1, m) = kept
    BY <1>1, BytesCut
  <1>5. Splice(Extended(data, e), p, e, kept) = Laid(data, f, p, e)
    <2>1. Splice(Extended(data, p + Len(kept)), p, p + Len(kept), kept) = Overlaid(data, p, kept)
      BY <1>2, SpliceIs
    <2>2. Overlaid(data, p, kept) = Laid(data, f, p, e)
      BY <1>1, OverlaidIsLaid
    <2> QED
      BY <1>2, <2>1, <2>2
  <1>6. acc.full = FALSE /\ acc.position = p /\ acc.data = data /\ acc.truncated = truncated
    BY DEF Going, State
  <1> HIDE DEF chunk, kept, m, room, acc
  <1>7. Place(acc, chunk) = [acc EXCEPT !.data = Splice(Extended(@, e), p, e, kept),
                                        !.truncated = @ \/ more, !.position = e]
    <2>1. acc.position + m = e /\ MaxAssembly - acc.position = room
      BY <1>6 DEF room
    <2>2. SubSeq(chunk, 1, Min({room, Len(chunk)})) = kept
      BY <1>2, <1>3, <1>4
    <2> HIDE DEF e, more
    <2>3. Place(acc, chunk) = [acc EXCEPT !.data = Splice(Extended(@, e), p, e, kept),
                                          !.truncated = @ \/ m < n, !.position = e]
      BY <1>1, <1>2, <1>6, <2>1, <2>2, Zenon DEF Place
    <2> QED
      BY <2>3, Zenon DEF more
  <1> HIDE DEF e
  <1>8. [acc EXCEPT !.data = Splice(Extended(@, e), p, e, kept), !.truncated = @ \/ more, !.position = e]
          = Going(Laid(data, f, p, e), truncated \/ more, e)
    <2> DEFINE t == truncated \/ more
               u == acc.truncated \/ more
               s == Splice(Extended(acc.data, e), p, e, kept)
    <2>1. t = u
      BY <1>6, Zenon
    <2>2. s = Laid(data, f, p, e)
      BY <1>5, <1>6
    <2> HIDE DEF t, u, s, more
    <2>3. Advanced(acc, s, u, e) = Going(s, u, e)
      <3> DEFINE no == FALSE
      <3>1. Going(s, u, e) = State(s, u, no, e) /\ acc = State(data, truncated, no, p)
        BY Zenon DEF Going, acc
      <3> HIDE DEF no
      <3> QED
        BY <3>1, GoesOn
    <2> USE DEF t, u, s
    <2> QED
      BY <2>1, <2>2, <2>3, Zenon DEF Advanced
  <1>9. Cut(truncated, p + n) = (truncated \/ more)
    BY <1>1, Zenon DEF Cut
  <1> HIDE DEF more
  <1>10. Place(acc, chunk) = Going(Laid(data, f, p, e), Cut(truncated, p + n), e)
    BY <1>7, <1>8, <1>9, Zenon
  <1> QED
    BY <1>1, <1>10, Zenon DEF acc, chunk

LEMMA PlacedBeyond ==
    ASSUME NEW data, NEW truncated, NEW p \in Nat, p >= MaxAssembly, NEW chunk
    PROVE  Place(Going(data, truncated, p), chunk) = Stopped(data, p)
  <1> DEFINE acc == Going(data, truncated, p)
  <1>1. acc.full = FALSE /\ acc.position = p
    BY DEF Going, State
  <1>2. MaxAssembly - acc.position <= 0
    BY <1>1, BacnetFilesAssumption
  <1>3. [acc EXCEPT !.truncated = TRUE, !.full = TRUE] = Stopped(data, p)
    <2> DEFINE no == FALSE
               yes == TRUE
    <2>1. acc = State(data, truncated, no, p) /\ Stopped(data, p) = State(data, yes, yes, p)
      BY Zenon DEF Going, Stopped
    <2> HIDE DEF no, yes, acc
    <2>2. Ended(acc, yes, yes) = Stopped(data, p)
      BY <2>1, GoesNoFurther
    <2> QED
      BY <2>2, Zenon DEF yes, Ended
  <1> HIDE DEF acc
  <1>4. Place(acc, chunk) = [acc EXCEPT !.truncated = TRUE, !.full = TRUE]
    BY <1>1, <1>2, Zenon DEF Place
  <1> QED
    BY <1>3, <1>4 DEF acc

LEMMA PlacedAfterEnd ==
    ASSUME NEW data, NEW p, NEW chunk
    PROVE  Place(Stopped(data, p), chunk) = Stopped(data, p)
  <1>1. Stopped(data, p).full = TRUE
    BY DEF Stopped, State
  <1> QED
    BY <1>1, Zenon DEF Place

-----------------------------------------------------------------------------
\* The function of Assemble is defined, here for as many chunks as an APDU has.
Placing(g, first, chunks) ==
    g = [n \in 0 .. Len(chunks) |-> IF n = 0 THEN first ELSE Place(g[n - 1], chunks[n])]

LEMMA PlacingOne ==
    ASSUME NEW first, NEW c
    PROVE  /\ \E g : Placing(g, first, <<c>>)
           /\ \A g : Placing(g, first, <<c>>) => g[1] = Place(first, c)
  <1> DEFINE x == Place(first, c)
             g == [n \in 0 .. 1 |-> IF n = 0 THEN first ELSE x]
             h == [n \in 0 .. 1 |-> IF n = 0 THEN first ELSE Place(g[n - 1], <<c>>[n])]
  <1>1. Len(<<c>>) = 1 /\ <<c>>[1] = c
    OBVIOUS
  <1>2. g[0] = first /\ 1 - 1 = 0
    OBVIOUS
  <1>3. ASSUME NEW n \in 0 .. 1 PROVE g[n] = h[n]
    <2>1. n = 0 \/ n = 1
      OBVIOUS
    <2> QED
      BY <1>1, <1>2, <2>1
  <1>4. g = h
    BY <1>3
  <1>5. Placing(g, first, <<c>>)
    BY <1>1, <1>4, Zenon DEF Placing
  <1> HIDE DEF g, h, x
  <1>6. ASSUME NEW k, Placing(k, first, <<c>>) PROVE k[1] = x
    <2>1. k = [n \in 0 .. 1 |-> IF n = 0 THEN first ELSE Place(k[n - 1], <<c>>[n])]
      BY <1>1, <1>6, Zenon DEF Placing
    <2>2. 0 \in 0 .. 1 /\ 1 \in 0 .. 1 /\ 1 # 0
      OBVIOUS
    <2>3. k[0] = first
      BY <2>1, <2>2
    <2>4. k[1] = Place(k[0], <<c>>[1])
      BY <1>2, <2>1, <2>2
    <2> QED
      BY <1>1, <2>3, <2>4 DEF x
  <1> QED
    BY <1>5, <1>6 DEF x

LEMMA PlacingTwo ==
    ASSUME NEW first, NEW c, NEW d
    PROVE  /\ \E g : Placing(g, first, <<c, d>>)
           /\ \A g : Placing(g, first, <<c, d>>) => g[2] = Place(Place(first, c), d)
  <1> DEFINE x == Place(first, c)
             y == Place(x, d)
             g == [n \in 0 .. 2 |-> IF n = 0 THEN first ELSE IF n = 1 THEN x ELSE y]
             h == [n \in 0 .. 2 |-> IF n = 0 THEN first ELSE Place(g[n - 1], <<c, d>>[n])]
  <1>1. Len(<<c, d>>) = 2 /\ <<c, d>>[1] = c /\ <<c, d>>[2] = d
    OBVIOUS
  <1>2. g[0] = first /\ g[1] = x /\ 1 - 1 = 0 /\ 2 - 1 = 1
    OBVIOUS
  <1>3. ASSUME NEW n \in 0 .. 2 PROVE g[n] = h[n]
    <2>1. n = 0 \/ n = 1 \/ n = 2
      OBVIOUS
    <2> QED
      BY <1>1, <1>2, <2>1
  <1>4. g = h
    BY <1>3
  <1>5. Placing(g, first, <<c, d>>)
    BY <1>1, <1>4, Zenon DEF Placing
  <1> HIDE DEF g, h
  <1>6. ASSUME NEW k, Placing(k, first, <<c, d>>) PROVE k[2] = y
    <2>1. k = [n \in 0 .. 2 |-> IF n = 0 THEN first ELSE Place(k[n - 1], <<c, d>>[n])]
      BY <1>1, <1>6, Zenon DEF Placing
    <2>2. 0 \in 0 .. 2 /\ 1 \in 0 .. 2 /\ 2 \in 0 .. 2 /\ 1 # 0 /\ 2 # 0
      OBVIOUS
    <2>3. k[0] = first
      BY <2>1, <2>2
    <2>4. k[1] = Place(k[0], <<c, d>>[1])
      BY <1>2, <2>1, <2>2
    <2>5. k[2] = Place(k[1], <<c, d>>[2])
      BY <1>2, <2>1, <2>2
    <2> QED
      BY <1>1, <2>3, <2>4, <2>5
  <1> HIDE DEF y
  <1> QED
    BY <1>5, <1>6 DEF y

\* The buffer that a state of the loop is.
BufferOf(r) == [data |-> r.data, truncated |-> r.truncated]
First(buffer, p) == Going(buffer.data, buffer.truncated, p)

LEMMA AssembleOne ==
    ASSUME NEW buffer, NEW p \in Nat, NEW c
    PROVE  Assemble(buffer, p, <<c>>) = BufferOf(Place(First(buffer, p), c))
  <1> DEFINE g == CHOOSE g : Placing(g, First(buffer, p), <<c>>)
  <1>1. Placing(g, First(buffer, p), <<c>>)
    BY PlacingOne
  <1>2. p # NoStart
    BY BacnetFilesAssumption
  <1>3. Assemble(buffer, p, <<c>>) = BufferOf(g[Len(<<c>>)])
    BY <1>2, Zenon DEF Assemble, Placing, BufferOf, First, Going, State
  <1> HIDE DEF g
  <1>4. g[1] = Place(First(buffer, p), c) /\ Len(<<c>>) = 1
    BY <1>1, PlacingOne
  <1> QED
    BY <1>3, <1>4

LEMMA AssembleTwo ==
    ASSUME NEW buffer, NEW p \in Nat, NEW c, NEW d
    PROVE  Assemble(buffer, p, <<c, d>>) = BufferOf(Place(Place(First(buffer, p), c), d))
  <1> DEFINE g == CHOOSE g : Placing(g, First(buffer, p), <<c, d>>)
  <1>1. Placing(g, First(buffer, p), <<c, d>>)
    BY PlacingTwo
  <1>2. p # NoStart
    BY BacnetFilesAssumption
  <1>3. Assemble(buffer, p, <<c, d>>) = BufferOf(g[Len(<<c, d>>)])
    BY <1>2, Zenon DEF Assemble, Placing, BufferOf, First, Going, State
  <1> HIDE DEF g
  <1>4. g[2] = Place(Place(First(buffer, p), c), d) /\ Len(<<c, d>>) = 2
    BY <1>1, PlacingTwo
  <1> QED
    BY <1>3, <1>4

-----------------------------------------------------------------------------
\* The buffer after n bytes of a file from p on.
Absorbed(buffer, f, p, n) ==
    [data |-> IF p >= MaxAssembly THEN buffer.data ELSE Laid(buffer.data, f, p, Fit(p + n)),
     truncated |-> Cut(buffer.truncated, p + n)]

LEMMA BufferParts ==
    ASSUME NEW buffer \in Buffers
    PROVE  /\ buffer.data \in Seq(Byte) /\ buffer.truncated \in BOOLEAN
           /\ buffer = [data |-> buffer.data, truncated |-> buffer.truncated]
  BY DEF Buffers

LEMMA BufferOfStates ==
    ASSUME NEW data, NEW truncated, NEW p
    PROVE  /\ BufferOf(Going(data, truncated, p)) = [data |-> data, truncated |-> truncated]
           /\ BufferOf(Stopped(data, p)) = [data |-> data, truncated |-> TRUE]
  BY DEF BufferOf, Going, Stopped, State

LEMMA FitIs ==
    ASSUME NEW e \in Nat
    PROVE  /\ Fit(e) \in Nat /\ Fit(e) <= MaxAssembly /\ Fit(e) <= e /\ MaxAssembly \in Nat
           /\ e <= MaxAssembly => Fit(e) = e
           /\ e >= MaxAssembly => Fit(e) = MaxAssembly
  BY BacnetFilesAssumption DEF Fit

LEMMA CutIs ==
    ASSUME NEW truncated \in BOOLEAN, NEW e \in Nat
    PROVE  /\ Cut(truncated, e) \in BOOLEAN
           /\ e > MaxAssembly => Cut(truncated, e) = TRUE
           /\ \A d \in 0 .. e : Cut(Cut(truncated, d), e) = Cut(truncated, e)
  <1>1. \A d \in 0 .. e : d > MaxAssembly => e > MaxAssembly
    BY BacnetFilesAssumption
  <1> QED
    BY <1>1, Zenon DEF Cut

LEMMA AbsorbedAtOnce ==
    ASSUME NEW buffer \in Buffers, NEW f \in Stored, NEW p \in Nat, NEW n \in Nat \ {0}
    PROVE  Assemble(buffer, p, <<Bytes(f, p, n)>>) = Absorbed(buffer, f, p, n)
  <1> DEFINE data == buffer.data
             t == buffer.truncated
             c == Bytes(f, p, n)
             e == p + n
             whole == Laid(data, f, p, Fit(e))
  <1>1. data \in Seq(Byte) /\ t \in BOOLEAN
    BY BufferParts
  <1>2. Assemble(buffer, p, <<c>>) = BufferOf(Place(Going(data, t, p), c))
    BY AssembleOne DEF First
  <1> HIDE DEF data, t, c
  <1>3. CASE p < MaxAssembly
    <2>1. Place(Going(data, t, p), c) = Going(whole, Cut(t, e), Fit(e))
      BY <1>1, <1>3, PlacedWithin DEF c
    <2> DEFINE r == Place(Going(data, t, p), c)
               v == Cut(t, e)
    <2>a. r = Going(whole, v, Fit(e)) /\ Assemble(buffer, p, <<c>>) = BufferOf(r)
      BY <1>2, <2>1
    <2> HIDE DEF whole, e, r, v
    <2>b. Assemble(buffer, p, <<c>>) = [data |-> whole, truncated |-> v]
      BY <2>a, BufferOfStates
    <2>2. Assemble(buffer, p, <<c>>) = [data |-> whole, truncated |-> Cut(t, e)]
      BY <2>b, Zenon DEF v
    <2>3. ~(p >= MaxAssembly)
      BY <1>3, BacnetFilesAssumption
    <2> QED
      BY <2>2, <2>3, Zenon DEF Absorbed, data, t, c, whole, e
  <1>4. CASE p >= MaxAssembly
    <2>1. Place(Going(data, t, p), c) = Stopped(data, p)
      BY <1>4, PlacedBeyond
    <2>2. Assemble(buffer, p, <<c>>) = [data |-> data, truncated |-> TRUE]
      BY <1>2, <2>1, BufferOfStates, Zenon
    <2>3. Cut(t, p + n) = TRUE
      <3>1. p + n > MaxAssembly /\ p + n \in Nat
        BY <1>4, BacnetFilesAssumption
      <3> QED
        BY <1>1, <3>1, CutIs, Zenon
    <2> QED
      BY <1>4, <2>2, <2>3, Zenon DEF Absorbed, data, t, c
  <1> QED
    BY <1>3, <1>4, BacnetFilesAssumption

LEMMA AbsorbedInTwo ==
    ASSUME NEW buffer \in Buffers, NEW f \in Stored, NEW p \in Nat, NEW n \in Nat, NEW k \in 1 .. n - 1
    PROVE  Assemble(buffer, p, <<Bytes(f, p, k), Bytes(f, p + k, n - k)>>) = Absorbed(buffer, f, p, n)
  <1> DEFINE data == buffer.data
             t == buffer.truncated
             c == Bytes(f, p, k)
             d == Bytes(f, p + k, n - k)
             q == p + k
             e == p + n
             u == Cut(t, q)
             first == Going(data, t, p)
             second == Place(first, c)
             third == Place(second, d)
  <1>1. data \in Seq(Byte) /\ t \in BOOLEAN
    BY BufferParts
  <1>2. Assemble(buffer, p, <<c, d>>) = BufferOf(third)
    BY AssembleTwo DEF First
  <1>3. /\ q \in Nat /\ e \in Nat /\ k \in Nat /\ n - k \in Nat /\ q + (n - k) = e
        /\ p <= q /\ q < e /\ q \in 0 .. e /\ MaxAssembly \in Nat
    BY BacnetFilesAssumption
  <1>4. u \in BOOLEAN /\ Cut(u, e) = Cut(t, e) /\ (e > MaxAssembly => Cut(t, e) = TRUE)
    BY <1>1, <1>3, CutIs, Zenon
  <1>5. Absorbed(buffer, f, p, n) = [data |-> IF p >= MaxAssembly THEN data ELSE Laid(data, f, p, Fit(e)),
                                     truncated |-> Cut(t, e)]
    BY Zenon DEF Absorbed
  <1> HIDE DEF data, t, c, d, u, first, third
  <1>6. CASE p < MaxAssembly /\ q < MaxAssembly
    <2> DEFINE x == Laid(data, f, p, q)
    <2>1. Fit(q) = q
      BY <1>3, <1>6, FitIs
    <2>2. second = Going(x, u, q)
      BY <1>1, <1>3, <1>6, <2>1, PlacedWithin DEF first, c, u
    <2>3. x \in Seq(Byte)
      BY <1>1, <1>3, LaidIs
    <2>4. Fit(e) \in Nat /\ q <= Fit(e)
      BY <1>3, <1>6, FitIs
    <2>5. Laid(x, f, q, Fit(e)) = Laid(data, f, p, Fit(e))
      BY <1>1, <1>3, <2>4, LaidTwice
    <2> HIDE DEF x, second, q, e
    <2>6. Place(Going(x, u, q), d) = Going(Laid(x, f, q, Fit(e)), Cut(u, e), Fit(e))
      <3> DEFINE j == n - k
      <3> HIDE DEF j
      <3>1. j \in Nat /\ q + j = e /\ d = Bytes(f, q, j)
        BY <1>3 DEF d, q, j
      <3>2. Place(Going(x, u, q), Bytes(f, q, j)) = Going(Laid(x, f, q, Fit(q + j)), Cut(u, q + j), Fit(q + j))
        BY <1>3, <1>4, <1>6, <2>3, <3>1, PlacedWithin
      <3> QED
        BY <3>1, <3>2, Zenon
    <2>7. third = Going(Laid(data, f, p, Fit(e)), Cut(t, e), Fit(e))
      BY <1>4, <2>2, <2>5, <2>6, Zenon DEF third
    <2>8. Assemble(buffer, p, <<c, d>>) = [data |-> Laid(data, f, p, Fit(e)), truncated |-> Cut(t, e)]
      BY <1>2, <2>7, BufferOfStates, Zenon
    <2>9. ~(p >= MaxAssembly)
      BY <1>3, <1>6
    <2>10. Assemble(buffer, p, <<c, d>>) = Absorbed(buffer, f, p, n)
      BY <1>5, <2>8, <2>9, Zenon
    <2> QED
      BY <2>10 DEF c, d
  <1>7. CASE p < MaxAssembly /\ q >= MaxAssembly
    <2> DEFINE x == Laid(data, f, p, MaxAssembly)
    <2>1. Fit(q) = MaxAssembly /\ Fit(e) = MaxAssembly /\ e > MaxAssembly
      BY <1>3, <1>7, FitIs
    <2>2. second = Going(x, u, MaxAssembly)
      BY <1>1, <1>3, <1>7, <2>1, PlacedWithin DEF first, c, u
    <2> HIDE DEF x, second, q, e
    <2>3. Place(Going(x, u, MaxAssembly), d) = Stopped(x, MaxAssembly)
      BY <1>3, PlacedBeyond
    <2>4. third = Stopped(x, MaxAssembly)
      BY <2>2, <2>3, Zenon DEF third
    <2>5. Assemble(buffer, p, <<c, d>>) = [data |-> x, truncated |-> TRUE]
      BY <1>2, <2>4, BufferOfStates, Zenon
    <2>6. ~(p >= MaxAssembly)
      BY <1>3, <1>7
    <2>7. Assemble(buffer, p, <<c, d>>) = Absorbed(buffer, f, p, n)
      BY <1>4, <1>5, <2>1, <2>5, <2>6, Zenon DEF x
    <2> QED
      BY <2>7 DEF c, d
  <1>8. CASE p >= MaxAssembly
    <2>1. e > MaxAssembly
      BY <1>3, <1>8
    <2>2. second = Stopped(data, p)
      BY <1>8, PlacedBeyond DEF first
    <2> HIDE DEF second, q, e
    <2>3. third = Stopped(data, p)
      BY <2>2, PlacedAfterEnd DEF third
    <2>4. Assemble(buffer, p, <<c, d>>) = [data |-> data, truncated |-> TRUE]
      BY <1>2, <2>3, BufferOfStates, Zenon
    <2>5. Assemble(buffer, p, <<c, d>>) = Absorbed(buffer, f, p, n)
      BY <1>4, <1>5, <1>8, <2>1, <2>4, Zenon
    <2> QED
      BY <2>5 DEF c, d
  <1>9. (p < MaxAssembly /\ q < MaxAssembly) \/ (p < MaxAssembly /\ q >= MaxAssembly) \/ p >= MaxAssembly
    BY <1>3
  <1> QED
    BY <1>6, <1>7, <1>8, <1>9

\* The buffer after an APDU with n bytes of a file from p on.
Received(buffer, f, p, n) == IF n = 0 THEN buffer ELSE Absorbed(buffer, f, p, n)

LEMMA AssembleNone ==
    ASSUME NEW buffer \in Buffers, NEW p
    PROVE  Assemble(buffer, p, << >>) = buffer
  <1> DEFINE first == [data |-> buffer.data, truncated |-> buffer.truncated, full |-> FALSE,
                       position |-> IF p = NoStart THEN Len(buffer.data) ELSE p]
             g == CHOOSE g : Placing(g, first, << >>)
             h == [n \in 0 .. 0 |-> first]
  <1>1. Len(<< >>) = 0
    OBVIOUS
  <1>2. \E k : Placing(k, first, << >>)
    <2> DEFINE x == first
               k == [n \in 0 .. 0 |-> x]
    <2> HIDE DEF x
    <2>1. k = [n \in 0 .. 0 |-> IF n = 0 THEN x ELSE Place(k[n - 1], << >>[n])]
      OBVIOUS
    <2>2. Placing(k, x, << >>)
      BY <1>1, <2>1, Zenon DEF Placing
    <2> QED
      BY <2>2 DEF x
  <1>3. Assemble(buffer, p, << >>) = [data |-> g[Len(<< >>)].data, truncated |-> g[Len(<< >>)].truncated]
    BY Zenon DEF Assemble, Placing
  <1>4. Placing(g, first, << >>)
    BY <1>2
  <1> HIDE DEF g
  <1>5. g[0] = first
    <2> DEFINE x == first
    <2> HIDE DEF x
    <2>1. g = [n \in 0 .. 0 |-> IF n = 0 THEN x ELSE Place(g[n - 1], << >>[n])]
      BY <1>1, <1>4, Zenon DEF Placing, x
    <2>2. 0 \in 0 .. 0
      OBVIOUS
    <2>3. g[0] = x
      BY <2>1, <2>2
    <2> QED
      BY <2>3 DEF x
  <1>6. first.data = buffer.data /\ first.truncated = buffer.truncated
    OBVIOUS
  <1> HIDE DEF first
  <1> QED
    BY <1>1, <1>3, <1>5, <1>6, BufferParts, Zenon

\* What the octet strings of an APDU make of the buffer.
LEMMA ApduReceived ==
    ASSUME NEW buffer \in Buffers, NEW f \in Stored, NEW p \in Nat, NEW n \in Nat, NEW eof,
           NEW apdu \in Apdus(f, p, n, eof)
    PROVE  Assemble(buffer, apdu.start, apdu.chunks) = Received(buffer, f, p, n)
  <1>1. PICK c \in Octets(f, p, n) : apdu = [start |-> p, eof |-> eof, chunks |-> c]
    BY DEF Apdus
  <1>2. apdu.start = p /\ apdu.chunks = c
    BY <1>1
  <1>3. CASE n = 0
    <2>1. c = << >>
      BY <1>3 DEF Octets
    <2> QED
      BY <1>2, <1>3, <2>1, AssembleNone, Zenon DEF Received
  <1>4. CASE n # 0
    <2>1. Received(buffer, f, p, n) = Absorbed(buffer, f, p, n)
      BY <1>4, Zenon DEF Received
    <2>2. Octets(f, p, n) = {<<Bytes(f, p, n)>>}
                              \union {<<Bytes(f, p, k), Bytes(f, p + k, n - k)>> : k \in 1 .. n - 1}
      BY <1>4, Zenon DEF Octets
    <2>3. c = <<Bytes(f, p, n)>> \/ \E k \in 1 .. n - 1 : c = <<Bytes(f, p, k), Bytes(f, p + k, n - k)>>
      BY <2>2, Zenon
    <2>4. CASE c = <<Bytes(f, p, n)>>
      <3>1. n \in Nat \ {0}
        BY <1>4
      <3>2. Assemble(buffer, p, c) = Absorbed(buffer, f, p, n)
        BY <2>4, <3>1, AbsorbedAtOnce, Zenon
      <3> QED
        BY <1>2, <2>1, <3>2, Zenon
    <2>5. CASE \E k \in 1 .. n - 1 : c = <<Bytes(f, p, k), Bytes(f, p + k, n - k)>>
      <3>1. Assemble(buffer, p, c) = Absorbed(buffer, f, p, n)
        BY <2>5, AbsorbedInTwo, Zenon
      <3> QED
        BY <1>2, <2>1, <3>1, Zenon
    <2> QED
      BY <2>3, <2>4, <2>5
  <1> QED
    BY <1>3, <1>4

LEMMA ApduParts ==
    ASSUME NEW f \in Stored, NEW p \in Nat, NEW n \in Nat, NEW eof, NEW apdu \in Apdus(f, p, n, eof)
    PROVE  apdu.eof = eof /\ (apdu.chunks = << >> => n = 0)
  <1>1. PICK c \in Octets(f, p, n) : apdu = [start |-> p, eof |-> eof, chunks |-> c]
    BY DEF Apdus
  <1>2. apdu.eof = eof /\ apdu.chunks = c
    BY <1>1, Zenon
  <1>3. ASSUME c = << >>, n # 0 PROVE FALSE
    <2>1. Octets(f, p, n) = {<<Bytes(f, p, n)>>}
                              \union {<<Bytes(f, p, k), Bytes(f, p + k, n - k)>> : k \in 1 .. n - 1}
      BY <1>3, Zenon DEF Octets
    <2>2. c = <<Bytes(f, p, n)>> \/ \E k \in 1 .. n - 1 : c = <<Bytes(f, p, k), Bytes(f, p + k, n - k)>>
      BY <2>1, Zenon
    <2> QED
      BY <1>3, <2>2
  <1> QED
    BY <1>2, <1>3, Zenon

-----------------------------------------------------------------------------
\* Data with bytes of a file only at their positions.
Placed(f, data) == \A i \in DOMAIN data : data[i] \in {Zero, ByteOf(f, i - 1)}

\* What is in a buffer stays there.
KeepsBytes(old, new) == ToSet(old) \ {Zero} \subseteq ToSet(new)

LEMMA ReceivedType ==
    ASSUME NEW buffer \in Buffers, NEW f \in Stored, NEW p \in Nat, NEW n \in Nat
    PROVE  Received(buffer, f, p, n) \in Buffers
  <1>1. buffer.data \in Seq(Byte) /\ buffer.truncated \in BOOLEAN
    BY BufferParts
  <1>2. p + n \in Nat /\ Fit(p + n) \in Nat
    BY FitIs
  <1> DEFINE d == IF p >= MaxAssembly THEN buffer.data ELSE Laid(buffer.data, f, p, Fit(p + n))
             t == Cut(buffer.truncated, p + n)
  <1>3. d \in Seq(Byte)
    BY <1>1, <1>2, LaidIs
  <1>4. t \in BOOLEAN
    BY <1>1, <1>2, CutIs
  <1>5. Absorbed(buffer, f, p, n) = [data |-> d, truncated |-> t]
    BY Zenon DEF Absorbed
  <1> HIDE DEF d, t
  <1>6. Absorbed(buffer, f, p, n) \in Buffers
    BY <1>3, <1>4, <1>5 DEF Buffers
  <1> QED
    BY <1>6, Zenon DEF Received

LEMMA ReceivedPlaced ==
    ASSUME NEW buffer \in Buffers, NEW f \in Stored, NEW p \in Nat, NEW n \in Nat,
           Placed(f, buffer.data)
    PROVE  Placed(f, Received(buffer, f, p, n).data) /\ KeepsBytes(buffer.data, Received(buffer, f, p, n).data)
  <1> DEFINE data == buffer.data
             e == Fit(p + n)
             x == Laid(data, f, p, e)
             new == Received(buffer, f, p, n).data
  <1>1. data \in Seq(Byte) /\ Len(data) \in Nat /\ DOMAIN data = 1 .. Len(data)
    BY BufferParts, LenProperties
  <1>2. e \in Nat
    BY FitIs
  <1>3. /\ x \in Seq(Byte)
        /\ Len(x) = IF Len(data) >= e THEN Len(data) ELSE e
        /\ \A i \in 1 .. Len(x) : x[i] = IF p < i /\ i <= e THEN ByteOf(f, i - 1)
                                         ELSE IF i <= Len(data) THEN data[i] ELSE Zero
    BY <1>1, <1>2, LaidIs
  <1>4. DOMAIN x = 1 .. Len(x)
    BY <1>3, LenProperties
  <1>5. new = data \/ new = x
    <2>1. n = 0 => new = data
      BY Zenon DEF Received
    <2>2. n # 0 => new = Absorbed(buffer, f, p, n).data
      BY Zenon DEF Received
    <2>3. Absorbed(buffer, f, p, n).data = IF p >= MaxAssembly THEN data ELSE x
      BY DEF Absorbed
    <2> QED
      BY <2>1, <2>2, <2>3, Zenon
  <1> HIDE DEF data, e, x, new, Byte
  <1>6. \A i \in 1 .. Len(data) : data[i] \in {Zero, ByteOf(f, i - 1)}
    BY <1>1 DEF Placed, data
  <1>7. Placed(f, x)
    <2> SUFFICES ASSUME NEW i \in 1 .. Len(x) PROVE x[i] \in {Zero, ByteOf(f, i - 1)}
      BY <1>4 DEF Placed
    <2>1. i <= Len(data) => i \in 1 .. Len(data)
      BY <1>1, <1>2, <1>3
    <2> QED
      BY <1>3, <1>6, <2>1
  <1>8. KeepsBytes(data, x)
    <2> SUFFICES ASSUME NEW i \in 1 .. Len(data), data[i] # Zero PROVE data[i] = x[i] /\ i \in DOMAIN x
      BY <1>1 DEF KeepsBytes, ToSet
    <2>1. i \in 1 .. Len(x) /\ i <= Len(data)
      BY <1>1, <1>2, <1>3
    <2>2. data[i] = ByteOf(f, i - 1)
      BY <1>6
    <2> QED
      BY <1>3, <1>4, <2>1, <2>2
  <1>9. KeepsBytes(data, data)
    BY DEF KeepsBytes
  <1> QED
    BY <1>5, <1>7, <1>8, <1>9 DEF data, new

-----------------------------------------------------------------------------
\* What the first m bytes of a file leave in its buffer.
Partial(f, m) == [data |-> Prefix(f, Fit(m)), truncated |-> m > MaxAssembly]

LEMMA PrefixIs ==
    ASSUME NEW f \in Stored, NEW n \in Nat
    PROVE  /\ Prefix(f, n) \in Seq(Byte) /\ Len(Prefix(f, n)) = n
           /\ \A i \in 1 .. n : Prefix(f, n)[i] = ByteOf(f, i - 1)
  <1>1. /\ Bytes(f, 0, n) \in Seq(Byte) /\ Len(Bytes(f, 0, n)) = n
        /\ \A i \in 1 .. n : Bytes(f, 0, n)[i] = ByteOf(f, 0 + i - 1)
    BY BytesAre
  <1>2. \A i \in 1 .. n : 0 + i - 1 = i - 1
    OBVIOUS
  <1> QED
    BY <1>1, <1>2 DEF Prefix

LEMMA PartialParts ==
    ASSUME NEW f \in Stored, NEW m \in Nat
    PROVE  /\ Partial(f, m) \in Buffers
           /\ Partial(f, m).data = Prefix(f, Fit(m))
           /\ Partial(f, m).truncated = (m > MaxAssembly)
  <1> DEFINE d == Prefix(f, Fit(m))
             t == m > MaxAssembly
  <1>1. d \in Seq(Byte) /\ t \in BOOLEAN
    BY FitIs, PrefixIs
  <1>2. Partial(f, m) = [data |-> d, truncated |-> t]
    BY Zenon DEF Partial
  <1> HIDE DEF d, t
  <1>3. Partial(f, m) \in Buffers /\ Partial(f, m).data = d /\ Partial(f, m).truncated = t
    BY <1>1, <1>2 DEF Buffers
  <1> QED
    BY <1>3, Zenon DEF d, t

\* Bytes put over the first ones of a file, from no later than their end on,
\* make more of them.
LEMMA LaidOnPrefix ==
    ASSUME NEW f \in Stored, NEW a \in Nat, NEW p \in Nat, NEW e \in Nat, p <= a
    PROVE  Laid(Prefix(f, a), f, p, e) = Prefix(f, IF a >= e THEN a ELSE e)
  <1> DEFINE n == IF a >= e THEN a ELSE e
             data == Prefix(f, a)
             x == Laid(data, f, p, e)
             y == Prefix(f, n)
  <1>1. n \in Nat /\ a <= n /\ e <= n
    OBVIOUS
  <1>2. data \in Seq(Byte) /\ Len(data) = a /\ \A i \in 1 .. a : data[i] = ByteOf(f, i - 1)
    BY PrefixIs
  <1>3. y \in Seq(Byte) /\ Len(y) = n /\ \A i \in 1 .. n : y[i] = ByteOf(f, i - 1)
    BY <1>1, PrefixIs
  <1> HIDE DEF data, y, Byte
  <1>4. /\ x \in Seq(Byte) /\ Len(x) = IF Len(data) >= e THEN Len(data) ELSE e
        /\ \A i \in 1 .. Len(x) : x[i] = IF p < i /\ i <= e THEN ByteOf(f, i - 1)
                                         ELSE IF i <= Len(data) THEN data[i] ELSE Zero
    BY <1>2, LaidIs
  <1> HIDE DEF x
  <1>5. Len(x) = n
    BY <1>2, <1>4
  <1>6. ASSUME NEW i \in 1 .. n PROVE x[i] = y[i]
    <2>1. x[i] = IF p < i /\ i <= e THEN ByteOf(f, i - 1)
                 ELSE IF i <= a THEN data[i] ELSE Zero
      BY <1>2, <1>4, <1>5
    <2>2. (p < i /\ i <= e) \/ (i <= a /\ i \in 1 .. a)
      BY <1>1
    <2>3. y[i] = ByteOf(f, i - 1)
      BY <1>3
    <2> QED
      BY <1>2, <2>1, <2>2, <2>3
  <1>7. x = y
    BY <1>3, <1>4, <1>5, <1>6, SeqEqual
  <1> QED
    BY <1>7 DEF x, y, data, n

LEMMA ReceivedOnPartial ==
    ASSUME NEW f \in Stored, NEW m \in Nat, NEW p \in Nat, NEW n \in Nat, p <= m
    PROVE  Received(Partial(f, m), f, p, n) = Partial(f, IF m >= p + n THEN m ELSE p + n)
  <1> DEFINE e == p + n
             k == IF m >= e THEN m ELSE e
             b == Partial(f, m)
  <1>1. e \in Nat /\ k \in Nat /\ MaxAssembly \in Nat /\ m <= k /\ e <= k
    BY BacnetFilesAssumption
  <1>2. CASE n = 0
    <2>1. k = m
      BY <1>1, <1>2
    <2>2. Received(b, f, p, n) = b
      BY <1>2, Zenon DEF Received
    <2> QED
      BY <2>1, <2>2, Zenon
  <1>3. CASE n # 0
    <2> DEFINE d == IF p >= MaxAssembly THEN b.data ELSE Laid(b.data, f, p, Fit(e))
               t == Cut(b.truncated, e)
    <2>1. Received(b, f, p, n) = [data |-> d, truncated |-> t]
      BY <1>3, Zenon DEF Received, Absorbed
    <2>2. b.data = Prefix(f, Fit(m)) /\ b.truncated = (m > MaxAssembly)
      BY PartialParts
    <2>3. d = Prefix(f, Fit(k))
      <3>1. CASE p >= MaxAssembly
        <4>1. Fit(m) = Fit(k)
          BY <1>1, <3>1, FitIs
        <4> QED
          BY <2>2, <3>1, <4>1
      <3>2. CASE ~(p >= MaxAssembly)
        <4>1. /\ p <= Fit(m) /\ Fit(m) \in Nat /\ Fit(e) \in Nat
              /\ Fit(k) = IF Fit(m) >= Fit(e) THEN Fit(m) ELSE Fit(e)
          BY <1>1, <3>2 DEF Fit
        <4>2. d = Laid(Prefix(f, Fit(m)), f, p, Fit(e))
          BY <2>2, <3>2
        <4> HIDE DEF d, e, k
        <4>3. d = Prefix(f, IF Fit(m) >= Fit(e) THEN Fit(m) ELSE Fit(e))
          BY <4>1, <4>2, LaidOnPrefix
        <4> QED
          BY <4>1, <4>3
      <3> QED
        BY <3>1, <3>2
    <2>4. t = (k > MaxAssembly)
      <3>1. (m > MaxAssembly \/ e > MaxAssembly) <=> k > MaxAssembly
        BY <1>1
      <3> DEFINE u == m > MaxAssembly
                 v == e > MaxAssembly
                 w == k > MaxAssembly
      <3>2. t = (b.truncated \/ v)
        BY Zenon DEF Cut
      <3>3. b.truncated = u
        BY <2>2, Zenon
      <3> HIDE DEF t, u, v, w, b, k, e
      <3>4. (u \/ v) = w
        BY <3>1 DEF u, v, w
      <3>5. t = w
        BY <3>2, <3>3, <3>4, Zenon
      <3> QED
        BY <3>5, Zenon DEF w
    <2> HIDE DEF d, t
    <2> QED
      BY <2>1, <2>3, <2>4, Zenon DEF Partial, b, e
  <1> QED
    BY <1>2, <1>3, Zenon

LEMMA PartialPlaced ==
    ASSUME NEW f \in Stored, NEW m \in Nat
    PROVE  Placed(f, Partial(f, m).data)
  <1>1. Partial(f, m).data = Prefix(f, Fit(m)) /\ Fit(m) \in Nat
    BY PartialParts, FitIs
  <1>2. /\ Len(Prefix(f, Fit(m))) = Fit(m)
        /\ \A i \in 1 .. Fit(m) : Prefix(f, Fit(m))[i] = ByteOf(f, i - 1)
        /\ DOMAIN Prefix(f, Fit(m)) = 1 .. Fit(m)
    BY <1>1, PrefixIs, LenProperties
  <1> QED
    BY <1>1, <1>2 DEF Placed

LEMMA NewBufferIs ==
    ASSUME NEW f \in Stored
    PROVE  NewBuffer = Partial(f, 0)
  <1>1. Fit(0) = 0 /\ ~(0 > MaxAssembly)
    BY FitIs
  <1>a. (0 > MaxAssembly) = FALSE
    BY <1>1
  <1>2. Prefix(f, 0) = << >>
    BY PrefixIs, EmptySeq
  <1> QED
    BY <1>1, <1>a, <1>2, Zenon DEF NewBuffer, Partial

-----------------------------------------------------------------------------
\* The keys of the transfers of a file.
ReadKey(f) == [direction |-> "read", src |-> f.server, dst |-> Client, file |-> f.file]
WriteKey(f) == [direction |-> "write", src |-> Client, dst |-> f.server, file |-> f.file]
TransferKeys == {ReadKey(f) : f \in Stored} \union {WriteKey(f) : f \in Stored}

CandidateSet == [key : TransferKeys, data : Seq(Byte), truncated : BOOLEAN]

\* The key of the pending read of a request.
PendingKey(o) == [src |-> Client, dst |-> o.server, invoke |-> o.invoke]

\* A request is for bytes of a file of its server, and no request is for
\* the end of a file alone.
Valid(o, r) ==
    /\ o = [server |-> o.server, invoke |-> o.invoke]
    /\ r.file \in Stored /\ r.file.server = o.server
    /\ r.from \in Nat /\ r.n \in Nat /\ r.from + r.n <= FileLen[r.file]
    /\ r.from < FileLen[r.file] \/ r.from = 0

RequestsInv ==
    /\ asked \in [Stored -> Nat] /\ written \in [Stored -> Nat]
    /\ \A f \in Stored : asked[f] <= FileLen[f] /\ written[f] <= FileLen[f]
    /\ \A o \in DOMAIN outstanding : Valid(o, outstanding[o])

\* A pending read under the invoke ID of a request is that request.
PendingInv ==
    \A o \in DOMAIN outstanding :
        PendingKey(o) \in DOMAIN pending_file_reads =>
            pending_file_reads[PendingKey(o)] = outstanding[o].file.file

\* A buffer, or a candidate, of a transfer.
FitsKey(key, buffer) ==
    key \in TransferKeys /\ buffer \in Buffers /\ Placed(StoredAt(key), buffer.data)
FitsFile(c) == c \in CandidateSet /\ Placed(StoredAt(c.key), c.data)

BuffersInv ==
    /\ IsFiniteSet(DOMAIN file_buffers)
    /\ \A key \in DOMAIN file_buffers : FitsKey(key, file_buffers[key])

CandidatesInv ==
    /\ candidates \in Seq(CandidateSet)
    /\ \A c \in ToSet(candidates) : FitsFile(c)

TransfersInv == RequestsInv /\ PendingInv /\ BuffersInv /\ CandidatesInv

-----------------------------------------------------------------------------
\* Without several requests for a file and without a full table.
Orderly == ~pipelined /\ ~overflowed

\* Where the client resumes: the bytes before are in the buffer.
Resume(position, f) == IF position = FileLen[f] THEN 0 ELSE position

\* The buffer of a read has the bytes before those that are asked for.
ReadsInv ==
    \A f \in Stored :
        /\ Outstanding(f) = {} => BufferFor(ReadKey(f)) = Partial(f, Resume(asked[f], f))
        /\ \A o \in Outstanding(f) :
             /\ Outstanding(f) = {o}
             /\ PendingKey(o) \in DOMAIN pending_file_reads
             /\ BufferFor(ReadKey(f)) = Partial(f, outstanding[o].from)
             /\ asked[f] = outstanding[o].from + outstanding[o].n

\* The buffer of a write that goes on, of one that was whole without an
\* end-of-file mark, and after such a mark.
WrittenTo(f, position, buffer) ==
    \E m \in 0 .. FileLen[f] :
        /\ buffer = Partial(f, m)
        /\ m = position \/ m = FileLen[f] \/ (m = 0 /\ position = FileLen[f])

WritesInv == \A f \in Stored : WrittenTo(f, written[f], BufferFor(WriteKey(f)))

\* A candidate that is what m bytes of its file leave, for all of them or
\* for some.
Leaves(c, m) == [data |-> c.data, truncated |-> c.truncated] = Partial(StoredAt(c.key), m) /\ c.data # << >>
Whole(c) == Leaves(c, FileLen[StoredAt(c.key)])
Part(c) == \E m \in 0 .. FileLen[StoredAt(c.key)] : Leaves(c, m)

WholeInv ==
    Orderly =>
        /\ \A c \in ToSet(candidates) : Part(c)
        /\ ~ended =>
             /\ ReadsInv /\ WritesInv
             /\ \A c \in ToSet(candidates) : Whole(c)

-----------------------------------------------------------------------------
\* A step that makes b of the buffer of a transfer, and hands it over with an
\* end-of-file mark.
Took(key, b, eof) ==
    \/ /\ eof
       /\ file_buffers' = Without(file_buffers, key)
       /\ candidates' = candidates \o Flushed(key, b)
    \/ /\ ~eof
       /\ UNCHANGED candidates
       /\ \/ file_buffers' = Put(file_buffers, key, b)
          \/ UNCHANGED file_buffers /\ b = BufferFor(key)

LEMMA BufferForType ==
    ASSUME BuffersInv, NEW key \in TransferKeys, StoredAt(key) \in Stored
    PROVE  FitsKey(key, BufferFor(key))
  <1>1. CASE key \in DOMAIN file_buffers
    BY <1>1 DEF BuffersInv, BufferFor
  <1>2. CASE key \notin DOMAIN file_buffers
    <2>1. BufferFor(key) = Partial(StoredAt(key), 0)
      BY <1>2, NewBufferIs, Zenon DEF BufferFor
    <2> QED
      BY <2>1, PartialParts, PartialPlaced DEF FitsKey
  <1> QED
    BY <1>1, <1>2

LEMMA AbsorbResult ==
    ASSUME BuffersInv, NEW f \in Stored, NEW key \in TransferKeys, StoredAt(key) = f,
           NEW p \in Nat, NEW n \in Nat, NEW eof \in BOOLEAN, NEW apdu \in Apdus(f, p, n, eof),
           AbsorbFileData(key, apdu)
    PROVE  Took(key, Received(BufferFor(key), f, p, n), eof)
  <1> DEFINE b == Received(BufferFor(key), f, p, n)
  <1>1. BufferFor(key) \in Buffers
    <2>1. FitsKey(key, BufferFor(key))
      BY BufferForType
    <2> QED
      BY <2>1 DEF FitsKey
  <1>2. Assemble(BufferFor(key), apdu.start, apdu.chunks) = b
    BY <1>1, ApduReceived
  <1>3. apdu.eof = eof /\ (apdu.chunks = << >> => n = 0)
    BY ApduParts
  <1>4. CASE IgnoreData(key, apdu)
    <2>1. ~eof /\ n = 0 /\ UNCHANGED <<file_buffers, candidates>>
      BY <1>3, <1>4, Zenon DEF IgnoreData
    <2>2. b = BufferFor(key)
      BY <2>1, Zenon DEF Received
    <2> QED
      BY <2>1, <2>2, Zenon DEF Took
  <1>5. CASE BufferData(key, apdu)
    <2>1. ~eof /\ file_buffers' = Put(file_buffers, key, b) /\ UNCHANGED candidates
      BY <1>2, <1>3, <1>5, Zenon DEF BufferData
    <2> QED
      BY <2>1, Zenon DEF Took
  <1>6. CASE FinishFile(key, apdu)
    <2>1. eof /\ candidates' = candidates \o Flushed(key, b) /\ file_buffers' = Without(file_buffers, key)
      BY <1>2, <1>3, <1>6, Zenon DEF FinishFile
    <2> QED
      BY <2>1, Zenon DEF Took
  <1> QED
    BY <1>4, <1>5, <1>6, Zenon DEF AbsorbFileData

\* The buffers after such a step.
LEMMA TookBuffers ==
    ASSUME NEW key, NEW b, NEW eof \in BOOLEAN, Took(key, b, eof)
    PROVE  /\ \A other : other # key => BufferFor(other)' = BufferFor(other)
           /\ BufferFor(key)' = IF eof THEN NewBuffer ELSE b
  <1>1. CASE eof /\ file_buffers' = Without(file_buffers, key)
    BY <1>1 DEF Without, BufferFor
  <1>2. CASE ~eof /\ file_buffers' = Put(file_buffers, key, b)
    BY <1>2 DEF Put, BufferFor
  <1>3. CASE ~eof /\ file_buffers' = file_buffers /\ b = BufferFor(key)
    <2>1. \A other : BufferFor(other)' = BufferFor(other)
      BY <1>3, Zenon DEF BufferFor
    <2> QED
      BY <1>3, <2>1, Zenon
  <1> QED
    BY <1>1, <1>2, <1>3, Zenon DEF Took

LEMMA TookBuffersInv ==
    ASSUME BuffersInv, NEW key, NEW b, FitsKey(key, b), NEW eof \in BOOLEAN, Took(key, b, eof)
    PROVE  BuffersInv'
  <1>1. CASE eof /\ file_buffers' = Without(file_buffers, key)
    <2>1. /\ DOMAIN file_buffers' = DOMAIN file_buffers \ {key}
          /\ \A k \in DOMAIN file_buffers' : file_buffers'[k] = file_buffers[k]
      BY <1>1 DEF Without
    <2>2. IsFiniteSet(DOMAIN file_buffers')
      BY <2>1, FS_RemoveElement DEF BuffersInv
    <2>3. \A k \in DOMAIN file_buffers' : FitsKey(k, file_buffers'[k])
      BY <2>1 DEF BuffersInv
    <2> QED
      BY <2>2, <2>3, Zenon DEF BuffersInv, FitsKey, Placed, StoredAt
  <1>2. CASE ~eof /\ file_buffers' = Put(file_buffers, key, b)
    <2>1. /\ DOMAIN file_buffers' = DOMAIN file_buffers \union {key}
          /\ \A k \in DOMAIN file_buffers' : file_buffers'[k] = IF k = key THEN b ELSE file_buffers[k]
      BY <1>2 DEF Put
    <2>2. IsFiniteSet(DOMAIN file_buffers')
      BY <2>1, FS_AddElement DEF BuffersInv
    <2>3. \A k \in DOMAIN file_buffers' : FitsKey(k, file_buffers'[k])
      BY <2>1 DEF BuffersInv
    <2> QED
      BY <2>2, <2>3, Zenon DEF BuffersInv, FitsKey, Placed, StoredAt
  <1>3. CASE ~eof /\ file_buffers' = file_buffers
    BY <1>3, Zenon DEF BuffersInv, FitsKey, Placed, StoredAt
  <1> QED
    BY <1>1, <1>2, <1>3, Zenon DEF Took

LEMMA Concatenated ==
    ASSUME NEW S, NEW s \in Seq(S), NEW t \in Seq(S)
    PROVE  s \o t \in Seq(S) /\ ToSet(s \o t) = ToSet(s) \union ToSet(t)
  <1> DEFINE u == s \o t
  <1>1. /\ u \in Seq(S) /\ Len(u) = Len(s) + Len(t)
        /\ \A i \in 1 .. Len(s) + Len(t) : u[i] = IF i <= Len(s) THEN s[i] ELSE t[i - Len(s)]
    BY ConcatProperties
  <1>2. Len(s) \in Nat /\ Len(t) \in Nat /\ DOMAIN s = 1 .. Len(s) /\ DOMAIN t = 1 .. Len(t)
        /\ DOMAIN u = 1 .. Len(u)
    BY <1>1, LenProperties
  <1> HIDE DEF u
  <1>3. ASSUME NEW i \in DOMAIN u PROVE u[i] \in ToSet(s) \union ToSet(t)
    <2>1. CASE i <= Len(s)
      BY <1>1, <1>2, <2>1 DEF ToSet
    <2>2. CASE ~(i <= Len(s))
      <3>1. i - Len(s) \in DOMAIN t /\ u[i] = t[i - Len(s)]
        BY <1>1, <1>2, <2>2
      <3> QED
        BY <3>1 DEF ToSet
    <2> QED
      BY <2>1, <2>2
  <1>4. ASSUME NEW i \in DOMAIN s PROVE s[i] \in ToSet(u)
    <2>1. i \in DOMAIN u /\ u[i] = s[i]
      BY <1>1, <1>2
    <2> QED
      BY <2>1 DEF ToSet
  <1>5. ASSUME NEW i \in DOMAIN t PROVE t[i] \in ToSet(u)
    <2>1. i + Len(s) \in DOMAIN u /\ u[i + Len(s)] = t[i]
      <3>1. i + Len(s) \in 1 .. Len(s) + Len(t) /\ ~(i + Len(s) <= Len(s)) /\ (i + Len(s)) - Len(s) = i
        BY <1>2
      <3> QED
        BY <1>1, <1>2, <3>1
    <2> QED
      BY <2>1 DEF ToSet
  <1>6. ToSet(u) = ToSet(s) \union ToSet(t)
    BY <1>3, <1>4, <1>5 DEF ToSet
  <1> QED
    BY <1>1, <1>6 DEF u

\* The candidate that a buffer becomes, none if it is empty.
LEMMA FlushedIs ==
    ASSUME NEW key, NEW b, FitsKey(key, b)
    PROVE  /\ FitsFile(Candidate(key, b))
           /\ Flushed(key, b) \in Seq(CandidateSet)
           /\ ToSet(Flushed(key, b)) = IF b.data = << >> THEN {} ELSE {Candidate(key, b)}
  <1>1. /\ key \in TransferKeys /\ Placed(StoredAt(key), b.data)
        /\ b.data \in Seq(Byte) /\ b.truncated \in BOOLEAN
    BY BufferParts, Zenon DEF FitsKey
  <1> DEFINE c == Candidate(key, b)
             data == b.data
             t == b.truncated
  <1>2. c = [key |-> key, data |-> data, truncated |-> t]
    BY Zenon DEF Candidate
  <1> HIDE DEF c, data, t
  <1>3. c \in CandidateSet /\ c.key = key /\ c.data = data
    BY <1>1, <1>2 DEF CandidateSet, data, t
  <1>4. FitsFile(c)
    BY <1>1, <1>3, Zenon DEF FitsFile, data
  <1>5. CASE data = << >>
    <2>1. Flushed(key, b) = << >>
      BY <1>5, Zenon DEF Flushed, data
    <2>2. << >> \in Seq(CandidateSet) /\ ToSet(<< >>) = {}
      BY EmptySeq DEF ToSet
    <2> QED
      BY <1>4, <1>5, <2>1, <2>2, Zenon DEF c, data
  <1>6. CASE data # << >>
    <2>1. Flushed(key, b) = <<c>>
      BY <1>6, Zenon DEF Flushed, data, c
    <2>2. <<c>> \in Seq(CandidateSet) /\ ToSet(<<c>>) = {c}
      BY <1>3 DEF ToSet
    <2> QED
      BY <1>4, <1>6, <2>1, <2>2, Zenon DEF c, data
  <1> QED
    BY <1>5, <1>6

LEMMA CandidatesAppend ==
    ASSUME CandidatesInv, NEW new \in Seq(CandidateSet), \A c \in ToSet(new) : FitsFile(c),
           candidates' = candidates \o new
    PROVE  CandidatesInv' /\ ToSet(candidates') = ToSet(candidates) \union ToSet(new)
  <1>1. candidates' \in Seq(CandidateSet) /\ ToSet(candidates') = ToSet(candidates) \union ToSet(new)
    <2>1. candidates \in Seq(CandidateSet)
      BY DEF CandidatesInv
    <2> QED
      BY <2>1, Concatenated
  <1>2. \A c \in ToSet(candidates') : FitsFile(c)
    BY <1>1, Zenon DEF CandidatesInv
  <1>3. CandidatesInv'
    BY <1>1, <1>2, Zenon DEF CandidatesInv, FitsFile, Placed, StoredAt
  <1> QED
    BY <1>1, <1>3

LEMMA TookCandidates ==
    ASSUME CandidatesInv, NEW key, NEW b, FitsKey(key, b), NEW eof \in BOOLEAN, Took(key, b, eof)
    PROVE  /\ CandidatesInv'
           /\ ToSet(candidates') = ToSet(candidates)
                \union (IF eof /\ b.data # << >> THEN {Candidate(key, b)} ELSE {})
  <1>1. CASE eof /\ candidates' = candidates \o Flushed(key, b)
    <2>1. Flushed(key, b) \in Seq(CandidateSet) /\ \A c \in ToSet(Flushed(key, b)) : FitsFile(c)
      BY FlushedIs
    <2>2. CandidatesInv' /\ ToSet(candidates') = ToSet(candidates) \union ToSet(Flushed(key, b))
      BY <1>1, <2>1, CandidatesAppend
    <2>3. ToSet(Flushed(key, b)) = IF eof /\ b.data # << >> THEN {Candidate(key, b)} ELSE {}
      BY <1>1, FlushedIs
    <2> QED
      BY <2>2, <2>3
  <1>2. CASE ~eof /\ candidates' = candidates
    <2>1. CandidatesInv'
      BY <1>2, Zenon DEF CandidatesInv, FitsFile, Placed, StoredAt
    <2> QED
      BY <1>2, <2>1
  <1> QED
    BY <1>1, <1>2, Zenon DEF Took

KeptIn(buffers, files) ==
    (UNION {ToSet(buffers[key].data) : key \in DOMAIN buffers})
      \union (UNION {ToSet(files[i].data) : i \in DOMAIN files})

LEMMA KeptAre ==
    ASSUME NEW buffers, NEW files, NEW x
    PROVE  x \in KeptIn(buffers, files) <=>
             \/ \E key \in DOMAIN buffers : x \in ToSet(buffers[key].data)
             \/ \E c \in ToSet(files) : x \in ToSet(c.data)
  <1> DEFINE A == UNION {ToSet(buffers[key].data) : key \in DOMAIN buffers}
             B == UNION {ToSet(files[i].data) : i \in DOMAIN files}
  <1>1. x \in A <=> \E key \in DOMAIN buffers : x \in ToSet(buffers[key].data)
    OBVIOUS
  <1>2. x \in B <=> \E i \in DOMAIN files : x \in ToSet(files[i].data)
    OBVIOUS
  <1>3. (\E i \in DOMAIN files : x \in ToSet(files[i].data)) <=> \E c \in ToSet(files) : x \in ToSet(c.data)
    BY DEF ToSet
  <1>4. KeptIn(buffers, files) = A \union B
    BY Zenon DEF KeptIn
  <1> HIDE DEF A, B
  <1> QED
    BY <1>1, <1>2, <1>3, <1>4

LEMMA TookKeeps ==
    ASSUME BuffersInv, CandidatesInv, NEW key, NEW b, FitsKey(key, b), NEW eof \in BOOLEAN,
           Took(key, b, eof), KeepsBytes(BufferFor(key).data, b.data)
    PROVE  Kept \ {Zero} \subseteq Kept'
  <1> SUFFICES ASSUME NEW x \in Kept, x # Zero PROVE x \in Kept'
    OBVIOUS
  <1>a. Kept = KeptIn(file_buffers, candidates) /\ Kept' = KeptIn(file_buffers', candidates')
    BY Zenon DEF Kept, KeptIn
  <1>1. \A y : y \in Kept' <=> \/ \E k \in DOMAIN file_buffers' : y \in ToSet(file_buffers'[k].data)
                               \/ \E c \in ToSet(candidates') : y \in ToSet(c.data)
    BY <1>a, KeptAre
  <1>2. CASE \E c \in ToSet(candidates) : x \in ToSet(c.data)
    BY <1>1, <1>2, TookCandidates
  <1>3. ASSUME NEW k \in DOMAIN file_buffers, x \in ToSet(file_buffers[k].data), k # key PROVE x \in Kept'
    <2>1. k \in DOMAIN file_buffers' /\ file_buffers'[k] = file_buffers[k]
      BY <1>3 DEF Took, Without, Put
    <2> QED
      BY <1>1, <1>3, <2>1
  <1>4. ASSUME key \in DOMAIN file_buffers, x \in ToSet(file_buffers[key].data) PROVE x \in Kept'
    <2>1. x \in ToSet(b.data)
      BY <1>4 DEF KeepsBytes, BufferFor
    <2>2. CASE eof
      <3>1. b.data # << >>
        BY <2>1 DEF ToSet
      <3>2. Candidate(key, b) \in ToSet(candidates') /\ Candidate(key, b).data = b.data
        BY <2>2, <3>1, TookCandidates DEF Candidate
      <3> QED
        BY <1>1, <2>1, <3>2
    <2>3. CASE ~eof
      <3>1. key \in DOMAIN file_buffers' /\ file_buffers'[key] = b
        BY <1>4, <2>3 DEF Took, Put, BufferFor
      <3> QED
        BY <1>1, <2>1, <3>1
    <2> QED
      BY <2>2, <2>3
  <1> QED
    BY <1>a, <1>2, <1>3, <1>4, KeptAre

-----------------------------------------------------------------------------
\* A sequence of the members of a finite set without repetition has them all.
LEMMA OrderHasAll ==
    ASSUME NEW S, IsFiniteSet(S), NEW order \in SetToSeqs(S)
    PROVE  /\ DOMAIN order = 1 .. Cardinality(S) /\ Cardinality(S) \in Nat
           /\ \A i \in DOMAIN order : order[i] \in S
           /\ \A x \in S : \E i \in DOMAIN order : order[i] = x
  <1> DEFINE n == Cardinality(S)
             D == 1 .. n
  <1>1. n \in Nat
    BY FS_CardinalityType
  <1>2. order \in [D -> S] /\ \A i, j \in D : i # j => order[i] # order[j]
    BY DEF SetToSeqs
  <1>3. IsFiniteSet(D) /\ Cardinality(D) = n
    BY <1>1, FS_Interval
  <1> HIDE DEF D
  <1>4. order \in Injection(D, S)
    BY <1>2 DEF Injection, IsInjective
  <1>5. order \in Surjection(D, S)
    BY <1>3, <1>4, FS_Injection
  <1>6. \A x \in S : \E i \in D : order[i] = x
    BY <1>5 DEF Surjection
  <1> QED
    BY <1>1, <1>2, <1>6 DEF D

FilledKeys == {key \in DOMAIN file_buffers : file_buffers[key].data # << >>}

\* At the end of the capture each buffer with data becomes a candidate.
LEMMA FinalizeResult ==
    ASSUME BuffersInv, CandidatesInv, FinalizeFiles
    PROVE  /\ BuffersInv' /\ CandidatesInv'
           /\ ToSet(candidates') = ToSet(candidates)
                \union {Candidate(key, file_buffers[key]) : key \in FilledKeys}
  <1> DEFINE S == FilledKeys
  <1>1. PICK order \in SetToSeqs(S) :
          candidates' = candidates \o [i \in DOMAIN order |-> Candidate(order[i], file_buffers[order[i]])]
    BY Zenon DEF FinalizeFiles, FilledKeys
  <1>2. S \in SUBSET DOMAIN file_buffers /\ IsFiniteSet(S)
    <2>1. S \subseteq DOMAIN file_buffers
      BY DEF FilledKeys
    <2> QED
      BY <2>1, FS_Subset DEF BuffersInv
  <1>3. /\ DOMAIN order = 1 .. Cardinality(S) /\ Cardinality(S) \in Nat
        /\ \A i \in DOMAIN order : order[i] \in S
        /\ \A x \in S : \E i \in DOMAIN order : order[i] = x
    BY <1>2, OrderHasAll
  <1> DEFINE F(key) == Candidate(key, file_buffers[key])
             new == [i \in DOMAIN order |-> F(order[i])]
  <1>4. \A key \in S : FitsFile(F(key))
    BY <1>2, FlushedIs DEF BuffersInv
  <1> HIDE DEF F, S
  <1>5. \A i \in DOMAIN order : F(order[i]) \in CandidateSet /\ FitsFile(F(order[i]))
    BY <1>3, <1>4, Zenon DEF FitsFile
  <1>6. new \in Seq(CandidateSet)
    BY <1>3, <1>5
  <1>7. ToSet(new) = {F(key) : key \in S}
    BY <1>3 DEF ToSet
  <1>8. candidates' = candidates \o new
    BY <1>1, Zenon DEF F
  <1>9. \A c \in ToSet(new) : FitsFile(c)
    BY <1>5 DEF ToSet
  <1> HIDE DEF new
  <1>10. CandidatesInv' /\ ToSet(candidates') = ToSet(candidates) \union ToSet(new)
    BY <1>6, <1>8, <1>9, CandidatesAppend
  <1>11. file_buffers' = << >> /\ DOMAIN file_buffers' = {}
    BY DEF FinalizeFiles
  <1>12. BuffersInv'
    BY <1>11, FS_EmptySet DEF BuffersInv
  <1> QED
    BY <1>7, <1>10, <1>12 DEF F, S

LEMMA FinalizeKeeps ==
    ASSUME BuffersInv, CandidatesInv, FinalizeFiles
    PROVE  Kept \subseteq Kept'
  <1> SUFFICES ASSUME NEW x \in Kept PROVE x \in Kept'
    OBVIOUS
  <1>1. Kept = KeptIn(file_buffers, candidates) /\ Kept' = KeptIn(file_buffers', candidates')
    BY Zenon DEF Kept, KeptIn
  <1>2. (\E c \in ToSet(candidates') : x \in ToSet(c.data)) => x \in Kept'
    BY <1>1, KeptAre
  <1>3. CASE \E c \in ToSet(candidates) : x \in ToSet(c.data)
    BY <1>2, <1>3, FinalizeResult
  <1>4. ASSUME NEW key \in DOMAIN file_buffers, x \in ToSet(file_buffers[key].data) PROVE x \in Kept'
    <2>1. file_buffers[key].data # << >>
      BY <1>4 DEF ToSet
    <2>2. Candidate(key, file_buffers[key]) \in ToSet(candidates')
      BY <2>1, FinalizeResult DEF FilledKeys
    <2>3. Candidate(key, file_buffers[key]).data = file_buffers[key].data
      BY DEF Candidate
    <2> QED
      BY <1>2, <1>4, <2>2, <2>3
  <1> QED
    BY <1>1, <1>3, <1>4, KeptAre

-----------------------------------------------------------------------------
LEMMA KeysAre ==
    ASSUME NEW f \in Stored
    PROVE  /\ ReadKey(f) \in TransferKeys /\ StoredAt(ReadKey(f)) = f
           /\ WriteKey(f) \in TransferKeys /\ StoredAt(WriteKey(f)) = f
           /\ f = [server |-> f.server, file |-> f.file]
  <1>1. f = [server |-> f.server, file |-> f.file]
    BY BacnetTransfersAssumption
  <1>2. ReadKey(f) \in TransferKeys /\ WriteKey(f) \in TransferKeys
    BY Zenon DEF TransferKeys
  <1>3. /\ ReadKey(f).direction = "read" /\ ReadKey(f).src = f.server /\ ReadKey(f).file = f.file
        /\ WriteKey(f).direction # "read" /\ WriteKey(f).dst = f.server /\ WriteKey(f).file = f.file
    BY DEF ReadKey, WriteKey
  <1>4. StoredAt(ReadKey(f)) = [server |-> f.server, file |-> f.file]
    BY <1>3, Zenon DEF StoredAt
  <1>5. StoredAt(WriteKey(f)) = [server |-> f.server, file |-> f.file]
    BY <1>3, Zenon DEF StoredAt
  <1> QED
    BY <1>1, <1>2, <1>4, <1>5, Zenon

LEMMA KeysDiffer ==
    ASSUME NEW f \in Stored, NEW g \in Stored
    PROVE  /\ ReadKey(f) # WriteKey(g)
           /\ ReadKey(f) = ReadKey(g) => f = g
           /\ WriteKey(f) = WriteKey(g) => f = g
  <1>1. ReadKey(f).direction = "read" /\ WriteKey(g).direction = "write"
    BY DEF ReadKey, WriteKey
  <1> QED
    BY <1>1, KeysAre, Zenon

\* A transfer of n bytes of its file puts them into the buffer.
Receives(key, f, p, n, eof) == Took(key, Received(BufferFor(key), f, p, n), eof)

LEMMA ReceivedFits ==
    ASSUME BuffersInv, NEW f \in Stored, NEW key \in TransferKeys, StoredAt(key) = f,
           NEW p \in Nat, NEW n \in Nat
    PROVE  LET b == Received(BufferFor(key), f, p, n)
           IN  FitsKey(key, b) /\ KeepsBytes(BufferFor(key).data, b.data)
  <1>1. BufferFor(key) \in Buffers /\ Placed(f, BufferFor(key).data)
    BY BufferForType, Zenon DEF FitsKey
  <1> QED
    BY <1>1, ReceivedType, ReceivedPlaced, Zenon DEF FitsKey

LEMMA ReceivesResult ==
    ASSUME BuffersInv, CandidatesInv, NEW f \in Stored, NEW key \in TransferKeys, StoredAt(key) = f,
           NEW p \in Nat, NEW n \in Nat, NEW eof \in BOOLEAN, Receives(key, f, p, n, eof)
    PROVE  BuffersInv' /\ CandidatesInv' /\ Kept \ {Zero} \subseteq Kept'
  <1> DEFINE b == Received(BufferFor(key), f, p, n)
  <1>1. FitsKey(key, b) /\ KeepsBytes(BufferFor(key).data, b.data)
    BY ReceivedFits
  <1>2. Took(key, b, eof)
    BY DEF Receives
  <1> HIDE DEF b
  <1>3. BuffersInv'
    BY <1>1, <1>2, TookBuffersInv
  <1>4. CandidatesInv'
    BY <1>1, <1>2, TookCandidates
  <1>5. Kept \ {Zero} \subseteq Kept'
    BY <1>1, <1>2, TookKeeps
  <1> QED
    BY <1>3, <1>4, <1>5

\* An acknowledgement is of the bytes that were asked for.
LEMMA AnswerIs ==
    ASSUME TransfersInv, NEW o \in DOMAIN outstanding, Answer(o)
    PROVE  LET r == outstanding[o]
               f == r.file
           IN  \/ UNCHANGED filesVars /\ PendingKey(o) \notin DOMAIN pending_file_reads
               \/ /\ Receives(ReadKey(f), f, r.from, r.n, r.from + r.n = FileLen[f])
                  /\ pending_file_reads' = Without(pending_file_reads, PendingKey(o))
  <1> DEFINE r == outstanding[o]
             f == r.file
             eof == r.from + r.n = FileLen[f]
  <1>1. /\ f \in Stored /\ f.server = o.server /\ r.from \in Nat /\ r.n \in Nat
        /\ (PendingKey(o) \in DOMAIN pending_file_reads =>
              pending_file_reads[PendingKey(o)] = f.file)
    BY DEF TransfersInv, RequestsInv, PendingInv, Valid
  <1>2. PICK apdu \in Apdus(f, r.from, r.n, eof) : ReadFileAck(o.server, Client, o.invoke, apdu)
    BY Zenon DEF Answer
  <1>3. RequestOf(o.server, Client, o.invoke) = PendingKey(o)
    BY Zenon DEF RequestOf, PendingKey
  <1>4. eof \in BOOLEAN
    OBVIOUS
  <1>5. CASE UnmatchedAck(o.server, Client, o.invoke)
    BY <1>3, <1>5, Zenon DEF UnmatchedAck
  <1>6. CASE MatchedAck(o.server, Client, o.invoke, apdu)
    <2> DEFINE key == [direction |-> "read", src |-> o.server, dst |-> Client,
                       file |-> pending_file_reads[PendingKey(o)]]
    <2>1. /\ PendingKey(o) \in DOMAIN pending_file_reads
          /\ AbsorbFileData(key, apdu)
          /\ pending_file_reads' = Without(pending_file_reads, PendingKey(o))
      BY <1>3, <1>6, Zenon DEF MatchedAck
    <2>2. key = ReadKey(f)
      BY <1>1, <2>1, Zenon DEF ReadKey
    <2>3. AbsorbFileData(ReadKey(f), apdu)
      BY <2>1, <2>2, Zenon
    <2>4. ReadKey(f) \in TransferKeys /\ StoredAt(ReadKey(f)) = f
      BY <1>1, KeysAre
    <2> HIDE DEF r, f, eof
    <2>5. Receives(ReadKey(f), f, r.from, r.n, eof)
      BY <1>1, <1>2, <1>4, <2>3, <2>4, AbsorbResult, Zenon DEF TransfersInv, Receives
    <2> QED
      BY <2>1, <2>5, Zenon DEF r, f, eof
  <1> QED
    BY <1>2, <1>5, <1>6, Zenon DEF ReadFileAck

LEMMA WriteIs ==
    ASSUME TransfersInv, NEW f \in Stored, Write(f)
    PROVE  \E n \in Nat \ {0}, eof \in BOOLEAN :
             LET from == Resume(written[f], f)
             IN  /\ from \in Nat /\ from + n <= FileLen[f] /\ (eof => from + n = FileLen[f])
                 /\ written' = [written EXCEPT ![f] = from + n]
                 /\ Receives(WriteKey(f), f, from, n, eof)
                 /\ UNCHANGED pending_file_reads
  <1> DEFINE from == Resume(written[f], f)
  <1>1. written[f] \in Nat /\ written[f] <= FileLen[f] /\ FileLen[f] \in Nat /\ MaxChunk \in Nat
    BY BacnetTransfersAssumption DEF TransfersInv, RequestsInv
  <1>2. from \in Nat /\ from <= FileLen[f]
    BY <1>1 DEF Resume
  <1>3. PICK n \in 1 .. Min({MaxChunk, FileLen[f] - from}) :
          /\ written' = [written EXCEPT ![f] = from + n]
          /\ \E eof \in BOOLEAN :
               /\ eof => from + n = FileLen[f]
               /\ \E apdu \in Apdus(f, from, n, eof) : WriteFileRequest(Client, f.server, f.file, apdu)
    BY Zenon DEF Write, Resume
  <1>4. PICK eof \in BOOLEAN :
          /\ eof => from + n = FileLen[f]
          /\ \E apdu \in Apdus(f, from, n, eof) : WriteFileRequest(Client, f.server, f.file, apdu)
    BY <1>3
  <1>5. PICK apdu \in Apdus(f, from, n, eof) : WriteFileRequest(Client, f.server, f.file, apdu)
    BY <1>4
  <1> HIDE DEF from
  <1>6. n \in Nat \ {0} /\ from + n <= FileLen[f]
    <2>1. Min({MaxChunk, FileLen[f] - from}) \in Int /\ Min({MaxChunk, FileLen[f] - from}) <= FileLen[f] - from
      BY <1>1, <1>2, MinOfTwo
    <2> QED
      BY <1>1, <1>2, <2>1
  <1>7. AbsorbFileData(WriteKey(f), apdu) /\ UNCHANGED pending_file_reads
    BY <1>5, Zenon DEF WriteFileRequest, WriteKey
  <1>8. WriteKey(f) \in TransferKeys /\ StoredAt(WriteKey(f)) = f
    BY KeysAre
  <1>9. Receives(WriteKey(f), f, from, n, eof)
    <2>1. n \in Nat
      BY <1>6
    <2> QED
      BY <1>2, <1>5, <1>7, <1>8, <2>1, AbsorbResult, Zenon DEF TransfersInv, Receives
  <1> QED
    BY <1>2, <1>3, <1>4, <1>6, <1>7, <1>9, Zenon DEF from

-----------------------------------------------------------------------------
LEMMA TransfersInit == ClientInit => TransfersInv
  <1> SUFFICES ASSUME ClientInit PROVE TransfersInv
    OBVIOUS
  <1>1. RequestsInv
    BY BacnetTransfersAssumption DEF ClientInit, RequestsInv
  <1>2. PendingInv
    BY DEF ClientInit, PendingInv
  <1>3. BuffersInv
    BY FS_EmptySet DEF ClientInit, FilesInit, BuffersInv
  <1>4. CandidatesInv
    <2>1. << >> \in Seq(CandidateSet) /\ ToSet(<< >>) = {}
      BY EmptySeq DEF ToSet
    <2> QED
      BY <2>1, Zenon DEF ClientInit, FilesInit, CandidatesInv
  <1> QED
    BY <1>1, <1>2, <1>3, <1>4 DEF TransfersInv

\* What has not been touched keeps its part of the invariant.
LEMMA FilesUnchanged ==
    ASSUME BuffersInv, CandidatesInv, UNCHANGED <<file_buffers, candidates>>
    PROVE  BuffersInv' /\ CandidatesInv' /\ Kept' = Kept
  <1>1. file_buffers' = file_buffers /\ candidates' = candidates
    OBVIOUS
  <1>2. BuffersInv'
    BY <1>1, Zenon DEF BuffersInv, FitsKey, Placed, StoredAt
  <1>3. CandidatesInv'
    BY <1>1, Zenon DEF CandidatesInv, FitsFile, Placed, StoredAt
  <1>4. Kept' = Kept
    BY <1>1, Zenon DEF Kept
  <1> QED
    BY <1>2, <1>3, <1>4

\* A request of the client, for the first time or again.
Requested(o, file) ==
    /\ \/ pending_file_reads' = Put(pending_file_reads, PendingKey(o), file)
       \/ pending_file_reads' = Put(<< >>, PendingKey(o), file)
    /\ UNCHANGED <<file_buffers, candidates>>

LEMMA RequestedPending ==
    ASSUME PendingInv, NEW o, o = [server |-> o.server, invoke |-> o.invoke],
           NEW file, Requested(o, file),
           \A p \in DOMAIN outstanding' :
             /\ p = [server |-> p.server, invoke |-> p.invoke]
             /\ \/ p = o /\ outstanding'[p].file.file = file
                \/ p # o /\ p \in DOMAIN outstanding /\ outstanding'[p] = outstanding[p]
    PROVE  PendingInv'
  <1> SUFFICES ASSUME NEW p \in DOMAIN outstanding', PendingKey(p) \in DOMAIN pending_file_reads'
               PROVE  pending_file_reads'[PendingKey(p)] = outstanding'[p].file.file
    BY Zenon DEF PendingInv, PendingKey
  <1>1. CASE p = o
    <2>1. outstanding'[p].file.file = file
      BY <1>1
    <2>2. pending_file_reads'[PendingKey(o)] = file
      BY DEF Requested, Put
    <2> QED
      BY <1>1, <2>1, <2>2
  <1>2. CASE p # o
    <2>1. /\ p \in DOMAIN outstanding /\ outstanding'[p] = outstanding[p]
          /\ p = [server |-> p.server, invoke |-> p.invoke]
      BY <1>2
    <2>2. PendingKey(p) # PendingKey(o)
      BY <1>2, <2>1 DEF PendingKey
    <2>3. /\ PendingKey(p) \in DOMAIN pending_file_reads
          /\ pending_file_reads'[PendingKey(p)] = pending_file_reads[PendingKey(p)]
      BY <2>2 DEF Requested, Put
    <2> QED
      BY <2>1, <2>3, Zenon DEF PendingInv
  <1> QED
    BY <1>1, <1>2

\* Requests that were dropped leave the others as they are.
LEMMA DroppedPending ==
    ASSUME PendingInv, NEW o,
           outstanding' = Without(outstanding, o),
           \/ UNCHANGED pending_file_reads
           \/ pending_file_reads' = Without(pending_file_reads, PendingKey(o))
    PROVE  PendingInv'
  <1> SUFFICES ASSUME NEW p \in DOMAIN outstanding', PendingKey(p) \in DOMAIN pending_file_reads'
               PROVE  pending_file_reads'[PendingKey(p)] = outstanding'[p].file.file
    BY Zenon DEF PendingInv, PendingKey
  <1>1. p \in DOMAIN outstanding /\ outstanding'[p] = outstanding[p]
    BY DEF Without
  <1>2. /\ PendingKey(p) \in DOMAIN pending_file_reads
        /\ pending_file_reads'[PendingKey(p)] = pending_file_reads[PendingKey(p)]
    BY DEF Without
  <1> QED
    BY <1>1, <1>2, Zenon DEF PendingInv

LEMMA RequestIs ==
    ASSUME TransfersInv, NEW f \in Stored, NEW invoke, Request(f, invoke)
    PROVE  LET o == [server |-> f.server, invoke |-> invoke]
               from == Resume(asked[f], f)
           IN  \E n \in Nat :
                 /\ Requested(o, f.file)
                 /\ o \notin DOMAIN outstanding
                 /\ Outstanding(f) # {} => pipelined
                 /\ from \in Nat /\ from + n <= FileLen[f]
                 /\ from < FileLen[f] \/ from = 0
                 /\ outstanding' = Put(outstanding, o, [file |-> f, from |-> from, n |-> n])
                 /\ asked' = [asked EXCEPT ![f] = from + n]
                 /\ UNCHANGED <<written, pipelined, ended>>
                 /\ overflowed' \/ pending_file_reads' = Put(pending_file_reads, PendingKey(o), f.file)
                 /\ overflowed => overflowed'
  <1> DEFINE o == [server |-> f.server, invoke |-> invoke]
             from == Resume(asked[f], f)
  <1>1. asked[f] \in Nat /\ asked[f] <= FileLen[f] /\ FileLen[f] \in Nat /\ MaxChunk \in Nat
    BY BacnetTransfersAssumption DEF TransfersInv, RequestsInv
  <1>2. from \in Nat /\ from <= FileLen[f] /\ (from < FileLen[f] \/ from = 0)
    BY <1>1 DEF Resume
  <1>3. PICK n \in 0 .. Min({MaxChunk, FileLen[f] - from}) :
          /\ outstanding' = Put(outstanding, o, [file |-> f, from |-> from, n |-> n])
          /\ asked' = [asked EXCEPT ![f] = from + n]
    BY Zenon DEF Request, Resume
  <1>4. /\ o \notin DOMAIN outstanding /\ (Outstanding(f) # {} => pipelined)
        /\ SendRequest(f, invoke) /\ UNCHANGED <<written, pipelined>>
    BY Zenon DEF Request
  <1> HIDE DEF from
  <1>5. n \in Nat /\ from + n <= FileLen[f]
    <2>1. Min({MaxChunk, FileLen[f] - from}) \in Int /\ Min({MaxChunk, FileLen[f] - from}) <= FileLen[f] - from
      BY <1>1, <1>2, MinOfTwo
    <2> QED
      BY <1>1, <1>2, <2>1
  <1>6. PendingKey(o) = [src |-> Client, dst |-> f.server, invoke |-> invoke]
    BY DEF PendingKey
  <1>7. Requested(o, f.file)
    BY <1>4, <1>6, Zenon DEF SendRequest, RememberFileRead, Requested
  <1>8. /\ overflowed' \/ pending_file_reads' = Put(pending_file_reads, PendingKey(o), f.file)
        /\ overflowed => overflowed'
        /\ UNCHANGED ended
    BY <1>4, <1>6, Zenon DEF SendRequest, RememberFileRead, CapturePacket
  <1> QED
    BY <1>2, <1>3, <1>4, <1>5, <1>7, <1>8, Zenon DEF from

LEMMA RequestStep ==
    ASSUME TransfersInv, NEW f \in Stored, NEW invoke, Request(f, invoke)
    PROVE  TransfersInv' /\ Kept' = Kept
  <1> DEFINE o == [server |-> f.server, invoke |-> invoke]
             from == Resume(asked[f], f)
  <1>1. PICK n \in Nat :
          /\ Requested(o, f.file)
          /\ o \notin DOMAIN outstanding
          /\ from \in Nat /\ from + n <= FileLen[f]
          /\ from < FileLen[f] \/ from = 0
          /\ outstanding' = Put(outstanding, o, [file |-> f, from |-> from, n |-> n])
          /\ asked' = [asked EXCEPT ![f] = from + n]
          /\ written' = written
    BY RequestIs
  <1>2. o = [server |-> o.server, invoke |-> o.invoke] /\ o.server = f.server
    OBVIOUS
  <1> DEFINE r == [file |-> f, from |-> from, n |-> n]
  <1>3. r.file = f /\ r.from = from /\ r.n = n
    OBVIOUS
  <1> HIDE DEF o, from, r
  <1>4. Valid(o, r)
    BY <1>1, <1>2, <1>3, Zenon DEF Valid
  <1>5. /\ DOMAIN outstanding' = DOMAIN outstanding \union {o}
        /\ \A p \in DOMAIN outstanding' : outstanding'[p] = IF p = o THEN r ELSE outstanding[p]
    BY <1>1 DEF Put, r
  <1>6. \A p \in DOMAIN outstanding' : Valid(p, outstanding'[p])
    BY <1>4, <1>5 DEF TransfersInv, RequestsInv
  <1>7. asked' \in [Stored -> Nat] /\ \A g \in Stored : asked'[g] <= FileLen[g]
    BY <1>1, BacnetTransfersAssumption DEF TransfersInv, RequestsInv
  <1>8. RequestsInv'
    BY <1>1, <1>6, <1>7, Zenon DEF TransfersInv, RequestsInv, Valid
  <1>9. PendingInv'
    <2>1. \A p \in DOMAIN outstanding' :
             /\ p = [server |-> p.server, invoke |-> p.invoke]
             /\ \/ p = o /\ outstanding'[p].file.file = f.file
                \/ p # o /\ p \in DOMAIN outstanding /\ outstanding'[p] = outstanding[p]
      BY <1>3, <1>5, <1>6 DEF Valid
    <2> QED
      BY <1>1, <1>2, <2>1, RequestedPending DEF TransfersInv
  <1>10. BuffersInv' /\ CandidatesInv' /\ Kept' = Kept
    BY <1>1, FilesUnchanged DEF TransfersInv, Requested
  <1> QED
    BY <1>8, <1>9, <1>10 DEF TransfersInv

LEMMA RepeatIs ==
    ASSUME TransfersInv, NEW o \in DOMAIN outstanding, Repeat(o)
    PROVE  /\ Requested(o, outstanding[o].file.file)
           /\ UNCHANGED <<outstanding, asked, written, pipelined, ended>>
           /\ \/ overflowed'
              \/ pending_file_reads' = Put(pending_file_reads, PendingKey(o), outstanding[o].file.file)
           /\ overflowed => overflowed'
  <1>1. /\ Valid(o, outstanding[o])
        /\ PendingKey(o) = [src |-> Client, dst |-> outstanding[o].file.server, invoke |-> o.invoke]
    BY DEF TransfersInv, RequestsInv, Valid, PendingKey
  <1>2. SendRequest(outstanding[o].file, o.invoke) /\ UNCHANGED clientVars
    BY Zenon DEF Repeat
  <1>3. Requested(o, outstanding[o].file.file)
    BY <1>1, <1>2, Zenon DEF SendRequest, RememberFileRead, Requested
  <1>4. /\ \/ overflowed'
           \/ pending_file_reads' = Put(pending_file_reads, PendingKey(o), outstanding[o].file.file)
        /\ overflowed => overflowed'
        /\ UNCHANGED ended
    BY <1>1, <1>2, Zenon DEF SendRequest, RememberFileRead, CapturePacket
  <1>5. UNCHANGED <<outstanding, asked, written, pipelined>>
    BY <1>2 DEF clientVars
  <1> QED
    BY <1>3, <1>4, <1>5

LEMMA RepeatStep ==
    ASSUME TransfersInv, NEW o \in DOMAIN outstanding, Repeat(o)
    PROVE  TransfersInv' /\ Kept' = Kept
  <1>1. Requested(o, outstanding[o].file.file) /\ outstanding' = outstanding /\ asked' = asked /\ written' = written
    BY RepeatIs
  <1>2. RequestsInv'
    BY <1>1, Zenon DEF TransfersInv, RequestsInv, Valid
  <1>3. PendingInv'
    <2>1. \A p \in DOMAIN outstanding' :
             /\ p = [server |-> p.server, invoke |-> p.invoke]
             /\ \/ p = o /\ outstanding'[p].file.file = outstanding[o].file.file
                \/ p # o /\ p \in DOMAIN outstanding /\ outstanding'[p] = outstanding[p]
      BY <1>1, Zenon DEF TransfersInv, RequestsInv, Valid
    <2>2. o = [server |-> o.server, invoke |-> o.invoke]
      BY Zenon DEF TransfersInv, RequestsInv, Valid
    <2> QED
      BY <1>1, <2>1, <2>2, RequestedPending DEF TransfersInv
  <1>4. BuffersInv' /\ CandidatesInv' /\ Kept' = Kept
    BY <1>1, FilesUnchanged DEF TransfersInv, Requested
  <1> QED
    BY <1>2, <1>3, <1>4 DEF TransfersInv

LEMMA AnswerStep ==
    ASSUME TransfersInv, NEW o \in DOMAIN outstanding, Answer(o)
    PROVE  TransfersInv' /\ Kept \ {Zero} \subseteq Kept'
  <1> DEFINE r == outstanding[o]
             f == r.file
             eof == r.from + r.n = FileLen[f]
  <1>1. outstanding' = Without(outstanding, o) /\ asked' = asked /\ written' = written
    BY Zenon DEF Answer
  <1>2. f \in Stored /\ r.from \in Nat /\ r.n \in Nat /\ eof \in BOOLEAN
    BY DEF TransfersInv, RequestsInv, Valid
  <1>3. \/ UNCHANGED filesVars
        \/ /\ Receives(ReadKey(f), f, r.from, r.n, eof)
           /\ pending_file_reads' = Without(pending_file_reads, PendingKey(o))
    BY AnswerIs
  <1> HIDE DEF r, f, eof
  <1>4. RequestsInv'
    <2>1. DOMAIN outstanding' \subseteq DOMAIN outstanding
          /\ \A p \in DOMAIN outstanding' : outstanding'[p] = outstanding[p]
      BY <1>1 DEF Without
    <2>2. \A p \in DOMAIN outstanding' : Valid(p, outstanding'[p])
      BY <2>1 DEF TransfersInv, RequestsInv
    <2> QED
      BY <1>1, <2>2, Zenon DEF TransfersInv, RequestsInv, Valid
  <1>5. PendingInv'
    <2>1. \/ UNCHANGED pending_file_reads
          \/ pending_file_reads' = Without(pending_file_reads, PendingKey(o))
      BY <1>3 DEF filesVars
    <2> QED
      BY <1>1, <2>1, DroppedPending DEF TransfersInv
  <1>6. BuffersInv' /\ CandidatesInv' /\ Kept \ {Zero} \subseteq Kept'
    <2>1. CASE UNCHANGED filesVars
      BY <2>1, FilesUnchanged DEF TransfersInv, filesVars
    <2>2. CASE Receives(ReadKey(f), f, r.from, r.n, eof)
      BY <1>2, <2>2, KeysAre, ReceivesResult DEF TransfersInv
    <2> QED
      BY <1>3, <2>1, <2>2
  <1> QED
    BY <1>4, <1>5, <1>6 DEF TransfersInv

LEMMA RefuseStep ==
    ASSUME TransfersInv, NEW o \in DOMAIN outstanding, Refuse(o)
    PROVE  TransfersInv' /\ Kept' = Kept
  <1>1. /\ UNCHANGED <<pending_file_reads, file_buffers, candidates>>
        /\ outstanding' = Without(outstanding, o)
        /\ asked' = [asked EXCEPT ![outstanding[o].file] = outstanding[o].from]
        /\ written' = written
    BY DEF Refuse, RefusedRead, filesVars
  <1>2. /\ outstanding[o].file \in Stored /\ outstanding[o].from \in Nat /\ outstanding[o].n \in Nat
        /\ outstanding[o].from + outstanding[o].n <= FileLen[outstanding[o].file]
    BY DEF TransfersInv, RequestsInv, Valid
  <1>3. asked' \in [Stored -> Nat] /\ \A g \in Stored : asked'[g] <= FileLen[g]
    <2> DEFINE f == outstanding[o].file
               p == outstanding[o].from
               n == outstanding[o].n
    <2> HIDE DEF f, p, n
    <2>1. f \in Stored /\ p \in Nat /\ n \in Nat /\ p + n <= FileLen[f] /\ asked' = [asked EXCEPT ![f] = p]
      BY <1>1, <1>2 DEF f, p, n
    <2>2. FileLen[f] \in Nat
      BY <2>1, BacnetTransfersAssumption
    <2>3. p <= FileLen[f]
      BY <2>1, <2>2
    <2> QED
      BY <2>1, <2>3 DEF TransfersInv, RequestsInv
  <1>4. RequestsInv'
    <2>1. DOMAIN outstanding' \subseteq DOMAIN outstanding
          /\ \A p \in DOMAIN outstanding' : outstanding'[p] = outstanding[p]
      BY <1>1 DEF Without
    <2>2. \A p \in DOMAIN outstanding' : Valid(p, outstanding'[p])
      BY <2>1 DEF TransfersInv, RequestsInv
    <2> QED
      BY <1>1, <1>3, <2>2, Zenon DEF TransfersInv, RequestsInv, Valid
  <1>5. PendingInv'
    BY <1>1, DroppedPending DEF TransfersInv
  <1>6. BuffersInv' /\ CandidatesInv' /\ Kept' = Kept
    BY <1>1, FilesUnchanged DEF TransfersInv
  <1> QED
    BY <1>4, <1>5, <1>6 DEF TransfersInv

LEMMA WriteStep ==
    ASSUME TransfersInv, NEW f \in Stored, Write(f)
    PROVE  TransfersInv' /\ Kept \ {Zero} \subseteq Kept'
  <1> DEFINE from == Resume(written[f], f)
  <1>1. PICK n \in Nat \ {0}, eof \in BOOLEAN :
          /\ from \in Nat /\ from + n <= FileLen[f]
          /\ written' = [written EXCEPT ![f] = from + n]
          /\ Receives(WriteKey(f), f, from, n, eof)
          /\ pending_file_reads' = pending_file_reads
    BY WriteIs
  <1>2. outstanding' = outstanding /\ asked' = asked
    BY Zenon DEF Write
  <1> HIDE DEF from
  <1>3. written' \in [Stored -> Nat] /\ \A g \in Stored : written'[g] <= FileLen[g]
    BY <1>1, BacnetTransfersAssumption DEF TransfersInv, RequestsInv
  <1>4. RequestsInv'
    BY <1>2, <1>3, Zenon DEF TransfersInv, RequestsInv, Valid
  <1>5. PendingInv'
    BY <1>1, <1>2, Zenon DEF TransfersInv, PendingInv, PendingKey
  <1>6. BuffersInv' /\ CandidatesInv' /\ Kept \ {Zero} \subseteq Kept'
    <2>1. n \in Nat
      OBVIOUS
    <2> QED
      BY <1>1, <2>1, KeysAre, ReceivesResult DEF TransfersInv
  <1> QED
    BY <1>4, <1>5, <1>6 DEF TransfersInv

LEMMA FinishStep ==
    ASSUME TransfersInv, EndTransfers
    PROVE  TransfersInv' /\ Kept \subseteq Kept'
  <1>1. FinalizeFiles /\ UNCHANGED <<outstanding, asked, written>>
    BY DEF EndTransfers, clientVars
  <1>2. RequestsInv'
    BY <1>1, Zenon DEF TransfersInv, RequestsInv, Valid
  <1>3. PendingInv'
    BY DEF EndTransfers, FinalizeFiles, PendingInv
  <1>4. BuffersInv' /\ CandidatesInv' /\ Kept \subseteq Kept'
    BY <1>1, FinalizeResult, FinalizeKeeps DEF TransfersInv
  <1> QED
    BY <1>2, <1>3, <1>4 DEF TransfersInv

LEMMA TransfersNext ==
    ASSUME TransfersInv, [ClientNext]_transfersVars
    PROVE  TransfersInv' /\ Kept \ {Zero} \subseteq Kept'
  <1>1. ASSUME NEW f \in Stored, Write(f) PROVE TransfersInv' /\ Kept \ {Zero} \subseteq Kept'
    BY <1>1, WriteStep
  <1>2. ASSUME NEW f \in Stored, NEW invoke \in InvokeIds, Request(f, invoke)
        PROVE  TransfersInv' /\ Kept \ {Zero} \subseteq Kept'
    BY <1>2, RequestStep
  <1>3. ASSUME NEW o \in DOMAIN outstanding, Repeat(o)
        PROVE  TransfersInv' /\ Kept \ {Zero} \subseteq Kept'
    BY <1>3, RepeatStep
  <1>4. ASSUME NEW o \in DOMAIN outstanding, Answer(o)
        PROVE  TransfersInv' /\ Kept \ {Zero} \subseteq Kept'
    BY <1>4, AnswerStep
  <1>5. ASSUME NEW o \in DOMAIN outstanding, Refuse(o)
        PROVE  TransfersInv' /\ Kept \ {Zero} \subseteq Kept'
    BY <1>5, RefuseStep
  <1>6. CASE EndTransfers
    BY <1>6, FinishStep
  <1>7. CASE UNCHANGED transfersVars
    <2>1. UNCHANGED <<pending_file_reads, file_buffers, candidates, outstanding, asked, written>>
      BY <1>7 DEF transfersVars, filesVars, clientVars
    <2>2. RequestsInv' /\ PendingInv'
      BY <2>1, Zenon DEF TransfersInv, RequestsInv, PendingInv, Valid, PendingKey
    <2>3. BuffersInv' /\ CandidatesInv' /\ Kept' = Kept
      BY <2>1, FilesUnchanged DEF TransfersInv
    <2> QED
      BY <2>2, <2>3 DEF TransfersInv
  <1> QED
    BY <1>1, <1>2, <1>3, <1>4, <1>5, <1>6, <1>7, Zenon DEF ClientNext

-----------------------------------------------------------------------------
\* Every buffer and every candidate is of a transfer between the client and a
\* server and has bytes of its file at their positions, zeros elsewhere; a
\* pending read is that of the request with its invoke ID.
THEOREM TransfersInvariance == ClientSpec => []TransfersInv
  <1>1. TransfersInv /\ [ClientNext]_transfersVars => TransfersInv'
    BY TransfersNext
  <1> QED
    BY TransfersInit, <1>1, PTL DEF ClientSpec

\* A byte of a transfer is never put where another belongs nor into another
\* file, whatever is repeated, refused, left unanswered or out of order, and
\* wherever the cap cuts (_absorb_file_data, bacnet.py:714-747).
THEOREM BytesInPlaceHolds == ClientSpec => []BytesInPlace
  <1>1. TransfersInv => BytesInPlace
    <2> SUFFICES ASSUME TransfersInv PROVE BytesInPlace
      OBVIOUS
    <2>1. \A key \in DOMAIN file_buffers : InPlace(key, file_buffers[key].data)
      BY Zenon DEF TransfersInv, BuffersInv, FitsKey, Placed, InPlace, ByteOf
    <2>2. \A i \in DOMAIN candidates : candidates[i] \in ToSet(candidates)
      BY DEF ToSet
    <2>3. \A i \in DOMAIN candidates : InPlace(candidates[i].key, candidates[i].data)
      BY <2>2, Zenon DEF TransfersInv, CandidatesInv, FitsFile, Placed, InPlace, ByteOf
    <2> QED
      BY <2>1, <2>3, Zenon DEF BytesInPlace
  <1> QED
    BY TransfersInvariance, <1>1, PTL

\* No step loses a byte that was put in a buffer: it stays there or is handed
\* over, at the latest when the capture ends (bacnet.py:748-772).
THEOREM NoFileByteLostHolds == ClientSpec => NoFileByteLost
  <1>1. TransfersInv /\ [ClientNext]_transfersVars => [Kept \ {Zero} \subseteq Kept']_transfersVars
    BY TransfersNext
  <1> QED
    BY TransfersInvariance, <1>1, PTL DEF ClientSpec, NoFileByteLost

-----------------------------------------------------------------------------
LEMMA CandidateLeaves ==
    ASSUME NEW key \in TransferKeys, StoredAt(key) \in Stored, NEW m \in Nat, NEW b,
           b = Partial(StoredAt(key), m), b.data # << >>
    PROVE  Leaves(Candidate(key, b), m)
  <1> DEFINE d == b.data
             t == b.truncated
             c == Candidate(key, b)
  <1>1. c = [key |-> key, data |-> d, truncated |-> t]
    BY Zenon DEF Candidate
  <1>2. b \in Buffers /\ b = [data |-> d, truncated |-> t]
    BY PartialParts, BufferParts
  <1> HIDE DEF d, t, c
  <1>3. c.key = key /\ c.data = d /\ c.truncated = t
    BY <1>1
  <1>4. [data |-> c.data, truncated |-> c.truncated] = b
    BY <1>2, <1>3
  <1> QED
    BY <1>3, <1>4, Zenon DEF Leaves, c, d

LEMMA TransferKey ==
    ASSUME NEW key \in TransferKeys
    PROVE  \E f \in Stored : (key = ReadKey(f) \/ key = WriteKey(f)) /\ StoredAt(key) = f
  <1>1. PICK f \in Stored : key = ReadKey(f) \/ key = WriteKey(f)
    BY Zenon DEF TransferKeys
  <1> QED
    BY <1>1, KeysAre

\* A capture that is orderly after a step was so before.
LEMMA OrderlyBefore ==
    ASSUME pipelined' = pipelined, overflowed => overflowed', Orderly'
    PROVE  Orderly
  BY Zenon DEF Orderly

LEMMA BuffersStay ==
    ASSUME file_buffers' = file_buffers
    PROVE  \A key : BufferFor(key)' = BufferFor(key)
  BY Zenon DEF BufferFor

\* The requests for a file, and for the others, after those of the client.
LEMMA OutstandingPut ==
    ASSUME NEW o, NEW r, o \notin DOMAIN outstanding, outstanding' = Put(outstanding, o, r)
    PROVE  /\ \A g : Outstanding(g)' = Outstanding(g) \union (IF r.file = g THEN {o} ELSE {})
           /\ outstanding'[o] = r
           /\ \A p \in DOMAIN outstanding : outstanding'[p] = outstanding[p]
  <1>1. /\ DOMAIN outstanding' = DOMAIN outstanding \union {o}
        /\ outstanding'[o] = r
        /\ \A p \in DOMAIN outstanding : outstanding'[p] = outstanding[p]
    BY DEF Put
  <1>2. \A g : Outstanding(g)' = {p \in DOMAIN outstanding' : outstanding'[p].file = g}
    BY DEF Outstanding
  <1>3. \A g : Outstanding(g)' = Outstanding(g) \union (IF r.file = g THEN {o} ELSE {})
    BY <1>1, <1>2 DEF Outstanding
  <1> QED
    BY <1>1, <1>3

LEMMA OutstandingDrop ==
    ASSUME NEW o, outstanding' = Without(outstanding, o)
    PROVE  /\ \A g : Outstanding(g)' = Outstanding(g) \ {o}
           /\ \A p \in DOMAIN outstanding : p # o => outstanding'[p] = outstanding[p]
  <1>1. /\ DOMAIN outstanding' = DOMAIN outstanding \ {o}
        /\ \A p \in DOMAIN outstanding : p # o => outstanding'[p] = outstanding[p]
    BY DEF Without
  <1>2. \A g : Outstanding(g)' = {p \in DOMAIN outstanding' : outstanding'[p].file = g}
    BY DEF Outstanding
  <1>3. \A g : Outstanding(g)' = Outstanding(g) \ {o}
    BY <1>1, <1>2 DEF Outstanding
  <1> QED
    BY <1>1, <1>3

\* What is said of the reads of a file, in one formula.
ReadUpTo(f, requests, requested, pending, buffer, position) ==
    /\ requests = {} => buffer = Partial(f, Resume(position, f))
    /\ \A o \in requests :
         /\ requests = {o}
         /\ PendingKey(o) \in pending
         /\ buffer = Partial(f, requested[o].from)
         /\ position = requested[o].from + requested[o].n

LEMMA ReadsAre ==
    /\ ReadsInv <=> \A f \in Stored :
         ReadUpTo(f, Outstanding(f), outstanding, DOMAIN pending_file_reads, BufferFor(ReadKey(f)), asked[f])
    /\ ReadsInv' <=> \A f \in Stored :
         ReadUpTo(f, Outstanding(f)', outstanding', DOMAIN pending_file_reads', BufferFor(ReadKey(f))', asked'[f])
  <1>1. ReadsInv <=> \A f \in Stored :
         ReadUpTo(f, Outstanding(f), outstanding, DOMAIN pending_file_reads, BufferFor(ReadKey(f)), asked[f])
    BY Zenon DEF ReadsInv, ReadUpTo
  <1>2. ReadsInv' <=> \A f \in Stored :
         ReadUpTo(f, Outstanding(f)', outstanding', DOMAIN pending_file_reads', BufferFor(ReadKey(f))', asked'[f])
    BY Zenon DEF ReadsInv, ReadUpTo, Partial, Resume, PendingKey, Prefix, Bytes, Fit, ReadKey
  <1> QED
    BY <1>1, <1>2

\* What is not of a step stays.
LEMMA ReadStays ==
    ASSUME NEW f, NEW requests, NEW requested, NEW pending, NEW buffer, NEW position,
           ReadUpTo(f, requests, requested, pending, buffer, position),
           NEW requested2, NEW pending2,
           \A o \in requests : requested2[o] = requested[o] /\ (PendingKey(o) \in pending => PendingKey(o) \in pending2)
    PROVE  ReadUpTo(f, requests, requested2, pending2, buffer, position)
  BY DEF ReadUpTo

LEMMA WritesAre ==
    WritesInv' <=> \A f \in Stored : WrittenTo(f, written'[f], BufferFor(WriteKey(f))')
  BY Zenon DEF WritesInv, WrittenTo, Partial, Prefix, Bytes, Fit, WriteKey

LEMMA WholeIs ==
    ASSUME Orderly' => /\ \A c \in ToSet(candidates') : Part(c)
                       /\ ~ended' => /\ ReadsInv' /\ WritesInv'
                                         /\ \A c \in ToSet(candidates') : Whole(c)
    PROVE  WholeInv'
  BY Zenon DEF WholeInv, Part, Whole, Leaves, Partial, Prefix, Bytes, Fit, StoredAt

\* Steps that leave the writes and the candidates alone.
LEMMA OnlyReads ==
    ASSUME WholeInv, Orderly' => Orderly, ~ended, written' = written, candidates' = candidates,
           \A f \in Stored : BufferFor(WriteKey(f))' = BufferFor(WriteKey(f)),
           Orderly' => ReadsInv'
    PROVE  WholeInv'
  <1>1. ASSUME Orderly' PROVE WritesInv'
    <2>1. \A f \in Stored : WrittenTo(f, written[f], BufferFor(WriteKey(f)))
      BY <1>1, Zenon DEF WholeInv, WritesInv
    <2>2. \A f \in Stored : WrittenTo(f, written'[f], BufferFor(WriteKey(f))')
      BY <2>1
    <2> QED
      BY <2>2, WritesAre
  <1>2. Orderly' => \A c \in ToSet(candidates') : Part(c) /\ Whole(c)
    BY Zenon DEF WholeInv
  <1> QED
    BY <1>1, <1>2, WholeIs, Zenon

LEMMA RequestWhole ==
    ASSUME TransfersInv, WholeInv, ~ended, NEW f \in Stored, NEW invoke, Request(f, invoke)
    PROVE  WholeInv'
  <1> DEFINE o == [server |-> f.server, invoke |-> invoke]
             from == Resume(asked[f], f)
  <1>1. PICK n \in Nat :
          /\ Requested(o, f.file)
          /\ o \notin DOMAIN outstanding
          /\ Outstanding(f) # {} => pipelined
          /\ outstanding' = Put(outstanding, o, [file |-> f, from |-> from, n |-> n])
          /\ asked' = [asked EXCEPT ![f] = from + n]
          /\ UNCHANGED <<written, pipelined, ended>>
          /\ overflowed' \/ pending_file_reads' = Put(pending_file_reads, PendingKey(o), f.file)
          /\ overflowed => overflowed'
    BY RequestIs
  <1> DEFINE r == [file |-> f, from |-> from, n |-> n]
  <1>2. r.file = f /\ r.from = from /\ r.n = n
    OBVIOUS
  <1> HIDE DEF o, from, r
  <1>3. Orderly' => Orderly
    BY <1>1, OrderlyBefore
  <1>4. written' = written /\ candidates' = candidates /\ \A key : BufferFor(key)' = BufferFor(key)
    BY <1>1, BuffersStay DEF Requested
  <1>5. /\ \A g : Outstanding(g)' = Outstanding(g) \union (IF r.file = g THEN {o} ELSE {})
        /\ outstanding'[o] = r
        /\ \A p \in DOMAIN outstanding : outstanding'[p] = outstanding[p]
    BY <1>1, OutstandingPut DEF r
  <1>6. ASSUME Orderly' PROVE ReadsInv'
    <2>1. /\ Outstanding(f) = {}
          /\ pending_file_reads' = Put(pending_file_reads, PendingKey(o), f.file)
      BY <1>1, <1>3, <1>6, Zenon DEF Orderly
    <2>2. /\ PendingKey(o) \in DOMAIN pending_file_reads'
          /\ \A key \in DOMAIN pending_file_reads : key \in DOMAIN pending_file_reads'
      BY <2>1 DEF Put
    <2>3. \A g \in Stored :
            ReadUpTo(g, Outstanding(g), outstanding, DOMAIN pending_file_reads, BufferFor(ReadKey(g)), asked[g])
      BY <1>3, <1>6, ReadsAre, Zenon DEF WholeInv
    <2>4. ASSUME NEW g \in Stored
          PROVE  ReadUpTo(g, Outstanding(g)', outstanding', DOMAIN pending_file_reads', BufferFor(ReadKey(g))', asked'[g])
      <3>1. CASE g = f
        <4>1. Outstanding(f)' = {o}
          BY <1>2, <1>5, <2>1
        <4>2. asked'[f] = from + n
          BY <1>1 DEF TransfersInv, RequestsInv
        <4>3. BufferFor(ReadKey(f))' = Partial(f, from)
          BY <1>4, <2>1, <2>3 DEF ReadUpTo, from
        <4>4. ReadUpTo(f, {o}, outstanding', DOMAIN pending_file_reads', BufferFor(ReadKey(f))', asked'[f])
          BY <1>2, <1>5, <2>2, <4>2, <4>3 DEF ReadUpTo
        <4> QED
          BY <3>1, <4>1, <4>4
      <3>2. CASE g # f
        <4>1. Outstanding(g)' = Outstanding(g) /\ BufferFor(ReadKey(g))' = BufferFor(ReadKey(g))
          BY <1>2, <1>4, <1>5, <3>2
        <4>2. asked'[g] = asked[g]
          BY <1>1, <3>2 DEF TransfersInv, RequestsInv
        <4>3. \A p \in Outstanding(g) : p \in DOMAIN outstanding
          BY DEF Outstanding
        <4>4. ReadUpTo(g, Outstanding(g), outstanding', DOMAIN pending_file_reads', BufferFor(ReadKey(g)), asked[g])
          BY <1>5, <2>2, <2>3, <4>3, ReadStays
        <4> QED
          BY <4>1, <4>2, <4>4
      <3> QED
        BY <3>1, <3>2
    <2> QED
      BY <2>4, ReadsAre
  <1> QED
    BY <1>3, <1>4, <1>6, OnlyReads

LEMMA RepeatWhole ==
    ASSUME TransfersInv, WholeInv, ~ended, NEW o \in DOMAIN outstanding, Repeat(o)
    PROVE  WholeInv'
  <1> DEFINE file == outstanding[o].file.file
  <1>1. /\ Requested(o, file)
        /\ UNCHANGED <<outstanding, asked, written, pipelined, ended>>
        /\ overflowed' \/ pending_file_reads' = Put(pending_file_reads, PendingKey(o), file)
        /\ overflowed => overflowed'
    BY RepeatIs
  <1> HIDE DEF file
  <1>2. Orderly' => Orderly
    BY <1>1, OrderlyBefore
  <1>3. written' = written /\ candidates' = candidates /\ \A key : BufferFor(key)' = BufferFor(key)
    BY <1>1, BuffersStay DEF Requested
  <1>4. \A g : Outstanding(g)' = Outstanding(g)
    BY <1>1, Zenon DEF Outstanding
  <1>5. ASSUME Orderly' PROVE ReadsInv'
    <2>1. pending_file_reads' = Put(pending_file_reads, PendingKey(o), file)
      BY <1>1, <1>5, Zenon DEF Orderly
    <2>2. \A key \in DOMAIN pending_file_reads : key \in DOMAIN pending_file_reads'
      BY <2>1 DEF Put
    <2>3. \A g \in Stored :
            ReadUpTo(g, Outstanding(g), outstanding, DOMAIN pending_file_reads, BufferFor(ReadKey(g)), asked[g])
      BY <1>2, <1>5, ReadsAre, Zenon DEF WholeInv
    <2>4. \A g \in Stored :
            ReadUpTo(g, Outstanding(g), outstanding, DOMAIN pending_file_reads', BufferFor(ReadKey(g)), asked[g])
      BY <2>2, <2>3, ReadStays
    <2>5. \A g \in Stored :
            ReadUpTo(g, Outstanding(g)', outstanding', DOMAIN pending_file_reads', BufferFor(ReadKey(g))', asked'[g])
      BY <1>1, <1>3, <1>4, <2>4
    <2> QED
      BY <2>5, ReadsAre
  <1> QED
    BY <1>2, <1>3, <1>5, OnlyReads

LEMMA RefuseWhole ==
    ASSUME TransfersInv, WholeInv, ~ended, NEW o \in DOMAIN outstanding, Refuse(o)
    PROVE  WholeInv'
  <1>0. PICK f \in Stored, from \in Nat : f = outstanding[o].file /\ from = outstanding[o].from
    BY Zenon DEF TransfersInv, RequestsInv, Valid
  <1>1. /\ UNCHANGED <<pending_file_reads, file_buffers, candidates, written, pipelined, overflowed>>
        /\ outstanding' = Without(outstanding, o)
        /\ asked' = [asked EXCEPT ![f] = from]
    BY <1>0 DEF Refuse, RefusedRead, filesVars
  <1>2. /\ f \in Stored /\ from \in Nat /\ (from < FileLen[f] \/ from = 0) /\ FileLen[f] \in Nat
        /\ o \in Outstanding(f)
    BY <1>0, BacnetTransfersAssumption DEF TransfersInv, RequestsInv, Valid, Outstanding
  <1>3. Orderly' => Orderly
    BY <1>1, OrderlyBefore
  <1>4. \A key : BufferFor(key)' = BufferFor(key)
    BY <1>1, BuffersStay
  <1>5. /\ \A g : Outstanding(g)' = Outstanding(g) \ {o}
        /\ \A p \in DOMAIN outstanding : p # o => outstanding'[p] = outstanding[p]
    BY <1>1, OutstandingDrop
  <1>6. ASSUME Orderly' PROVE ReadsInv'
    <2>1. \A g \in Stored :
            ReadUpTo(g, Outstanding(g), outstanding, DOMAIN pending_file_reads, BufferFor(ReadKey(g)), asked[g])
      BY <1>3, <1>6, ReadsAre, Zenon DEF WholeInv
    <2>2. Outstanding(f) = {o} /\ BufferFor(ReadKey(f)) = Partial(f, from)
      BY <1>0, <1>2, <2>1 DEF ReadUpTo
    <2>3. ASSUME NEW g \in Stored
          PROVE  ReadUpTo(g, Outstanding(g)', outstanding', DOMAIN pending_file_reads', BufferFor(ReadKey(g))', asked'[g])
      <3>1. CASE g = f
        <4>1. Outstanding(f)' = {}
          BY <1>5, <2>2
        <4>2. asked'[f] = from
          BY <1>1, <1>2 DEF TransfersInv, RequestsInv
        <4>3. Resume(from, f) = from
          BY <1>2 DEF Resume
        <4>4. BufferFor(ReadKey(f))' = Partial(f, Resume(asked'[f], f))
          BY <1>4, <2>2, <4>2, <4>3
        <4>5. ReadUpTo(f, {}, outstanding', DOMAIN pending_file_reads', BufferFor(ReadKey(f))', asked'[f])
          BY <4>4 DEF ReadUpTo
        <4> QED
          BY <3>1, <4>1, <4>5
      <3>2. CASE g # f
        <4>1. o \notin Outstanding(g)
          BY <1>0, <3>2 DEF Outstanding
        <4>2. Outstanding(g)' = Outstanding(g) /\ BufferFor(ReadKey(g))' = BufferFor(ReadKey(g))
          BY <1>4, <1>5, <4>1
        <4>3. asked'[g] = asked[g]
          BY <1>1, <3>2 DEF TransfersInv, RequestsInv
        <4>4. \A p \in Outstanding(g) : p \in DOMAIN outstanding /\ p # o
          BY <4>1 DEF Outstanding
        <4>5. ReadUpTo(g, Outstanding(g), outstanding', DOMAIN pending_file_reads', BufferFor(ReadKey(g)), asked[g])
          BY <1>1, <1>5, <2>1, <4>4, ReadStays
        <4> QED
          BY <4>2, <4>3, <4>5
      <3> QED
        BY <3>1, <3>2
    <2> QED
      BY <2>3, ReadsAre
  <1> QED
    BY <1>1, <1>3, <1>4, <1>6, OnlyReads

\* The larger of the bytes that were there and those that came.
Upto(m, e) == IF m >= e THEN m ELSE e

\* Bytes of a file that follow those its buffer has, or repeat some of them.
LEMMA PartReceived ==
    ASSUME TransfersInv, NEW f \in Stored, NEW key \in TransferKeys, StoredAt(key) = f,
           NEW m \in 0 .. FileLen[f], BufferFor(key) = Partial(f, m),
           NEW p \in Nat, NEW n \in Nat, p <= m, p + n <= FileLen[f],
           NEW eof \in BOOLEAN, eof => p + n = FileLen[f],
           Receives(key, f, p, n, eof)
    PROVE  /\ Upto(m, p + n) \in 0 .. FileLen[f]
           /\ \A other : other # key => BufferFor(other)' = BufferFor(other)
           /\ BufferFor(key)' = Partial(f, IF eof THEN 0 ELSE Upto(m, p + n))
           /\ \A c \in ToSet(candidates') : c \in ToSet(candidates) \/ (Part(c) /\ Whole(c))
  <1> DEFINE k == Upto(m, p + n)
             b == Partial(f, k)
  <1>1. FileLen[f] \in Nat /\ m \in Nat
    BY BacnetTransfersAssumption
  <1>2. k \in 0 .. FileLen[f] /\ k \in Nat /\ (eof => k = FileLen[f])
    BY <1>1 DEF Upto
  <1>3. Received(BufferFor(key), f, p, n) = b
    BY <1>1, ReceivedOnPartial DEF Upto
  <1>4. FitsKey(key, b)
    BY <1>3, ReceivedFits DEF TransfersInv
  <1>5. Took(key, b, eof)
    BY <1>3 DEF Receives
  <1> HIDE DEF k, b
  <1>6. /\ \A other : other # key => BufferFor(other)' = BufferFor(other)
        /\ BufferFor(key)' = IF eof THEN NewBuffer ELSE b
    BY <1>5, TookBuffers
  <1>7. BufferFor(key)' = Partial(f, IF eof THEN 0 ELSE k)
    BY <1>6, NewBufferIs DEF b
  <1>8. ToSet(candidates') = ToSet(candidates)
          \union (IF eof /\ b.data # << >> THEN {Candidate(key, b)} ELSE {})
    BY <1>4, <1>5, TookCandidates DEF TransfersInv
  <1>9. ASSUME eof, b.data # << >> PROVE Part(Candidate(key, b)) /\ Whole(Candidate(key, b))
    <2>1. b = Partial(StoredAt(key), FileLen[f])
      BY <1>2, <1>9 DEF b
    <2>2. Leaves(Candidate(key, b), FileLen[f])
      BY <1>1, <1>9, <2>1, CandidateLeaves
    <2>3. Candidate(key, b).key = key
      BY DEF Candidate
    <2>4. Whole(Candidate(key, b))
      BY <2>2, <2>3 DEF Whole
    <2>5. FileLen[f] \in 0 .. FileLen[f]
      BY <1>1
    <2> QED
      BY <2>2, <2>3, <2>4, <2>5, Zenon DEF Part
  <1>10. \A c \in ToSet(candidates') : c \in ToSet(candidates) \/ (Part(c) /\ Whole(c))
    BY <1>8, <1>9
  <1> QED
    BY <1>2, <1>6, <1>7, <1>10 DEF k

LEMMA AnswerWhole ==
    ASSUME TransfersInv, WholeInv, ~ended, NEW o \in DOMAIN outstanding, Answer(o)
    PROVE  WholeInv'
  <1>0. PICK f \in Stored, from \in Nat, n \in Nat :
          f = outstanding[o].file /\ from = outstanding[o].from /\ n = outstanding[o].n
    BY Zenon DEF TransfersInv, RequestsInv, Valid
  <1> DEFINE eof == from + n = FileLen[f]
  <1>1. outstanding' = Without(outstanding, o) /\ UNCHANGED <<asked, written, pipelined, overflowed>>
    BY Zenon DEF Answer
  <1>2. \/ UNCHANGED filesVars /\ PendingKey(o) \notin DOMAIN pending_file_reads
        \/ /\ Receives(ReadKey(f), f, from, n, eof)
           /\ pending_file_reads' = Without(pending_file_reads, PendingKey(o))
    BY <1>0, AnswerIs
  <1>3. o \in Outstanding(f) /\ from + n <= FileLen[f] /\ FileLen[f] \in Nat /\ eof \in BOOLEAN
    BY <1>0, BacnetTransfersAssumption DEF TransfersInv, RequestsInv, Valid, Outstanding
  <1>4. Orderly' => Orderly
    BY <1>1, OrderlyBefore
  <1>5. /\ \A g : Outstanding(g)' = Outstanding(g) \ {o}
        /\ \A p \in DOMAIN outstanding : p # o => outstanding'[p] = outstanding[p]
    BY <1>1, OutstandingDrop
  <1>6. ASSUME Orderly'
        PROVE  /\ ReadsInv' /\ WritesInv'
               /\ \A c \in ToSet(candidates') : Part(c) /\ Whole(c)
    <2>1. \A g \in Stored :
            ReadUpTo(g, Outstanding(g), outstanding, DOMAIN pending_file_reads, BufferFor(ReadKey(g)), asked[g])
      BY <1>4, <1>6, ReadsAre, Zenon DEF WholeInv
    <2>2. /\ Outstanding(f) = {o} /\ PendingKey(o) \in DOMAIN pending_file_reads
          /\ BufferFor(ReadKey(f)) = Partial(f, from) /\ asked[f] = from + n
      BY <1>0, <1>3, <2>1 DEF ReadUpTo
    <2>3. /\ Receives(ReadKey(f), f, from, n, eof)
          /\ pending_file_reads' = Without(pending_file_reads, PendingKey(o))
      BY <1>2, <2>2
    <2> HIDE DEF eof
    <2>4. from \in 0 .. FileLen[f] /\ (eof => from + n = FileLen[f]) /\ from <= from
      BY <1>3 DEF eof
    <2>5. ReadKey(f) \in TransferKeys /\ StoredAt(ReadKey(f)) = f
      BY KeysAre
    <2>6. /\ \A other : other # ReadKey(f) => BufferFor(other)' = BufferFor(other)
          /\ BufferFor(ReadKey(f))' = Partial(f, IF eof THEN 0 ELSE Upto(from, from + n))
          /\ \A c \in ToSet(candidates') : c \in ToSet(candidates) \/ (Part(c) /\ Whole(c))
      BY <1>3, <2>2, <2>3, <2>4, <2>5, PartReceived
    <2>7. (IF eof THEN 0 ELSE Upto(from, from + n)) = Resume(asked[f], f)
      BY <1>3, <2>2 DEF eof, Upto, Resume
    <2>8. ASSUME NEW g \in Stored
          PROVE  ReadUpTo(g, Outstanding(g)', outstanding', DOMAIN pending_file_reads', BufferFor(ReadKey(g))', asked'[g])
      <3>1. CASE g = f
        <4>1. Outstanding(f)' = {}
          BY <1>5, <2>2
        <4>2. BufferFor(ReadKey(f))' = Partial(f, Resume(asked'[f], f))
          BY <1>1, <2>6, <2>7
        <4>3. ReadUpTo(f, {}, outstanding', DOMAIN pending_file_reads', BufferFor(ReadKey(f))', asked'[f])
          BY <4>2 DEF ReadUpTo
        <4> QED
          BY <3>1, <4>1, <4>3
      <3>2. CASE g # f
        <4>1. o \notin Outstanding(g)
          BY <1>0, <3>2 DEF Outstanding
        <4>2. ReadKey(g) # ReadKey(f)
          BY <3>2, KeysDiffer
        <4>3. Outstanding(g)' = Outstanding(g) /\ BufferFor(ReadKey(g))' = BufferFor(ReadKey(g))
          BY <1>5, <2>6, <4>1, <4>2
        <4>4. \A p \in Outstanding(g) : p \in DOMAIN outstanding /\ p # o
          BY <4>1 DEF Outstanding
        <4>5. \A p \in Outstanding(g) : PendingKey(p) # PendingKey(o)
          <5>1. \A p \in DOMAIN outstanding : p = [server |-> p.server, invoke |-> p.invoke]
            BY DEF TransfersInv, RequestsInv, Valid
          <5>2. \A p : PendingKey(p).dst = p.server /\ PendingKey(p).invoke = p.invoke
            BY DEF PendingKey
          <5> SUFFICES ASSUME NEW p \in Outstanding(g), PendingKey(p) = PendingKey(o) PROVE FALSE
            OBVIOUS
          <5>3. p \in DOMAIN outstanding /\ p # o
            BY <4>4
          <5>4. p.server = o.server /\ p.invoke = o.invoke
            BY <5>2
          <5> QED
            BY <5>1, <5>3, <5>4, Zenon
        <4>6. \A p \in Outstanding(g) :
                PendingKey(p) \in DOMAIN pending_file_reads => PendingKey(p) \in DOMAIN pending_file_reads'
          BY <2>3, <4>5 DEF Without
        <4>7. ReadUpTo(g, Outstanding(g), outstanding', DOMAIN pending_file_reads', BufferFor(ReadKey(g)), asked[g])
          BY <1>5, <2>1, <4>4, <4>6, ReadStays
        <4> QED
          BY <1>1, <4>3, <4>7
      <3> QED
        BY <3>1, <3>2
    <2>9. \A g \in Stored : WrittenTo(g, written'[g], BufferFor(WriteKey(g))')
      <3>1. \A g \in Stored : WriteKey(g) # ReadKey(f)
        BY KeysDiffer
      <3>2. \A g \in Stored : WrittenTo(g, written[g], BufferFor(WriteKey(g)))
        BY <1>4, <1>6, Zenon DEF WholeInv, WritesInv
      <3> QED
        BY <1>1, <2>6, <3>1, <3>2
    <2>10. \A c \in ToSet(candidates') : Part(c) /\ Whole(c)
      BY <1>4, <1>6, <2>6, Zenon DEF WholeInv
    <2> QED
      BY <2>8, <2>9, <2>10, ReadsAre, WritesAre
  <1> QED
    BY <1>6, WholeIs

LEMMA WriteWhole ==
    ASSUME TransfersInv, WholeInv, ~ended, NEW f \in Stored, Write(f)
    PROVE  WholeInv'
  <1>0. PICK from \in Nat : from = Resume(written[f], f)
    BY WriteIs
  <1>1. PICK n \in Nat \ {0}, eof \in BOOLEAN :
          /\ from + n <= FileLen[f] /\ (eof => from + n = FileLen[f])
          /\ written' = [written EXCEPT ![f] = from + n]
          /\ Receives(WriteKey(f), f, from, n, eof)
          /\ pending_file_reads' = pending_file_reads
    BY <1>0, WriteIs
  <1>2. UNCHANGED <<outstanding, asked, pipelined, overflowed>>
    BY Zenon DEF Write
  <1>3. Orderly' => Orderly
    BY <1>2, OrderlyBefore
  <1>4. FileLen[f] \in Nat /\ n \in Nat
    BY BacnetTransfersAssumption
  <1>5. ASSUME Orderly'
        PROVE  /\ ReadsInv' /\ WritesInv'
               /\ \A c \in ToSet(candidates') : Part(c) /\ Whole(c)
    <2>1. \A g \in Stored : WrittenTo(g, written[g], BufferFor(WriteKey(g)))
      BY <1>3, <1>5, Zenon DEF WholeInv, WritesInv
    <2>2. PICK m \in 0 .. FileLen[f] :
            /\ BufferFor(WriteKey(f)) = Partial(f, m)
            /\ m = written[f] \/ m = FileLen[f] \/ (m = 0 /\ written[f] = FileLen[f])
      BY <2>1 DEF WrittenTo
    <2>3. from <= m /\ m \in Nat /\ (m = FileLen[f] \/ m = from)
      BY <1>0, <1>1, <1>4, <2>2 DEF Resume
    <2>4. WriteKey(f) \in TransferKeys /\ StoredAt(WriteKey(f)) = f
      BY KeysAre
    <2>5. /\ Upto(m, from + n) \in 0 .. FileLen[f]
          /\ \A other : other # WriteKey(f) => BufferFor(other)' = BufferFor(other)
          /\ BufferFor(WriteKey(f))' = Partial(f, IF eof THEN 0 ELSE Upto(m, from + n))
          /\ \A c \in ToSet(candidates') : c \in ToSet(candidates) \/ (Part(c) /\ Whole(c))
      BY <1>1, <1>4, <2>2, <2>3, <2>4, PartReceived
    <2>6. ASSUME NEW g \in Stored
          PROVE  WrittenTo(g, written'[g], BufferFor(WriteKey(g))')
      <3>1. CASE g = f
        <4> DEFINE k == IF eof THEN 0 ELSE Upto(m, from + n)
        <4>1. written'[f] = from + n
          BY <1>1 DEF TransfersInv, RequestsInv
        <4>2. k \in 0 .. FileLen[f] /\ (k = from + n \/ k = FileLen[f] \/ (k = 0 /\ from + n = FileLen[f]))
          BY <1>1, <1>4, <2>3, <2>5 DEF Upto
        <4>3. BufferFor(WriteKey(f))' = Partial(f, k)
          BY <2>5
        <4> HIDE DEF k
        <4>4. WrittenTo(f, written'[f], BufferFor(WriteKey(f))')
          BY <4>1, <4>2, <4>3, Zenon DEF WrittenTo
        <4> QED
          BY <3>1, <4>4
      <3>2. CASE g # f
        <4>1. WriteKey(g) # WriteKey(f)
          BY <3>2, KeysDiffer
        <4>2. written'[g] = written[g]
          BY <1>1, <3>2 DEF TransfersInv, RequestsInv
        <4> QED
          BY <2>1, <2>5, <4>1, <4>2
      <3> QED
        BY <3>1, <3>2
    <2>7. \A g \in Stored :
            ReadUpTo(g, Outstanding(g)', outstanding', DOMAIN pending_file_reads', BufferFor(ReadKey(g))', asked'[g])
      <3>1. \A g \in Stored :
              ReadUpTo(g, Outstanding(g), outstanding, DOMAIN pending_file_reads, BufferFor(ReadKey(g)), asked[g])
        BY <1>3, <1>5, ReadsAre, Zenon DEF WholeInv
      <3>2. \A g \in Stored : BufferFor(ReadKey(g))' = BufferFor(ReadKey(g))
        BY <2>5, KeysDiffer
      <3>3. \A g \in Stored : Outstanding(g)' = Outstanding(g)
        BY <1>2, Zenon DEF Outstanding
      <3> QED
        BY <1>1, <1>2, <3>1, <3>2, <3>3
    <2>8. \A c \in ToSet(candidates') : Part(c) /\ Whole(c)
      BY <1>3, <1>5, <2>5, Zenon DEF WholeInv
    <2> QED
      BY <2>6, <2>7, <2>8, ReadsAre, WritesAre
  <1> QED
    BY <1>5, WholeIs

LEMMA FinishWhole ==
    ASSUME TransfersInv, WholeInv, EndTransfers
    PROVE  WholeInv'
  <1>1. ~ended /\ ended' /\ FinalizeFiles /\ UNCHANGED <<pipelined, overflowed>>
    BY DEF EndTransfers, clientVars
  <1>2. Orderly' => Orderly
    BY <1>1, OrderlyBefore
  <1>3. ToSet(candidates') = ToSet(candidates)
          \union {Candidate(key, file_buffers[key]) : key \in FilledKeys}
    BY <1>1, FinalizeResult DEF TransfersInv
  <1>4. ASSUME Orderly', NEW key \in FilledKeys PROVE Part(Candidate(key, file_buffers[key]))
    <2>1. /\ key \in DOMAIN file_buffers /\ file_buffers[key].data # << >>
          /\ key \in TransferKeys /\ BufferFor(key) = file_buffers[key]
      BY DEF FilledKeys, TransfersInv, BuffersInv, FitsKey, BufferFor
    <2>2. PICK f \in Stored : (key = ReadKey(f) \/ key = WriteKey(f)) /\ StoredAt(key) = f
      BY <2>1, TransferKey
    <2>3. FileLen[f] \in Nat
      BY BacnetTransfersAssumption
    <2>4. \E m \in 0 .. FileLen[f] : BufferFor(key) = Partial(f, m)
      <3>1. CASE key = WriteKey(f)
        BY <1>1, <1>2, <1>4, <3>1, Zenon DEF WholeInv, WritesInv, WrittenTo
      <3>2. CASE key = ReadKey(f) /\ Outstanding(f) = {}
        <4>1. BufferFor(key) = Partial(f, Resume(asked[f], f))
          BY <1>1, <1>2, <1>4, <3>2, Zenon DEF WholeInv, ReadsInv
        <4>2. Resume(asked[f], f) \in 0 .. FileLen[f]
          BY <2>3 DEF Resume, TransfersInv, RequestsInv
        <4> QED
          BY <4>1, <4>2
      <3>3. ASSUME key = ReadKey(f), NEW o \in Outstanding(f)
            PROVE  \E m \in 0 .. FileLen[f] : BufferFor(key) = Partial(f, m)
        <4>1. BufferFor(key) = Partial(f, outstanding[o].from)
          BY <1>1, <1>2, <1>4, <3>3, Zenon DEF WholeInv, ReadsInv
        <4>2. o \in DOMAIN outstanding /\ outstanding[o].file = f
          BY DEF Outstanding
        <4>3. outstanding[o].from \in 0 .. FileLen[f]
          BY <2>3, <4>2 DEF TransfersInv, RequestsInv, Valid
        <4> QED
          BY <4>1, <4>3
      <3> QED
        BY <2>2, <3>1, <3>2, <3>3
    <2>5. PICK m \in 0 .. FileLen[f] : file_buffers[key] = Partial(f, m)
      BY <2>1, <2>4
    <2>6. m \in Nat
      BY <2>3
    <2>7. Leaves(Candidate(key, file_buffers[key]), m)
      BY <2>1, <2>2, <2>5, <2>6, CandidateLeaves
    <2>8. Candidate(key, file_buffers[key]).key = key
      BY DEF Candidate
    <2> QED
      BY <2>2, <2>7, <2>8, Zenon DEF Part
  <1>5. Orderly' => \A c \in ToSet(candidates') : Part(c)
    BY <1>2, <1>3, <1>4, Zenon DEF WholeInv
  <1> QED
    BY <1>1, <1>5, WholeIs

LEMMA WholeNext ==
    ASSUME TransfersInv, WholeInv, [ClientNext]_transfersVars
    PROVE  WholeInv'
  <1>1. ASSUME NEW f \in Stored, Write(f) PROVE WholeInv'
    BY <1>1, WriteWhole DEF Write, CapturePacket
  <1>2. ASSUME NEW f \in Stored, NEW invoke \in InvokeIds, Request(f, invoke) PROVE WholeInv'
    BY <1>2, RequestWhole, Zenon DEF Request, SendRequest, CapturePacket
  <1>3. ASSUME NEW o \in DOMAIN outstanding, Repeat(o) PROVE WholeInv'
    BY <1>3, RepeatWhole, Zenon DEF Repeat, SendRequest, CapturePacket
  <1>4. ASSUME NEW o \in DOMAIN outstanding, Answer(o) PROVE WholeInv'
    BY <1>4, AnswerWhole, Zenon DEF Answer, CapturePacket
  <1>5. ASSUME NEW o \in DOMAIN outstanding, Refuse(o) PROVE WholeInv'
    BY <1>5, RefuseWhole, Zenon DEF Refuse, CapturePacket
  <1>6. CASE EndTransfers
    BY <1>6, FinishWhole
  <1>7. CASE UNCHANGED transfersVars
    <2>1. /\ UNCHANGED <<pending_file_reads, file_buffers, candidates>>
          /\ UNCHANGED <<outstanding, asked, written, pipelined, overflowed, ended>>
      BY <1>7 DEF transfersVars, filesVars, clientVars
    <2>2. Orderly' => Orderly
      BY <2>1, OrderlyBefore
    <2>3. ReadsInv => ReadsInv'
      <3>1. \A g : BufferFor(ReadKey(g))' = BufferFor(ReadKey(g)) /\ Outstanding(g)' = Outstanding(g)
        BY <2>1, BuffersStay, Zenon DEF Outstanding
      <3> QED
        BY <2>1, <3>1, ReadsAre
    <2>4. WritesInv => WritesInv'
      <3>1. \A g : BufferFor(WriteKey(g))' = BufferFor(WriteKey(g))
        BY <2>1, BuffersStay
      <3> QED
        BY <2>1, <3>1, WritesAre DEF WritesInv
    <2> QED
      BY <2>1, <2>2, <2>3, <2>4, WholeIs, Zenon DEF WholeInv
  <1> QED
    BY <1>1, <1>2, <1>3, <1>4, <1>5, <1>6, <1>7, Zenon DEF ClientNext

LEMMA WholeInit == ClientInit => WholeInv
  <1> SUFFICES ASSUME ClientInit PROVE WholeInv
    OBVIOUS
  <1>1. ToSet(candidates) = {}
    BY DEF ClientInit, FilesInit, ToSet
  <1>2. ASSUME NEW f \in Stored
        PROVE  /\ Outstanding(f) = {}
               /\ \A key : BufferFor(key) = Partial(f, 0)
               /\ asked[f] = 0 /\ written[f] = 0 /\ FileLen[f] \in Nat
    <2>1. Outstanding(f) = {} /\ asked[f] = 0 /\ written[f] = 0 /\ FileLen[f] \in Nat
      BY BacnetTransfersAssumption DEF ClientInit, Outstanding
    <2>2. \A key : BufferFor(key) = NewBuffer
      BY DEF ClientInit, FilesInit, BufferFor
    <2> QED
      BY <2>1, <2>2, NewBufferIs
  <1>3. ReadsInv
    BY <1>2 DEF ReadsInv, Resume
  <1>4. WritesInv
    BY <1>2 DEF WritesInv, WrittenTo
  <1> QED
    BY <1>1, <1>3, <1>4 DEF WholeInv

\* What a candidate that has m bytes of its file says of it.
LEMMA LeavesWhole ==
    ASSUME NEW c, StoredAt(c.key) \in Stored, NEW m \in 0 .. FileLen[StoredAt(c.key)], Leaves(c, m)
    PROVE  LET f == StoredAt(c.key)
               whole == Min({FileLen[f], MaxAssembly})
           IN  /\ \E n \in 1 .. whole : c.data = Prefix(f, n)
               /\ c.truncated => Len(c.data) = MaxAssembly /\ FileLen[f] > MaxAssembly
               /\ m = FileLen[f] => Len(c.data) = whole /\ (FileLen[f] > MaxAssembly => c.truncated)
  <1> DEFINE f == StoredAt(c.key)
             whole == Min({FileLen[f], MaxAssembly})
             d == c.data
             t == c.truncated
  <1>1. [data |-> d, truncated |-> t] = Partial(f, m) /\ d # << >>
    BY Zenon DEF Leaves
  <1>2. FileLen[f] \in Nat /\ MaxAssembly \in Nat /\ m \in Nat /\ m <= FileLen[f]
    BY BacnetTransfersAssumption, BacnetFilesAssumption
  <1>3. whole \in Nat /\ whole = IF FileLen[f] <= MaxAssembly THEN FileLen[f] ELSE MaxAssembly
    BY <1>2, MinOfTwo
  <1> HIDE DEF whole, d, t
  <1>4. /\ Partial(f, m).data = Prefix(f, Fit(m))
        /\ Partial(f, m).truncated = (m > MaxAssembly)
    BY <1>2, PartialParts
  <1>5. d = Prefix(f, Fit(m)) /\ t = (m > MaxAssembly)
    <2>1. [data |-> d, truncated |-> t].data = d /\ [data |-> d, truncated |-> t].truncated = t
      BY Zenon
    <2> QED
      BY <1>1, <1>4, <2>1
  <1>6. Fit(m) \in Nat /\ Fit(m) <= whole
    BY <1>2, <1>3 DEF Fit
  <1>7. Len(d) = Fit(m)
    BY <1>5, <1>6, PrefixIs
  <1>8. Fit(m) # 0
    BY <1>1, <1>5, <1>6, PrefixIs, EmptySeq
  <1>9. \E n \in 1 .. whole : d = Prefix(f, n)
    BY <1>3, <1>5, <1>6, <1>8
  <1>10. t => Len(d) = MaxAssembly /\ FileLen[f] > MaxAssembly
    <2>1. m > MaxAssembly => Len(d) = MaxAssembly /\ FileLen[f] > MaxAssembly
      BY <1>2, <1>7 DEF Fit
    <2> QED
      BY <1>5, <2>1, Zenon
  <1>11. m = FileLen[f] => Len(d) = whole /\ (FileLen[f] > MaxAssembly => t)
    <2>1. m = FileLen[f] => Len(d) = whole
      BY <1>2, <1>3, <1>7 DEF Fit
    <2>2. m = FileLen[f] /\ FileLen[f] > MaxAssembly => m > MaxAssembly
      OBVIOUS
    <2> QED
      BY <1>5, <2>1, <2>2, Zenon
  <1> QED
    BY <1>9, <1>10, <1>11, Zenon DEF d, t, whole

\* A file that is transferred chunk after chunk is handed over whole, or cut
\* at the cap and marked as truncated, whatever is repeated or refused
\* between; at the end of the capture, what has been transferred of it
\* (_absorb_file_data and finalize, bacnet.py:714-772).
THEOREM WholeFilesHolds == ClientSpec => []WholeFiles
  <1>1. TransfersInv /\ WholeInv => WholeFiles
    <2> SUFFICES ASSUME TransfersInv, WholeInv, ~pipelined, ~overflowed, NEW i \in DOMAIN candidates
                 PROVE  LET c == candidates[i]
                            f == StoredAt(c.key)
                            whole == Min({FileLen[f], MaxAssembly})
                        IN  /\ \E n \in 1 .. whole : c.data = Prefix(f, n)
                            /\ c.truncated => Len(c.data) = MaxAssembly /\ FileLen[f] > MaxAssembly
                            /\ ~ended => Len(c.data) = whole /\ (FileLen[f] > MaxAssembly => c.truncated)
      BY Zenon DEF WholeFiles
    <2> DEFINE c == candidates[i]
    <2>1. c \in ToSet(candidates)
      BY DEF ToSet
    <2>2. c.key \in TransferKeys
      <3>1. c \in CandidateSet
        BY <2>1, Zenon DEF TransfersInv, CandidatesInv, FitsFile
      <3> HIDE DEF c
      <3> QED
        BY <3>1 DEF CandidateSet
    <2>3. StoredAt(c.key) \in Stored
      BY <2>2, TransferKey
    <2>4. Part(c) /\ (~ended => Whole(c))
      BY <2>1, Zenon DEF WholeInv, Orderly
    <2> HIDE DEF c
    <2>5. PICK m \in 0 .. FileLen[StoredAt(c.key)] :
            Leaves(c, m) /\ (~ended => m = FileLen[StoredAt(c.key)])
      <3>1. CASE ended
        BY <2>4, <3>1, Zenon DEF Part
      <3>2. CASE ~ended
        <4>1. FileLen[StoredAt(c.key)] \in 0 .. FileLen[StoredAt(c.key)]
          BY <2>3, BacnetTransfersAssumption
        <4> QED
          BY <2>4, <3>2, <4>1, Zenon DEF Whole
      <3> QED
        BY <3>1, <3>2
    <2> QED
      BY <2>3, <2>5, LeavesWhole, Zenon DEF c
  <1>2. TransfersInv /\ WholeInv /\ [ClientNext]_transfersVars => TransfersInv' /\ WholeInv'
    BY TransfersNext, WholeNext
  <1> QED
    BY TransfersInit, WholeInit, <1>1, <1>2, PTL DEF ClientSpec

-----------------------------------------------------------------------------
\* What each packet does to the observations is said by its flag.
Noted(p) == IF Flag(p) = << >> THEN observations ELSE Observed(Flag(p)[1], p, Flag(p)[2])

LEMMA ProcessNotes ==
    ASSUME NEW p, ProcessPacket(p)
    PROVE  observations' = Noted(p)
  <1>1. CASE ControlFunction(p)
    BY <1>1 DEF ControlFunction, Noted, Flag
  <1>2. CASE UnreadableNpdu(p)
    BY <1>2 DEF UnreadableNpdu, Noted, Flag
  <1>3. CASE NetworkMessage(p)
    BY <1>3 DEF NetworkMessage, Noted, Flag
  <1>4. CASE ShortApdu(p)
    BY <1>4 DEF ShortApdu, Noted, Flag
  <1>5. CASE OtherApdu(p)
    BY <1>5 DEF OtherApdu, Noted, Flag
  <1>6. CASE RoutineRequest(p)
    BY <1>6 DEF RoutineRequest, Noted, Flag, SensitiveConfirmed, FileServices
  <1>7. CASE ReadFileRequest(p)
    BY <1>7 DEF ReadFileRequest, Noted, Flag, Record, FileServices
  <1>8. CASE WriteRequest(p)
    BY <1>8 DEF WriteRequest, Noted, Flag, Record, FileServices
  <1>9. CASE CommandRequest(p)
    BY <1>9 DEF CommandRequest, Noted, Flag, Record, FileServices
  <1>10. CASE WhoIs(p)
    BY <1>10 DEF WhoIs, Noted, Flag, SensitiveUnconfirmed
  <1>11. CASE Unconfirmed(p)
    BY <1>11 DEF Unconfirmed, Noted, Flag
  <1>12. CASE IgnoredIAm(p)
    BY <1>12 DEF IgnoredIAm, Noted, Flag, SensitiveUnconfirmed
  <1>13. CASE IAm(p)
    BY <1>13 DEF IAm, Noted, Flag, SensitiveUnconfirmed
  <1>14. CASE ComplexAck(p)
    BY <1>14 DEF ComplexAck, Noted, Flag
  <1>15. CASE ErrorApdu(p)
    BY <1>15 DEF ErrorApdu, Noted, Flag
  <1>16. CASE Reject(p)
    BY <1>16 DEF Reject, Noted, Flag
  <1>17. CASE Abort(p)
    BY <1>17 DEF Abort, Noted, Flag
  <1> QED
    BY <1>1, <1>2, <1>3, <1>4, <1>5, <1>6, <1>7, <1>8, <1>9, <1>10, <1>11, <1>12, <1>13,
       <1>14, <1>15, <1>16, <1>17 DEF ProcessPacket

\* The entry of a key: what no packet has been seen of has none.
Before(key) == IF key \in DOMAIN observations THEN observations[key]
               ELSE [count |-> 0, details |-> << >>]

\* The list of details, and the entry, after one more packet.
WithDetail(details, detail) ==
    IF /\ detail # Nothing
       /\ detail \notin ToSet(details)
       /\ Len(details) < MaxDetails
    THEN Append(details, detail) ELSE details

Revised(old, detail) == [count |-> old.count + 1, details |-> WithDetail(old.details, detail)]

NoRoomFor(key) == key \notin DOMAIN observations /\ Cardinality(DOMAIN observations) >= MaxObservations

\* The observations are changed only by flagged packets, each under its key.
LEMMA NotedIs ==
    ASSUME NEW p, Flag(p) # << >>
    PROVE  /\ NoRoomFor(KeyOf(p)) => Noted(p) = observations
           /\ ~NoRoomFor(KeyOf(p)) =>
                Noted(p) = Put(observations, KeyOf(p), Revised(Before(KeyOf(p)), Flag(p)[2]))
  BY DEF Noted, Observed, KeyOf, NoRoomFor, Revised, WithDetail, Before

-----------------------------------------------------------------------------
\* The history, when a packet is added that is not flagged and one that is.
LEMMA Unflagged ==
    ASSUME arrivals \in Seq(Traffic), NEW p \in Traffic,
           arrivals' = Append(arrivals, p), Flag(p) = << >>
    PROVE  Activity' = Activity /\ \A key : DetailsOf(key)' = DetailsOf(key)
  <1> DEFINE D == {k \in DOMAIN arrivals : Flag(arrivals[k]) # << >>}
             E == {k \in DOMAIN arrivals' : Flag(arrivals'[k]) # << >>}
             n == Len(arrivals) + 1
             Now(key) == {Flag(arrivals'[i])[2] : i \in PositionsOf(Activity', key)} \ {Nothing}
  <1>1. /\ DOMAIN arrivals' = (1 .. Len(arrivals)) \union {n}
        /\ \A i \in 1 .. Len(arrivals) : arrivals'[i] = arrivals[i]
        /\ arrivals'[n] = p
        /\ DOMAIN arrivals = 1 .. Len(arrivals)
    OBVIOUS
  <1> HIDE DEF n
  <1>2. E = D
    BY <1>1
  <1>3. \A i \in D : arrivals'[i] = arrivals[i]
    BY <1>1
  <1>4. Activity = [i \in D |-> KeyOf(arrivals[i])]
    BY DEF Activity
  <1>5. Activity' = [i \in E |-> KeyOf(arrivals'[i])]
    BY DEF Activity, KeyOf, Flag
  <1>6. \A key : DetailsOf(key)' = Now(key)
    BY DEF DetailsOf, Flag
  <1>7. \A key : PositionsOf(Activity, key) \subseteq D
    BY <1>4 DEF PositionsOf
  <1> HIDE DEF D, E
  <1>8. Activity' = Activity
    BY <1>2, <1>3, <1>4, <1>5
  <1>9. \A key : Now(key) = DetailsOf(key)
    BY <1>3, <1>7, <1>8 DEF DetailsOf
  <1> HIDE DEF Now
  <1> QED
    BY <1>6, <1>8, <1>9

LEMMA Flagged ==
    ASSUME arrivals \in Seq(Traffic), NEW p \in Traffic,
           arrivals' = Append(arrivals, p), Flag(p) # << >>
    PROVE  /\ Grows(Activity, Len(arrivals), KeyOf(p), Activity')
           /\ DetailsOf(KeyOf(p))' = (DetailsOf(KeyOf(p)) \union {Flag(p)[2]}) \ {Nothing}
           /\ \A key : key # KeyOf(p) => DetailsOf(key)' = DetailsOf(key)
  <1> DEFINE D == {k \in DOMAIN arrivals : Flag(arrivals[k]) # << >>}
             E == {k \in DOMAIN arrivals' : Flag(arrivals'[k]) # << >>}
             n == Len(arrivals) + 1
             Now(key) == {Flag(arrivals'[i])[2] : i \in PositionsOf(Activity', key)} \ {Nothing}
  <1>1. /\ DOMAIN arrivals' = (1 .. Len(arrivals)) \union {n}
        /\ \A i \in 1 .. Len(arrivals) : arrivals'[i] = arrivals[i]
        /\ arrivals'[n] = p
        /\ DOMAIN arrivals = 1 .. Len(arrivals)
        /\ Len(arrivals) \in Nat
    OBVIOUS
  <1> HIDE DEF n
  <1>2. E = D \union {n}
    BY <1>1
  <1>3. D \subseteq 1 .. Len(arrivals) /\ \A i \in D : arrivals'[i] = arrivals[i]
    BY <1>1
  <1>4. Activity = [i \in D |-> KeyOf(arrivals[i])]
    BY DEF Activity
  <1>5. Activity' = [i \in E |-> KeyOf(arrivals'[i])]
    BY DEF Activity, KeyOf, Flag
  <1>6. \A key : DetailsOf(key)' = Now(key)
    BY DEF DetailsOf, Flag
  <1>7. \A key : PositionsOf(Activity, key) \subseteq D
    BY <1>4 DEF PositionsOf
  <1> HIDE DEF D, E
  <1>8. /\ DOMAIN Activity = D
        /\ DOMAIN Activity' = D \union {n}
        /\ \A i \in D : Activity'[i] = Activity[i]
        /\ Activity'[n] = KeyOf(p)
    BY <1>1, <1>2, <1>3, <1>4, <1>5
  <1>9. Grows(Activity, Len(arrivals), KeyOf(p), Activity')
    BY <1>1, <1>3, <1>8 DEF Grows, n
  <1>10. /\ PositionsOf(Activity', KeyOf(p)) = PositionsOf(Activity, KeyOf(p)) \union {n}
         /\ \A key : key # KeyOf(p) => PositionsOf(Activity', key) = PositionsOf(Activity, key)
    BY <1>9, PositionsGrow DEF n
  <1>11. \A key : key # KeyOf(p) => Now(key) = DetailsOf(key)
    BY <1>3, <1>7, <1>10 DEF DetailsOf
  <1>12. Now(KeyOf(p)) = (DetailsOf(KeyOf(p)) \union {Flag(p)[2]}) \ {Nothing}
    <2> DEFINE P == PositionsOf(Activity, KeyOf(p))
    <2>1. P \subseteq D
      BY <1>7
    <2>2. \A i \in P : arrivals'[i] = arrivals[i]
      BY <1>3, <2>1
    <2>3. DetailsOf(KeyOf(p)) = {Flag(arrivals[i])[2] : i \in P} \ {Nothing}
      BY DEF DetailsOf
    <2>a. PositionsOf(Activity', KeyOf(p)) = P \union {n}
      BY <1>10
    <2>4. Now(KeyOf(p)) = {Flag(arrivals'[i])[2] : i \in P \union {n}} \ {Nothing}
      BY <2>a
    <2> HIDE DEF P, Now
    <2>5. {Flag(arrivals'[i])[2] : i \in P} = {Flag(arrivals[i])[2] : i \in P}
      BY <2>2
    <2>6. {Flag(arrivals'[i])[2] : i \in P \union {n}}
            = {Flag(arrivals'[i])[2] : i \in P} \union {Flag(p)[2]}
      <3> DEFINE G(i) == Flag(arrivals'[i])[2]
      <3>1. G(n) = Flag(p)[2]
        BY <1>1
      <3> HIDE DEF G
      <3>2. {G(i) : i \in P \union {n}} = {G(i) : i \in P} \union {Flag(p)[2]}
        BY <3>1
      <3> QED
        BY <3>2 DEF G
    <2> QED
      BY <2>3, <2>4, <2>5, <2>6
  <1> HIDE DEF Now
  <1> QED
    BY <1>6, <1>9, <1>11, <1>12

-----------------------------------------------------------------------------
AllDetails == {Flag(p)[2] : p \in Traffic}

\* A list of details that has, each once, those seen as far as there is room.
ListsDetails(details, seen) ==
    /\ details \in Seq(AllDetails)
    /\ Len(details) <= MaxDetails
    /\ \A i, j \in DOMAIN details : details[i] = details[j] => i = j
    /\ ToSet(details) \subseteq seen
    /\ ToSet(details) = seen \/ Len(details) = MaxDetails

\* The entry of a kind of activity, seen n times with these details.
Exact(entry, n, seen) == entry.count = n /\ ListsDetails(entry.details, seen)

ObservationsInv ==
    /\ arrivals \in Seq(Traffic)
    /\ HoldsFirst(DOMAIN observations, Activity, MaxObservations)
    /\ \A key \in DOMAIN observations :
         Exact(observations[key], Cardinality(PositionsOf(Activity, key)), DetailsOf(key))

\* The list after one more detail.
LEMMA DetailNoted ==
    ASSUME NEW details, NEW seen, ListsDetails(details, seen), NEW detail \in AllDetails,
           Nothing \notin seen
    PROVE  ListsDetails(WithDetail(details, detail), (seen \union {detail}) \ {Nothing})
  <1>1. /\ details \in Seq(AllDetails) /\ Len(details) \in Nat /\ Len(details) <= MaxDetails
        /\ \A i, j \in DOMAIN details : details[i] = details[j] => i = j
        /\ ToSet(details) \subseteq seen
        /\ ToSet(details) = seen \/ Len(details) = MaxDetails
        /\ DOMAIN details = 1 .. Len(details)
    BY LenProperties DEF ListsDetails
  <1>2. MaxDetails \in Nat
    BY BacnetDecoderAssumption
  <1>0. Len(details) = MaxDetails <=> ~(Len(details) < MaxDetails)
    <2>1. Len(details) \in Nat /\ Len(details) <= MaxDetails
      BY <1>1
    <2> QED
      BY <1>2, <2>1
  <1> DEFINE now == (seen \union {detail}) \ {Nothing}
  <1>3. seen \subseteq now
    OBVIOUS
  <1>4. CASE /\ detail # Nothing
             /\ detail \notin ToSet(details)
             /\ Len(details) < MaxDetails
    <2> DEFINE more == Append(details, detail)
    <2>1. /\ more \in Seq(AllDetails)
          /\ Len(more) = Len(details) + 1
          /\ DOMAIN more = 1 .. Len(details) + 1
          /\ \A i \in 1 .. Len(details) : more[i] = details[i]
          /\ more[Len(details) + 1] = detail
      BY <1>1, AppendProperties
    <2> HIDE DEF more
    <2>2. DOMAIN more = DOMAIN details \union {Len(details) + 1}
      BY <1>1, <2>1
    <2>3. ToSet(more) = ToSet(details) \union {detail}
      BY <1>1, <2>1, <2>2 DEF ToSet
    <2>4. Len(more) <= MaxDetails
      <3>1. Len(details) \in Nat /\ Len(details) < MaxDetails
        BY <1>1, <1>4
      <3>2. Len(more) = Len(details) + 1
        BY <2>1
      <3> QED
        BY <3>1, <3>2, <1>2
    <2>5. \A i, j \in DOMAIN more : more[i] = more[j] => i = j
      <3>1. \A i \in DOMAIN details : more[i] = details[i] /\ more[i] # detail
        BY <1>1, <1>4, <2>1 DEF ToSet
      <3> QED
        BY <1>1, <2>1, <2>2, <3>1
    <2>6. ToSet(details) = seen
      BY <1>0, <1>1, <1>4, Zenon
    <2>7. ToSet(more) = now
      BY <1>4, <2>3, <2>6
    <2>8. ListsDetails(more, now)
      BY <2>1, <2>4, <2>5, <2>7 DEF ListsDetails
    <2> QED
      BY <1>4, <2>8 DEF more, WithDetail
  <1>5. CASE ~(/\ detail # Nothing
               /\ detail \notin ToSet(details)
               /\ Len(details) < MaxDetails)
    <2>0. detail = Nothing => now = seen
      OBVIOUS
    <2>1. Len(details) = MaxDetails \/ now = seen \/ detail \in ToSet(details)
      BY <1>0, <1>5, <2>0, Zenon
    <2>2. detail \in ToSet(details) => now = seen
      BY <1>1
    <2>3. ToSet(details) \subseteq now /\ (ToSet(details) = now \/ Len(details) = MaxDetails)
      BY <1>1, <1>3, <2>1, <2>2
    <2> HIDE DEF now
    <2>4. ListsDetails(details, now)
      BY <1>1, <2>3 DEF ListsDetails
    <2> QED
      BY <1>5, <2>4 DEF now, WithDetail
  <1> QED
    BY <1>4, <1>5

-----------------------------------------------------------------------------
\* A flagged packet that a full table has no entry for.
LEMMA RefusedObservation ==
    ASSUME ObservationsInv, NEW p \in Traffic, Flag(p) # << >>,
           arrivals' = Append(arrivals, p), observations' = Noted(p),
           KeyOf(p) \notin DOMAIN observations, Cardinality(DOMAIN observations) >= MaxObservations
    PROVE  ObservationsInv' /\ observations' = observations
  <1>1. observations' = observations
    BY NotedIs DEF NoRoomFor
  <1>2. arrivals \in Seq(Traffic) /\ arrivals' \in Seq(Traffic)
    BY DEF ObservationsInv
  <1>3. /\ Grows(Activity, Len(arrivals), KeyOf(p), Activity')
        /\ \A key : key # KeyOf(p) => DetailsOf(key)' = DetailsOf(key)
    BY <1>2, Flagged
  <1>4. \A key : key # KeyOf(p) => PositionsOf(Activity', key) = PositionsOf(Activity, key)
    BY <1>3, PositionsGrow
  <1>5. HoldsFirst(DOMAIN observations, Activity', MaxObservations)
    BY <1>3, RefusedKey, BacnetDecoderAssumption DEF ObservationsInv
  <1>6. ASSUME NEW key \in DOMAIN observations
        PROVE  Exact(observations[key], Cardinality(PositionsOf(Activity', key)), DetailsOf(key)')
    <2>1. key # KeyOf(p)
      OBVIOUS
    <2>2. /\ DetailsOf(key)' = DetailsOf(key)
          /\ PositionsOf(Activity', key) = PositionsOf(Activity, key)
      BY <1>3, <1>4, <2>1
    <2> QED
      BY <2>2 DEF ObservationsInv
  <1> QED
    BY <1>1, <1>2, <1>5, <1>6 DEF ObservationsInv

\* What the entry of the packet's key is before it.
LEMMA BeforeExact ==
    ASSUME ObservationsInv, NEW key,
           key \in DOMAIN observations \/ PositionsOf(Activity, key) = {}
    PROVE  Exact(Before(key), Cardinality(PositionsOf(Activity, key)), DetailsOf(key))
  <1>1. CASE key \in DOMAIN observations
    BY <1>1 DEF ObservationsInv, Before
  <1>2. CASE key \notin DOMAIN observations
    <2>1. Before(key) = [count |-> 0, details |-> << >>] /\ PositionsOf(Activity, key) = {}
      BY <1>2 DEF Before
    <2>2. DetailsOf(key) = {}
      BY <2>1 DEF DetailsOf
    <2>3. Cardinality({}) = 0
      BY FS_EmptySet
    <2>4. << >> \in Seq(AllDetails) /\ Len(<< >>) = 0 /\ ToSet(<< >>) = {}
      BY DEF ToSet
    <2>5. ListsDetails(<< >>, {})
      BY <2>4, BacnetDecoderAssumption DEF ListsDetails
    <2> QED
      BY <2>1, <2>2, <2>3, <2>5 DEF Exact
  <1> QED
    BY <1>1, <1>2

\* A flagged packet that the table has an entry for, or room.
LEMMA NotedObservation ==
    ASSUME ObservationsInv, NEW p \in Traffic, Flag(p) # << >>,
           arrivals' = Append(arrivals, p), observations' = Noted(p),
           KeyOf(p) \in DOMAIN observations \/ Cardinality(DOMAIN observations) < MaxObservations
    PROVE  /\ ObservationsInv'
           /\ DOMAIN observations' = DOMAIN observations \union {KeyOf(p)}
           /\ observations'[KeyOf(p)] = Revised(Before(KeyOf(p)), Flag(p)[2])
           /\ \A key \in DOMAIN observations \ {KeyOf(p)} : observations'[key] = observations[key]
  <1> DEFINE own == KeyOf(p)
             detail == Flag(p)[2]
             old == Before(own)
             now == Revised(old, detail)
             n == Cardinality(PositionsOf(Activity, own))
  <1>1. /\ arrivals \in Seq(Traffic) /\ arrivals' \in Seq(Traffic)
        /\ HoldsFirst(DOMAIN observations, Activity, MaxObservations)
        /\ MaxObservations \in Nat
    BY BacnetDecoderAssumption DEF ObservationsInv
  <1>2. /\ Grows(Activity, Len(arrivals), own, Activity')
        /\ DetailsOf(own)' = (DetailsOf(own) \union {detail}) \ {Nothing}
        /\ \A key : key # own => DetailsOf(key)' = DetailsOf(key)
    BY <1>1, Flagged
  <1>3. \A key : key # own => PositionsOf(Activity', key) = PositionsOf(Activity, key)
    BY <1>2, PositionsGrow
  <1>4. n \in Nat /\ Cardinality(PositionsOf(Activity', own)) = n + 1
    BY <1>2, PositionsSize
  <1>5. ~NoRoomFor(own)
    <2>1. Cardinality(DOMAIN observations) \in Nat
      BY <1>1, FS_CardinalityType DEF HoldsFirst
    <2> QED
      BY <1>1, <2>1 DEF NoRoomFor
  <1>6. observations' = Put(observations, own, now)
    BY <1>5, NotedIs
  <1> HIDE DEF now
  <1>7. /\ DOMAIN observations' = DOMAIN observations \union {own}
        /\ observations'[own] = now
        /\ \A key \in DOMAIN observations \ {own} : observations'[key] = observations[key]
    BY <1>6 DEF Put
  <1>8. /\ own \in DOMAIN observations \/ PositionsOf(Activity, own) = {}
        /\ HoldsFirst(DOMAIN observations \union {own}, Activity', MaxObservations)
    <2>1. CASE own \in DOMAIN observations
      <3>1. DOMAIN observations \union {own} = DOMAIN observations
        BY <2>1
      <3>2. HoldsFirst(DOMAIN observations, Activity', MaxObservations)
        BY <1>1, <1>2, <2>1, KnownKey
      <3> QED
        BY <2>1, <3>1, <3>2
    <2>2. CASE own \notin DOMAIN observations
      BY <1>1, <1>2, <2>2, AddedKey
    <2> QED
      BY <2>1, <2>2
  <1>9. Exact(old, n, DetailsOf(own))
    BY <1>8, BeforeExact
  <1>10. Exact(now, n + 1, DetailsOf(own)')
    <2>1. detail \in AllDetails /\ Nothing \notin DetailsOf(own)
      BY DEF AllDetails, DetailsOf
    <2>2. old.count = n /\ ListsDetails(old.details, DetailsOf(own))
      BY <1>9 DEF Exact
    <2>3. ListsDetails(now.details, (DetailsOf(own) \union {detail}) \ {Nothing})
      BY <2>1, <2>2, DetailNoted DEF now, Revised
    <2>4. now.count = n + 1
      BY <2>2 DEF now, Revised
    <2> QED
      BY <1>2, <2>3, <2>4 DEF Exact
  <1>13. observations'[own] = Revised(old, detail)
    BY <1>7 DEF now
  <1> HIDE DEF old, n, detail
  <1>11. ASSUME NEW key \in DOMAIN observations'
         PROVE  Exact(observations'[key], Cardinality(PositionsOf(Activity', key)), DetailsOf(key)')
    <2>1. CASE key = own
      BY <1>4, <1>7, <1>10, <2>1
    <2>2. CASE key # own
      BY <1>2, <1>3, <1>7, <2>2 DEF ObservationsInv
    <2> QED
      BY <2>1, <2>2
  <1>12. HoldsFirst(DOMAIN observations', Activity', MaxObservations)
    BY <1>7, <1>8
  <1> QED
    BY <1>1, <1>7, <1>11, <1>12, <1>13 DEF ObservationsInv, old, detail

LEMMA SilentObservation ==
    ASSUME ObservationsInv, NEW p \in Traffic, Flag(p) = << >>,
           arrivals' = Append(arrivals, p), observations' = Noted(p)
    PROVE  ObservationsInv' /\ observations' = observations
  <1>1. observations' = observations
    BY DEF Noted
  <1>2. arrivals \in Seq(Traffic) /\ arrivals' \in Seq(Traffic)
    BY DEF ObservationsInv
  <1>3. Activity' = Activity /\ \A key : DetailsOf(key)' = DetailsOf(key)
    BY <1>2, Unflagged
  <1>4. ASSUME NEW key \in DOMAIN observations
        PROVE  Exact(observations[key], Cardinality(PositionsOf(Activity', key)), DetailsOf(key)')
    <2>1. DetailsOf(key)' = DetailsOf(key)
      BY <1>3
    <2> QED
      BY <1>3, <2>1 DEF ObservationsInv
  <1>5. HoldsFirst(DOMAIN observations', Activity', MaxObservations)
    BY <1>1, <1>3 DEF ObservationsInv
  <1> QED
    BY <1>1, <1>2, <1>4, <1>5 DEF ObservationsInv

LEMMA SameObservations ==
    ASSUME ObservationsInv, UNCHANGED <<arrivals, observations>>
    PROVE  ObservationsInv'
  <1>1. Activity' = Activity
    BY DEF Activity
  <1>2. \A key : DetailsOf(key)' = DetailsOf(key)
    BY <1>1 DEF DetailsOf
  <1>3. ASSUME NEW key \in DOMAIN observations
        PROVE  Exact(observations[key], Cardinality(PositionsOf(Activity', key)), DetailsOf(key)')
    <2>1. DetailsOf(key)' = DetailsOf(key)
      BY <1>2
    <2> QED
      BY <1>1, <2>1 DEF ObservationsInv
  <1>4. HoldsFirst(DOMAIN observations', Activity', MaxObservations)
    BY <1>1 DEF ObservationsInv
  <1> QED
    BY <1>3, <1>4 DEF ObservationsInv

LEMMA InitObservations == Init => ObservationsInv
  <1> SUFFICES ASSUME Init PROVE ObservationsInv
    OBVIOUS
  <1>1. arrivals = << >> /\ DOMAIN observations = {}
    BY DEF Init, DecoderInit
  <1>2. DOMAIN Activity = {}
    BY <1>1 DEF Activity
  <1>3. Openings(Activity) = {}
    BY <1>2 DEF Openings
  <1>4. FirstKeys(Activity, MaxObservations) = {}
    BY <1>3 DEF FirstKeys
  <1>5. IsFiniteSet({}) /\ Cardinality({}) = 0
    BY FS_EmptySet
  <1>6. HoldsFirst(DOMAIN observations, Activity, MaxObservations)
    BY <1>1, <1>2, <1>3, <1>4, <1>5 DEF HoldsFirst
  <1> QED
    BY <1>1, <1>6 DEF ObservationsInv

LEMMA NextObservations == ObservationsInv /\ [Next]_vars => ObservationsInv'
  <1> SUFFICES ASSUME ObservationsInv, [Next]_vars PROVE ObservationsInv'
    OBVIOUS
  <1>1. ASSUME NEW p \in Traffic, Capture(p) PROVE ObservationsInv'
    <2>1. arrivals' = Append(arrivals, p) /\ observations' = Noted(p)
      BY <1>1, ProcessNotes DEF Capture
    <2>2. CASE Flag(p) = << >>
      BY <2>1, <2>2, SilentObservation
    <2>3. CASE Flag(p) # << >>
      <3>1. Cardinality(DOMAIN observations) \in Nat /\ MaxObservations \in Nat
        BY FS_CardinalityType, BacnetDecoderAssumption DEF ObservationsInv, HoldsFirst
      <3>2. \/ Cardinality(DOMAIN observations) >= MaxObservations
            \/ Cardinality(DOMAIN observations) < MaxObservations
        BY <3>1
      <3> QED
        BY <2>1, <2>3, <3>2, RefusedObservation, NotedObservation
    <2> QED
      BY <2>2, <2>3
  <1>2. CASE Finish
    BY <1>2, SameObservations DEF Finish, FinalizeDecoder, inventoryVars
  <1>3. CASE UNCHANGED vars
    BY <1>3, SameObservations DEF vars, inventoryVars
  <1> QED
    BY <1>1, <1>2, <1>3 DEF Next

\* The table of observations is what the capture says it should be, in every
\* state.
THEOREM ObservationsInvariance == Spec => []ObservationsInv
  BY InitObservations, NextObservations, PTL DEF Spec

\* The report has exactly the first kinds of activity, with the number of
\* all their packets and their distinct details, whatever the capture and
\* the limits of the two lists.
THEOREM ObservationsExactHolds == Spec => []ObservationsExact
  <1>1. ObservationsInv => ObservationsExact
    <2> SUFFICES ASSUME ObservationsInv PROVE ObservationsExact
      OBVIOUS
    <2>1. DOMAIN observations = FirstKeys(Activity, MaxObservations)
      BY DEF ObservationsInv, HoldsFirst
    <2>2. ASSUME NEW key \in DOMAIN observations
          PROVE  Exact(observations[key], Cardinality(PositionsOf(Activity, key)), DetailsOf(key))
      BY DEF ObservationsInv
    <2> QED
      BY <2>1, <2>2 DEF ObservationsExact, Exact, ListsDetails
  <1> QED
    BY <1>1, ObservationsInvariance, PTL

-----------------------------------------------------------------------------
\* What each packet does to the inventory: only an announcement of a device
\* changes it, while it has room, and only that device's record.
Announces(p) == p.content = "unconfirmed" /\ p.service = "i-Am" /\ p.instance # Nothing

Inventoried(p) ==
    IF Announces(p) /\ Cardinality(DOMAIN devices) < MaxDevices
    THEN /\ DOMAIN devices' = DOMAIN devices \union {p.instance}
         /\ devices'[p.instance].address = Address(p)
         /\ \A d \in DOMAIN devices \ {p.instance} : devices'[d] = devices[d]
    ELSE devices' = devices

LEMMA ProcessInventories ==
    ASSUME NEW p, ProcessPacket(p), IsFiniteSet(DOMAIN devices)
    PROVE  Inventoried(p)
  <1>1. ASSUME p.content # "unconfirmed"
        PROVE  devices' = devices
    BY <1>1 DEF ProcessPacket, ControlFunction, UnreadableNpdu, NetworkMessage, ShortApdu, OtherApdu,
       RoutineRequest, ReadFileRequest, WriteRequest, CommandRequest, WhoIs, Unconfirmed, IgnoredIAm,
       IAm, ComplexAck, ErrorApdu, Reject, Abort
  <1>2. CASE p.content # "unconfirmed"
    BY <1>1, <1>2 DEF Inventoried, Announces
  <1>3. CASE WhoIs(p)
    BY <1>3 DEF WhoIs, Inventoried, Announces
  <1>4. CASE Unconfirmed(p)
    BY <1>4 DEF Unconfirmed, Inventoried, Announces
  <1>5. CASE IgnoredIAm(p)
    <2>1. p.instance = Nothing \/ Cardinality(DOMAIN devices) >= MaxDevices
      BY <1>5 DEF IgnoredIAm
    <2>2. Cardinality(DOMAIN devices) \in Nat /\ MaxDevices \in Nat
      BY FS_CardinalityType, BacnetDecoderAssumption
    <2>3. p.instance = Nothing \/ ~(Cardinality(DOMAIN devices) < MaxDevices)
      BY <2>1, <2>2
    <2> QED
      BY <1>5, <2>3 DEF IgnoredIAm, Inventoried, Announces
  <1>6. CASE IAm(p)
    BY <1>6 DEF IAm, Inventoried, Announces, Put
  <1>7. \/ p.content # "unconfirmed"
        \/ WhoIs(p) \/ Unconfirmed(p) \/ IgnoredIAm(p) \/ IAm(p)
    BY DEF ProcessPacket, ControlFunction, UnreadableNpdu, NetworkMessage, ShortApdu, OtherApdu,
       RoutineRequest, ReadFileRequest, WriteRequest, CommandRequest, ComplexAck, ErrorApdu,
       Reject, Abort
  <1> QED
    BY <1>2, <1>3, <1>4, <1>5, <1>6, <1>7

\* InventoryLatest as it stands is inductive: the inventory only grows.
InventoryInv ==
    /\ arrivals \in Seq(Traffic)
    /\ IsFiniteSet(DOMAIN devices)
    /\ InventoryLatest

LEMMA InitInventory == Init => InventoryInv
  <1> SUFFICES ASSUME Init PROVE InventoryInv
    OBVIOUS
  <1>1. arrivals = << >> /\ DOMAIN devices = {}
    BY DEF Init, DecoderInit
  <1>2. Announcements = {}
    BY <1>1 DEF Announcements
  <1> QED
    BY <1>1, <1>2, FS_EmptySet DEF InventoryInv, InventoryLatest

\* The announcements after one more packet.
LEMMA AnnouncementsGrow ==
    ASSUME arrivals \in Seq(Traffic), NEW p, arrivals' = Append(arrivals, p), p \in Traffic
    PROVE  /\ Announcements \subseteq 1 .. Len(arrivals)
           /\ \A i \in 1 .. Len(arrivals) : arrivals'[i] = arrivals[i]
           /\ arrivals'[Len(arrivals) + 1] = p
           /\ Announces(p) => Announcements' = Announcements \union {Len(arrivals) + 1}
           /\ ~Announces(p) => Announcements' = Announcements
  <1> DEFINE n == Len(arrivals) + 1
  <1>1. /\ DOMAIN arrivals' = (1 .. Len(arrivals)) \union {n}
        /\ \A i \in 1 .. Len(arrivals) : arrivals'[i] = arrivals[i]
        /\ arrivals'[n] = p
        /\ DOMAIN arrivals = 1 .. Len(arrivals)
    OBVIOUS
  <1> HIDE DEF n
  <1>2. Announcements = {i \in DOMAIN arrivals : Announces(arrivals[i])}
    BY DEF Announcements, Announces
  <1>3. Announcements' = {i \in DOMAIN arrivals' : Announces(arrivals'[i])}
    BY DEF Announcements, Announces
  <1>4. CASE Announces(p)
    BY <1>1, <1>2, <1>3, <1>4 DEF n
  <1>5. CASE ~Announces(p)
    BY <1>1, <1>2, <1>3, <1>5 DEF n
  <1> QED
    BY <1>1, <1>2, <1>4, <1>5 DEF n

LEMMA CaptureInventory ==
    ASSUME InventoryInv, NEW p \in Traffic, Capture(p)
    PROVE  InventoryInv'
  <1> DEFINE n == Len(arrivals) + 1
             NowLatest(i) == \A j \in Announcements' : arrivals'[j].instance = arrivals'[i].instance => j <= i
             Known(i) == /\ arrivals'[i].instance \in DOMAIN devices'
                         /\ NowLatest(i) => devices'[arrivals'[i].instance].address = Address(arrivals'[i])
  <1>1. /\ arrivals \in Seq(Traffic) /\ arrivals' \in Seq(Traffic)
        /\ arrivals' = Append(arrivals, p)
        /\ IsFiniteSet(DOMAIN devices)
        /\ Len(arrivals) \in Nat
    BY DEF InventoryInv, Capture
  <1>2. Inventoried(p)
    BY <1>1, ProcessInventories DEF Capture
  <1>3. /\ Announcements \subseteq 1 .. Len(arrivals)
        /\ \A i \in 1 .. Len(arrivals) : arrivals'[i] = arrivals[i]
        /\ arrivals'[n] = p
        /\ Announces(p) => Announcements' = Announcements \union {n}
        /\ ~Announces(p) => Announcements' = Announcements
    BY <1>1, AnnouncementsGrow
  <1>4. \/ DOMAIN devices' = DOMAIN devices
        \/ DOMAIN devices' = DOMAIN devices \union {p.instance}
    BY <1>2 DEF Inventoried
  <1>5. IsFiniteSet(DOMAIN devices')
    BY <1>1, <1>4, FS_AddElement
  <1>6. Cardinality(DOMAIN devices) <= Cardinality(DOMAIN devices')
    BY <1>4, <1>5, FS_Subset
  <1>7. /\ Cardinality(DOMAIN devices) \in Nat /\ Cardinality(DOMAIN devices') \in Nat
        /\ MaxDevices \in Nat
    BY <1>1, <1>5, FS_CardinalityType, BacnetDecoderAssumption
  <1>8. ASSUME Cardinality(DOMAIN devices') < MaxDevices,
               NEW i \in Announcements'
        PROVE  Known(i)
    <2>1. Cardinality(DOMAIN devices) < MaxDevices
      BY <1>6, <1>7, <1>8
    <2>2. ASSUME NEW k \in Announcements
          PROVE  /\ arrivals'[k] = arrivals[k] /\ ~(n <= k) /\ k \in Announcements'
                 /\ arrivals[k].instance \in DOMAIN devices
                 /\ NowLatest(k) => devices[arrivals[k].instance].address = Address(arrivals[k])
      <3>1. arrivals'[k] = arrivals[k] /\ ~(n <= k)
        BY <1>1, <1>3
      <3>2. Announcements \subseteq Announcements'
        BY <1>3
      <3>3. \A j \in Announcements : arrivals'[j] = arrivals[j]
        BY <1>3
      <3>4. NowLatest(k) => Latest(k)
        BY <3>1, <3>2, <3>3 DEF Latest
      <3> HIDE DEF NowLatest
      <3> QED
        BY <2>1, <3>1, <3>2, <3>4 DEF InventoryInv, InventoryLatest
    <2>3. CASE ~Announces(p)
      BY <1>2, <1>3, <2>2, <2>3 DEF Inventoried
    <2>4. CASE Announces(p)
      <3>1. /\ DOMAIN devices' = DOMAIN devices \union {p.instance}
            /\ devices'[p.instance].address = Address(p)
            /\ \A d \in DOMAIN devices \ {p.instance} : devices'[d] = devices[d]
        BY <1>2, <2>1, <2>4 DEF Inventoried
      <3>2. CASE i = n
        BY <1>3, <3>1, <3>2
      <3>3. CASE i \in Announcements
        <4>1. CASE arrivals[i].instance = p.instance
          <5>1. n \in Announcements' /\ arrivals'[n] = p /\ arrivals'[i] = arrivals[i]
            BY <1>3, <2>2, <2>4, <3>3
          <5>2. ~(n <= i)
            BY <2>2, <3>3
          <5>3. ~NowLatest(i)
            BY <4>1, <5>1, <5>2
          <5> HIDE DEF NowLatest
          <5> QED
            BY <3>1, <4>1, <5>1, <5>3
        <4>2. CASE arrivals[i].instance # p.instance
          <5> HIDE DEF NowLatest
          <5> QED
            BY <2>2, <3>1, <3>3, <4>2
        <4> QED
          BY <4>1, <4>2
      <3> QED
        BY <1>3, <2>4, <3>2, <3>3
    <2> QED
      BY <2>3, <2>4
  <1>9. InventoryLatest' <=>
          (Cardinality(DOMAIN devices') < MaxDevices => \A i \in Announcements' : Known(i))
    BY DEF InventoryLatest, Latest, Address
  <1> HIDE DEF Known
  <1> QED
    BY <1>1, <1>5, <1>8, <1>9 DEF InventoryInv

LEMMA NextInventory == InventoryInv /\ [Next]_vars => InventoryInv'
  <1> SUFFICES ASSUME InventoryInv, [Next]_vars PROVE InventoryInv'
    OBVIOUS
  <1>1. ASSUME NEW p \in Traffic, Capture(p) PROVE InventoryInv'
    BY <1>1, CaptureInventory
  <1>2. ASSUME UNCHANGED <<arrivals, devices>> PROVE InventoryInv'
    BY <1>2 DEF InventoryInv, InventoryLatest, Announcements, Latest, Address
  <1>3. CASE Finish
    BY <1>2, <1>3 DEF Finish, FinalizeDecoder, inventoryVars
  <1>4. CASE UNCHANGED vars
    BY <1>2, <1>4 DEF vars, inventoryVars
  <1> QED
    BY <1>1, <1>3, <1>4 DEF Next

\* As long as the inventory has room, it has every device that announced
\* itself, at the address of its last announcement, whatever the order of
\* direct and forwarded announcements.
THEOREM InventoryLatestHolds == Spec => []InventoryLatest
  <1>1. InventoryInv => InventoryLatest
    BY DEF InventoryInv
  <1>2. Spec => []InventoryInv
    BY InitInventory, NextInventory, PTL DEF Spec
  <1> QED
    BY <1>1, <1>2, PTL

-----------------------------------------------------------------------------
\* Everything that has been flagged stays flagged: entries are not removed
\* and their details only grow.
ObservationsGrow ==
    \A key \in DOMAIN observations :
        /\ key \in DOMAIN observations'
        /\ ToSet(observations[key].details) \subseteq ToSet(observations'[key].details)
        /\ Len(observations[key].details) >= MaxDetails =>
             Len(observations'[key].details) >= MaxDetails

\* The packet's own activity is in the table, with its detail.
OwnNoted(p) ==
    /\ KeyOf(p) \in DOMAIN observations'
    /\ \/ Flag(p)[2] \in ToSet(observations'[KeyOf(p)].details)
       \/ Flag(p)[2] = Nothing
       \/ Len(observations'[KeyOf(p)].details) >= MaxDetails

\* One more detail, for the list and what it has.
Retains(details, detail, now) ==
    /\ ToSet(details) \subseteq ToSet(now)
    /\ Len(details) >= MaxDetails => Len(now) >= MaxDetails
    /\ detail \in ToSet(now) \/ detail = Nothing \/ Len(now) >= MaxDetails

LEMMA DetailsOnlyGrow ==
    ASSUME NEW T, NEW details \in Seq(T), NEW detail \in T
    PROVE  Retains(details, detail, WithDetail(details, detail))
  <1> DEFINE now == WithDetail(details, detail)
  <1>1. DOMAIN details = 1 .. Len(details) /\ Len(details) \in Nat /\ MaxDetails \in Nat
    BY LenProperties, BacnetDecoderAssumption
  <1>2. CASE ~(/\ detail # Nothing
               /\ detail \notin ToSet(details)
               /\ Len(details) < MaxDetails)
    <2>1. now = details
      BY <1>2, Zenon DEF WithDetail
    <2>2. ~(Len(details) < MaxDetails) => Len(details) >= MaxDetails
      BY <1>1
    <2> QED
      BY <1>2, <2>1, <2>2, Zenon DEF Retains
  <1>3. CASE /\ detail # Nothing
             /\ detail \notin ToSet(details)
             /\ Len(details) < MaxDetails
    <2>0. now = Append(details, detail)
      BY <1>3, Zenon DEF WithDetail
    <2> HIDE DEF now
    <2>1. /\ Len(now) = Len(details) + 1
          /\ DOMAIN now = 1 .. Len(details) + 1
          /\ \A i \in 1 .. Len(details) : now[i] = details[i]
          /\ now[Len(details) + 1] = detail
      BY <2>0, AppendProperties
    <2>2. DOMAIN now = DOMAIN details \union {Len(details) + 1}
      BY <1>1, <2>1
    <2>3. ToSet(now) = ToSet(details) \union {detail}
      BY <1>1, <2>1, <2>2 DEF ToSet
    <2>4. Len(details) >= MaxDetails => Len(now) >= MaxDetails
      BY <1>1, <2>1
    <2> QED
      BY <2>3, <2>4 DEF Retains, now
  <1> QED
    BY <1>2, <1>3

LEMMA CaptureObserves ==
    ASSUME ObservationsInv, NEW p \in Traffic,
           arrivals' = Append(arrivals, p), observations' = Noted(p)
    PROVE  /\ ObservationsGrow
           /\ Cardinality(DOMAIN observations') < MaxObservations =>
                /\ Cardinality(DOMAIN observations) < MaxObservations
                /\ Flag(p) # << >> => OwnNoted(p)
  <1>1. /\ IsFiniteSet(DOMAIN observations)
        /\ Cardinality(DOMAIN observations) \in Nat /\ MaxObservations \in Nat
    BY FS_CardinalityType, BacnetDecoderAssumption DEF ObservationsInv, HoldsFirst
  <1>2. ASSUME observations' = observations
        PROVE  ObservationsGrow
    BY <1>2 DEF ObservationsGrow
  <1>3. CASE Flag(p) = << >>
    <2>1. observations' = observations
      BY <1>3, SilentObservation
    <2> QED
      BY <1>2, <1>3, <2>1
  <1>4. CASE Flag(p) # << >> /\ NoRoomFor(KeyOf(p))
    <2>1. observations' = observations
      BY <1>4, NotedIs
    <2>2. ~(Cardinality(DOMAIN observations') < MaxObservations)
      BY <1>1, <1>4, <2>1 DEF NoRoomFor
    <2> QED
      BY <1>2, <2>1, <2>2
  <1>5. CASE Flag(p) # << >> /\ ~NoRoomFor(KeyOf(p))
    <2> DEFINE own == KeyOf(p)
               detail == Flag(p)[2]
               old == Before(own)
    <2>1. own \in DOMAIN observations \/ Cardinality(DOMAIN observations) < MaxObservations
      BY <1>1, <1>5 DEF NoRoomFor
    <2>2. /\ ObservationsInv'
          /\ DOMAIN observations' = DOMAIN observations \union {own}
          /\ observations'[own] = Revised(old, detail)
          /\ \A key \in DOMAIN observations \ {own} : observations'[key] = observations[key]
      BY <1>5, <2>1, NotedObservation
    <2>3. old.details \in Seq(AllDetails) /\ detail \in AllDetails
      <3>1. CASE own \in DOMAIN observations
        BY <3>1 DEF ObservationsInv, Before, Exact, ListsDetails, AllDetails
      <3>2. CASE own \notin DOMAIN observations
        BY <3>2 DEF Before, AllDetails
      <3> QED
        BY <3>1, <3>2
    <2> HIDE DEF old, detail
    <2>4. observations'[own].details =
            WithDetail(old.details, detail)
      BY <2>2 DEF Revised
    <2>5. Retains(old.details, detail, observations'[own].details)
      BY <2>3, <2>4, DetailsOnlyGrow
    <2>6. ObservationsGrow
      <3> SUFFICES ASSUME NEW key \in DOMAIN observations
                   PROVE  /\ key \in DOMAIN observations'
                          /\ ToSet(observations[key].details) \subseteq ToSet(observations'[key].details)
                          /\ Len(observations[key].details) >= MaxDetails =>
                               Len(observations'[key].details) >= MaxDetails
        BY DEF ObservationsGrow
      <3>1. CASE key = own
        <4>1. observations[key] = old
          BY <3>1 DEF old, Before
        <4> QED
          BY <2>2, <2>5, <3>1, <4>1 DEF Retains
      <3>2. CASE key # own
        <4>1. observations'[key] = observations[key]
          BY <2>2, <3>2
        <4> QED
          BY <2>2, <4>1
      <3> QED
        BY <3>1, <3>2
    <2>7. OwnNoted(p)
      BY <2>2, <2>5 DEF OwnNoted, Retains, detail
    <2>8. Cardinality(DOMAIN observations') < MaxObservations =>
            Cardinality(DOMAIN observations) < MaxObservations
      <3>1. IsFiniteSet(DOMAIN observations')
        BY <1>1, <2>2, FS_AddElement
      <3>2. /\ Cardinality(DOMAIN observations') \in Nat
            /\ Cardinality(DOMAIN observations) <= Cardinality(DOMAIN observations')
        BY <2>2, <3>1, FS_CardinalityType, FS_Subset
      <3> QED
        BY <1>1, <3>2
    <2> QED
      BY <2>6, <2>7, <2>8
  <1> QED
    BY <1>3, <1>4, <1>5

-----------------------------------------------------------------------------
\* A sequence, of whatever its elements are.
IsSequence(s) == s \in Seq(ToSet(s))

LEMMA JoinedSequences ==
    ASSUME NEW s, NEW t, IsSequence(s), IsSequence(t)
    PROVE  IsSequence(s \o t) /\ ToSet(s \o t) = ToSet(s) \union ToSet(t)
  BY Joined DEF IsSequence

\* The keys of the transfers: of the buffers, of what was made of them, and
\* of the reads that have been asked for.
KeyOfRead(request) ==
    [direction |-> "read", src |-> request.dst, dst |-> request.src,
     file |-> pending_file_reads[request]]

ReadKeys == {KeyOfRead(request) : request \in DOMAIN pending_file_reads}

CandidateKeys == {c.key : c \in ToSet(candidates)}

SeenKeys == DOMAIN file_buffers \union CandidateKeys \union ReadKeys

\* Data of a transfer changes no other.
LEMMA FlushedKeys ==
    ASSUME NEW key, NEW buffer
    PROVE  /\ IsSequence(Flushed(key, buffer))
           /\ \A c \in ToSet(Flushed(key, buffer)) : c.key = key
  <1>1. Candidate(key, buffer).key = key
    BY DEF Candidate
  <1> DEFINE c == Candidate(key, buffer)
  <1> HIDE DEF c
  <1>2. IsSequence(<<c>>) /\ ToSet(<<c>>) = {c}
    BY DEF IsSequence, ToSet
  <1>3. IsSequence(<< >>) /\ ToSet(<< >>) = {}
    BY DEF IsSequence, ToSet
  <1>4. Flushed(key, buffer) = << >> \/ Flushed(key, buffer) = <<c>>
    BY DEF Flushed, c
  <1> QED
    BY <1>1, <1>2, <1>3, <1>4 DEF c

LEMMA AbsorbKeys ==
    ASSUME IsSequence(candidates), NEW key, NEW apdu, AbsorbFileData(key, apdu)
    PROVE  /\ IsSequence(candidates')
           /\ DOMAIN file_buffers' \subseteq DOMAIN file_buffers \union {key}
           /\ CandidateKeys' \subseteq CandidateKeys \union {key}
  <1>1. CASE IgnoreData(key, apdu)
    BY <1>1 DEF IgnoreData, CandidateKeys
  <1>2. CASE BufferData(key, apdu)
    <2>1. candidates' = candidates
      BY <1>2 DEF BufferData
    <2>2. DOMAIN file_buffers' = DOMAIN file_buffers \union {key}
      BY <1>2 DEF BufferData, Put
    <2> QED
      BY <2>1, <2>2 DEF CandidateKeys
  <1>3. CASE FinishFile(key, apdu)
    <2> DEFINE buffer == Assemble(BufferFor(key), apdu.start, apdu.chunks)
               last == Flushed(key, buffer)
    <2>1. candidates' = candidates \o last
      BY <1>3 DEF FinishFile
    <2>2. IsSequence(last) /\ \A c \in ToSet(last) : c.key = key
      BY FlushedKeys
    <2> HIDE DEF last
    <2>3. IsSequence(candidates') /\ ToSet(candidates') = ToSet(candidates) \union ToSet(last)
      BY <2>1, <2>2, JoinedSequences
    <2>4. CandidateKeys' = {c.key : c \in ToSet(candidates')}
      BY DEF CandidateKeys
    <2>5. CandidateKeys' \subseteq CandidateKeys \union {key}
      BY <2>2, <2>3, <2>4 DEF CandidateKeys
    <2>6. DOMAIN file_buffers' \subseteq DOMAIN file_buffers
      BY <1>3 DEF FinishFile, Without
    <2> QED
      BY <2>3, <2>5, <2>6
  <1> QED
    BY <1>1, <1>2, <1>3 DEF AbsorbFileData

\* A transfer that this packet asks for, or brings data of.
OwnTransfer(key, p) ==
    /\ Flag(p) # << >>
    /\ ActivityOf(key) = KeyOf(p)
    /\ key.file = Flag(p)[2] /\ key.file # Nothing

\* Every packet leaves the transfers that are known, and its own.
LEMMA SameFiles ==
    ASSUME IsSequence(candidates), UNCHANGED filesVars
    PROVE  IsSequence(candidates') /\ SeenKeys' = SeenKeys
  BY DEF filesVars, SeenKeys, CandidateKeys, ReadKeys, KeyOfRead

LEMMA ReadRequestKeys ==
    ASSUME IsSequence(candidates), NEW p, ReadFileRequest(p)
    PROVE  /\ IsSequence(candidates')
           /\ \A key \in SeenKeys' : key \in SeenKeys \/ OwnTransfer(key, p)
  <1>1. CASE p.file = Nothing
    <2>1. UNCHANGED filesVars
      BY <1>1 DEF ReadFileRequest
    <2> QED
      BY <2>1, SameFiles
  <1>2. CASE p.file # Nothing
    <2> DEFINE own == [src |-> p.src, dst |-> p.dst, invoke |-> p.invoke]
               kept == IF Cardinality(DOMAIN pending_file_reads) >= MaxPending
                       THEN << >> ELSE pending_file_reads
    <2>1. /\ pending_file_reads' = Put(kept, own, p.file)
          /\ file_buffers' = file_buffers /\ candidates' = candidates
      BY <1>2 DEF ReadFileRequest, RememberFileRead
    <2>2. /\ DOMAIN kept \subseteq DOMAIN pending_file_reads
          /\ \A r \in DOMAIN kept : kept[r] = pending_file_reads[r]
      OBVIOUS
    <2> HIDE DEF kept
    <2>3. /\ DOMAIN pending_file_reads' = DOMAIN kept \union {own}
          /\ pending_file_reads'[own] = p.file
          /\ \A r \in DOMAIN kept : r # own => pending_file_reads'[r] = pending_file_reads[r]
      BY <2>1, <2>2 DEF Put
    <2>4. ReadKeys' = {KeyOfRead(r)' : r \in DOMAIN pending_file_reads'}
      BY DEF ReadKeys
    <2>5. CandidateKeys' = CandidateKeys /\ IsSequence(candidates')
      BY <2>1 DEF CandidateKeys
    <2>6. ASSUME NEW r \in DOMAIN pending_file_reads'
          PROVE  KeyOfRead(r)' \in ReadKeys \/ OwnTransfer(KeyOfRead(r)', p)
      <3>1. CASE r = own
        <4> DEFINE mine == [direction |-> "read", src |-> p.dst, dst |-> p.src, file |-> p.file]
        <4>1. KeyOfRead(r)' = mine
          BY <2>3, <3>1 DEF KeyOfRead
        <4>2. ActivityOf(mine) = [what |-> <<"service", "atomicReadFile">>, src |-> p.src, dst |-> p.dst]
          BY DEF ActivityOf
        <4>3. Flag(p) = <<<<"service", "atomicReadFile">>, p.file>>
          BY <1>2 DEF ReadFileRequest, Flag, FileServices
        <4>4. KeyOf(p) = [what |-> <<"service", "atomicReadFile">>, src |-> p.src, dst |-> p.dst]
          BY <4>3 DEF KeyOf
        <4>5. mine.file = p.file
          OBVIOUS
        <4> HIDE DEF mine
        <4> QED
          BY <1>2, <4>1, <4>2, <4>3, <4>4, <4>5 DEF OwnTransfer
      <3>2. CASE r # own
        <4>1. KeyOfRead(r)' = KeyOfRead(r) /\ r \in DOMAIN pending_file_reads
          BY <2>2, <2>3, <3>2 DEF KeyOfRead
        <4> QED
          BY <4>1 DEF ReadKeys
      <3> QED
        BY <3>1, <3>2
    <2>7. \A key \in ReadKeys' : key \in ReadKeys \/ OwnTransfer(key, p)
      BY <2>4, <2>6
    <2> QED
      BY <2>1, <2>5, <2>7 DEF SeenKeys
  <1> QED
    BY <1>1, <1>2

LEMMA WriteRequestKeys ==
    ASSUME IsSequence(candidates), NEW p, WriteRequest(p)
    PROVE  /\ IsSequence(candidates')
           /\ \A key \in SeenKeys' : key \in SeenKeys \/ OwnTransfer(key, p)
  <1>1. CASE p.file = Nothing
    <2>1. UNCHANGED filesVars
      BY <1>1 DEF WriteRequest
    <2> QED
      BY <2>1, SameFiles
  <1>2. CASE p.file # Nothing
    <2> DEFINE mine == [direction |-> "write", src |-> p.src, dst |-> p.dst, file |-> p.file]
    <2>1. AbsorbFileData(mine, p.apdu) /\ pending_file_reads' = pending_file_reads
      BY <1>2 DEF WriteRequest, WriteFileRequest
    <2>2. ActivityOf(mine) = [what |-> <<"service", "atomicWriteFile">>, src |-> p.src, dst |-> p.dst]
      BY DEF ActivityOf
    <2>3. Flag(p) = <<<<"service", "atomicWriteFile">>, p.file>>
      BY <1>2 DEF WriteRequest, Flag, FileServices
    <2>4. KeyOf(p) = [what |-> <<"service", "atomicWriteFile">>, src |-> p.src, dst |-> p.dst]
      BY <2>3 DEF KeyOf
    <2>5. mine.file = p.file
      OBVIOUS
    <2> HIDE DEF mine
    <2>6. OwnTransfer(mine, p)
      BY <1>2, <2>2, <2>3, <2>4, <2>5 DEF OwnTransfer
    <2>7. /\ IsSequence(candidates')
          /\ DOMAIN file_buffers' \subseteq DOMAIN file_buffers \union {mine}
          /\ CandidateKeys' \subseteq CandidateKeys \union {mine}
      BY <2>1, AbsorbKeys
    <2>8. ReadKeys' = ReadKeys
      BY <2>1 DEF ReadKeys, KeyOfRead
    <2> QED
      BY <2>6, <2>7, <2>8 DEF SeenKeys
  <1> QED
    BY <1>1, <1>2

LEMMA AckKeys ==
    ASSUME IsSequence(candidates), NEW p, ComplexAck(p)
    PROVE  IsSequence(candidates') /\ SeenKeys' \subseteq SeenKeys
  <1>1. CASE UNCHANGED filesVars
    BY <1>1, SameFiles
  <1>2. CASE MatchedAck(p.src, p.dst, p.invoke, p.apdu)
    <2> DEFINE request == RequestOf(p.src, p.dst, p.invoke)
               mine == [direction |-> "read", src |-> p.src, dst |-> p.dst,
                        file |-> pending_file_reads[request]]
    <2>1. /\ request \in DOMAIN pending_file_reads
          /\ AbsorbFileData(mine, p.apdu)
          /\ pending_file_reads' = Without(pending_file_reads, request)
      BY <1>2 DEF MatchedAck
    <2>2. mine = KeyOfRead(request)
      BY DEF KeyOfRead, RequestOf
    <2>3. mine \in ReadKeys
      BY <2>1, <2>2 DEF ReadKeys
    <2> HIDE DEF request, mine
    <2>4. /\ IsSequence(candidates')
          /\ DOMAIN file_buffers' \subseteq DOMAIN file_buffers \union {mine}
          /\ CandidateKeys' \subseteq CandidateKeys \union {mine}
      BY <2>1, AbsorbKeys
    <2>5. /\ DOMAIN pending_file_reads' \subseteq DOMAIN pending_file_reads
          /\ \A r \in DOMAIN pending_file_reads' : pending_file_reads'[r] = pending_file_reads[r]
      BY <2>1 DEF Without
    <2>6. ReadKeys' \subseteq ReadKeys
      BY <2>5 DEF ReadKeys, KeyOfRead
    <2> QED
      BY <2>3, <2>4, <2>6 DEF SeenKeys
  <1> QED
    BY <1>1, <1>2 DEF ComplexAck, ReadFileAck, UnmatchedAck

LEMMA ProcessTransfers ==
    ASSUME IsSequence(candidates), NEW p, ProcessPacket(p)
    PROVE  /\ IsSequence(candidates')
           /\ \A key \in SeenKeys' : key \in SeenKeys \/ OwnTransfer(key, p)
  <1>1. CASE ReadFileRequest(p)
    BY <1>1, ReadRequestKeys
  <1>2. CASE WriteRequest(p)
    BY <1>2, WriteRequestKeys
  <1>3. CASE ComplexAck(p)
    BY <1>3, AckKeys
  <1>4. CASE UNCHANGED filesVars
    BY <1>4, SameFiles
  <1>5. ReadFileRequest(p) \/ WriteRequest(p) \/ ComplexAck(p) \/ UNCHANGED filesVars
    BY DEF ProcessPacket, ControlFunction, UnreadableNpdu, NetworkMessage, ShortApdu, OtherApdu,
       RoutineRequest, CommandRequest, WhoIs, Unconfirmed, IgnoredIAm, IAm, ErrorApdu, Reject, Abort,
       RefusedRead
  <1> QED
    BY <1>1, <1>2, <1>3, <1>4, <1>5

LEMMA FiniteBuffers ==
    ASSUME IsSequence(candidates), IsFiniteSet(DOMAIN file_buffers), NEW p, ProcessPacket(p)
    PROVE  IsFiniteSet(DOMAIN file_buffers')
  <1>1. ASSUME NEW key, NEW apdu, AbsorbFileData(key, apdu)
        PROVE  IsFiniteSet(DOMAIN file_buffers')
    <2>1. DOMAIN file_buffers' \subseteq DOMAIN file_buffers \union {key}
      BY <1>1, AbsorbKeys
    <2>2. IsFiniteSet(DOMAIN file_buffers \union {key})
      BY FS_AddElement
    <2> QED
      BY <2>1, <2>2, FS_Subset
  <1>2. CASE WriteRequest(p)
    BY <1>1, <1>2 DEF WriteRequest, WriteFileRequest, filesVars
  <1>3. CASE ComplexAck(p)
    BY <1>1, <1>3 DEF ComplexAck, ReadFileAck, UnmatchedAck, MatchedAck, filesVars
  <1>4. CASE ReadFileRequest(p)
    BY <1>4 DEF ReadFileRequest, RememberFileRead, filesVars
  <1>5. CASE UNCHANGED filesVars
    BY <1>5 DEF filesVars
  <1>6. ReadFileRequest(p) \/ WriteRequest(p) \/ ComplexAck(p) \/ UNCHANGED filesVars
    BY DEF ProcessPacket, ControlFunction, UnreadableNpdu, NetworkMessage, ShortApdu, OtherApdu,
       RoutineRequest, CommandRequest, WhoIs, Unconfirmed, IgnoredIAm, IAm, ErrorApdu, Reject, Abort,
       RefusedRead
  <1> QED
    BY <1>2, <1>3, <1>4, <1>5, <1>6

\* The end of the capture makes candidates of what the buffers hold.
LEMMA FinalizeKeys ==
    ASSUME IsSequence(candidates), IsFiniteSet(DOMAIN file_buffers), FinalizeFiles
    PROVE  IsSequence(candidates') /\ SeenKeys' \subseteq SeenKeys
  <1> DEFINE full == {key \in DOMAIN file_buffers : file_buffers[key].data # << >>}
  <1>1. PICK order \in SetToSeqs(full) :
          candidates' = candidates
                          \o [i \in DOMAIN order |-> Candidate(order[i], file_buffers[order[i]])]
    BY DEF FinalizeFiles
  <1>2. DOMAIN file_buffers' = {} /\ DOMAIN pending_file_reads' = {}
    BY DEF FinalizeFiles
  <1> DEFINE last == [i \in DOMAIN order |-> Candidate(order[i], file_buffers[order[i]])]
             n == Cardinality(full)
  <1>3. order \in [1 .. n -> full]
    BY DEF SetToSeqs
  <1>0. n \in Nat
    BY FS_Subset, FS_CardinalityType
  <1>4. IsSequence(last) /\ \A c \in ToSet(last) : c.key \in DOMAIN file_buffers
    <2>0. full \subseteq DOMAIN file_buffers
      OBVIOUS
    <2> HIDE DEF full, n
    <2>1. DOMAIN order = 1 .. n /\ \A i \in 1 .. n : order[i] \in DOMAIN file_buffers
      BY <1>3, <2>0
    <2>2. \A i \in 1 .. n : last[i].key = order[i]
      BY <2>1 DEF Candidate
    <2>3. last = [i \in 1 .. n |-> Candidate(order[i], file_buffers[order[i]])]
      BY <2>1
    <2> HIDE DEF last
    <2>4. DOMAIN last = 1 .. n /\ last = [i \in 1 .. n |-> last[i]]
      BY <2>3
    <2>5. ToSet(last) = {last[i] : i \in 1 .. n}
      BY <2>4 DEF ToSet
    <2>6. last \in [1 .. n -> ToSet(last)]
      BY <2>4, <2>5
    <2>7. IsSequence(last)
      BY <1>0, <2>6, SeqDef DEF IsSequence
    <2> QED
      BY <2>1, <2>2, <2>5, <2>7
  <1> HIDE DEF last, full
  <1>5. IsSequence(candidates') /\ ToSet(candidates') = ToSet(candidates) \union ToSet(last)
    BY <1>1, <1>4, JoinedSequences DEF last
  <1>6. CandidateKeys' = {c.key : c \in ToSet(candidates')}
    BY DEF CandidateKeys
  <1>7. CandidateKeys' \subseteq CandidateKeys \union DOMAIN file_buffers
    BY <1>4, <1>5, <1>6 DEF CandidateKeys
  <1>8. ReadKeys' = {}
    BY <1>2 DEF ReadKeys
  <1> QED
    BY <1>2, <1>5, <1>7, <1>8 DEF SeenKeys

-----------------------------------------------------------------------------
\* TransfersFlagged is said of the reads that have been asked for, too: their
\* data comes later, when the observation was made with the request.
FlaggedInv ==
    /\ ObservationsInv
    /\ IsSequence(candidates)
    /\ IsFiniteSet(DOMAIN file_buffers)
    /\ Cardinality(DOMAIN observations) < MaxObservations =>
         \A key \in SeenKeys : FlaggedTransfer(key)

LEMMA InitTransfers == Init => FlaggedInv
  <1> SUFFICES ASSUME Init PROVE FlaggedInv
    OBVIOUS
  <1>1. ObservationsInv
    BY InitObservations
  <1>2. candidates = << >> /\ DOMAIN file_buffers = {} /\ DOMAIN pending_file_reads = {}
    BY DEF Init, DecoderInit, FilesInit
  <1>3. IsSequence(candidates) /\ ToSet(candidates) = {}
    BY <1>2 DEF IsSequence, ToSet
  <1>4. SeenKeys = {}
    BY <1>2, <1>3 DEF SeenKeys, CandidateKeys, ReadKeys
  <1> QED
    BY <1>1, <1>2, <1>3, <1>4, FS_EmptySet DEF FlaggedInv

LEMMA StaysFlagged ==
    ASSUME NEW key, FlaggedTransfer(key), ObservationsGrow
    PROVE  FlaggedTransfer(key)'
  <1> DEFINE own == ActivityOf(key)
  <1>1. /\ own \in DOMAIN observations
        /\ \/ key.file \in ToSet(observations[own].details)
           \/ Len(observations[own].details) >= MaxDetails
    BY DEF FlaggedTransfer
  <1>2. /\ own \in DOMAIN observations'
        /\ ToSet(observations[own].details) \subseteq ToSet(observations'[own].details)
        /\ Len(observations[own].details) >= MaxDetails =>
             Len(observations'[own].details) >= MaxDetails
    BY <1>1 DEF ObservationsGrow
  <1>3. FlaggedTransfer(key)' <=>
          /\ own \in DOMAIN observations'
          /\ \/ key.file \in ToSet(observations'[own].details)
             \/ Len(observations'[own].details) >= MaxDetails
    BY DEF FlaggedTransfer, ActivityOf
  <1> HIDE DEF own
  <1> QED
    BY <1>1, <1>2, <1>3

LEMMA OwnFlagged ==
    ASSUME NEW p, NEW key, OwnTransfer(key, p), OwnNoted(p)
    PROVE  FlaggedTransfer(key)'
  <1> DEFINE own == ActivityOf(key)
  <1>1. /\ own \in DOMAIN observations'
        /\ \/ key.file \in ToSet(observations'[own].details)
           \/ Len(observations'[own].details) >= MaxDetails
    BY DEF OwnTransfer, OwnNoted
  <1>2. FlaggedTransfer(key)' <=>
          /\ own \in DOMAIN observations'
          /\ \/ key.file \in ToSet(observations'[own].details)
             \/ Len(observations'[own].details) >= MaxDetails
    BY DEF FlaggedTransfer, ActivityOf
  <1> HIDE DEF own
  <1> QED
    BY <1>1, <1>2

LEMMA NextTransfers == FlaggedInv /\ [Next]_vars => FlaggedInv'
  <1> SUFFICES ASSUME FlaggedInv, [Next]_vars PROVE FlaggedInv'
    OBVIOUS
  <1>1. ObservationsInv'
    BY NextObservations DEF FlaggedInv
  <1>2. ASSUME NEW p \in Traffic, Capture(p) PROVE FlaggedInv'
    <2>1. /\ arrivals' = Append(arrivals, p) /\ observations' = Noted(p)
          /\ ProcessPacket(p)
      BY <1>2, ProcessNotes DEF Capture
    <2>2. /\ ObservationsGrow
          /\ Cardinality(DOMAIN observations') < MaxObservations =>
               /\ Cardinality(DOMAIN observations) < MaxObservations
               /\ Flag(p) # << >> => OwnNoted(p)
      BY <2>1, CaptureObserves DEF FlaggedInv
    <2>3. /\ IsSequence(candidates')
          /\ \A key \in SeenKeys' : key \in SeenKeys \/ OwnTransfer(key, p)
      BY <2>1, ProcessTransfers DEF FlaggedInv
    <2>4. IsFiniteSet(DOMAIN file_buffers')
      BY <2>1, FiniteBuffers DEF FlaggedInv
    <2>5. ASSUME Cardinality(DOMAIN observations') < MaxObservations, NEW key \in SeenKeys'
          PROVE  FlaggedTransfer(key)'
      <3>1. CASE key \in SeenKeys
        <4>1. FlaggedTransfer(key)
          BY <2>2, <2>5, <3>1 DEF FlaggedInv
        <4> QED
          BY <2>2, <4>1, StaysFlagged
      <3>2. CASE OwnTransfer(key, p)
        <4>1. OwnNoted(p)
          BY <2>2, <2>5, <3>2 DEF OwnTransfer
        <4> QED
          BY <3>2, <4>1, OwnFlagged
      <3> QED
        BY <2>3, <3>1, <3>2
    <2> QED
      BY <1>1, <2>3, <2>4, <2>5 DEF FlaggedInv
  <1>3. ASSUME observations' = observations, SeenKeys' \subseteq SeenKeys,
               IsSequence(candidates'), IsFiniteSet(DOMAIN file_buffers')
        PROVE  FlaggedInv'
    <2>1. ASSUME NEW key PROVE FlaggedTransfer(key)' <=> FlaggedTransfer(key)
      BY <1>3 DEF FlaggedTransfer, ActivityOf
    <2> QED
      BY <1>1, <1>3, <2>1 DEF FlaggedInv
  <1>4. CASE Finish
    <2>1. FinalizeFiles /\ observations' = observations
      BY <1>4 DEF Finish, FinalizeDecoder, inventoryVars
    <2>2. IsSequence(candidates') /\ SeenKeys' \subseteq SeenKeys
      BY <2>1, FinalizeKeys DEF FlaggedInv
    <2>3. IsFiniteSet(DOMAIN file_buffers')
      BY <2>1, FS_EmptySet DEF FinalizeFiles
    <2> QED
      BY <1>3, <2>1, <2>2, <2>3
  <1>5. CASE UNCHANGED vars
    <2>1. UNCHANGED filesVars /\ observations' = observations
      BY <1>5 DEF vars, inventoryVars
    <2>2. IsSequence(candidates') /\ SeenKeys' = SeenKeys
      BY <2>1, SameFiles DEF FlaggedInv
    <2>3. IsFiniteSet(DOMAIN file_buffers')
      BY <2>1 DEF FlaggedInv, filesVars
    <2> QED
      BY <1>3, <2>1, <2>2, <2>3
  <1> QED
    BY <1>2, <1>4, <1>5 DEF Next

\* Whoever's file is in the report, or will be, is in the observations as
\* long as these have room, with the file's name unless the details are full.
THEOREM TransfersFlaggedHolds == Spec => []TransfersFlagged
  <1>1. FlaggedInv => TransfersFlagged
    <2> SUFFICES ASSUME FlaggedInv, Cardinality(DOMAIN observations) < MaxObservations,
                        NEW key \in DOMAIN file_buffers \union {candidates[i].key : i \in DOMAIN candidates}
                 PROVE  FlaggedTransfer(key)
      BY DEF TransfersFlagged
    <2>1. key \in SeenKeys
      BY DEF SeenKeys, CandidateKeys, ToSet
    <2> QED
      BY <2>1 DEF FlaggedInv
  <1>2. Spec => []FlaggedInv
    BY InitTransfers, NextTransfers, PTL DEF Spec
  <1> QED
    BY <1>1, <1>2, PTL
=============================================================================
