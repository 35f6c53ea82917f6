--------------------------- MODULE OperatorProofs ----------------------------
(***************************************************************************)
(* Facts about the operators that several components share, for the proofs *)
(* about those components to cite.  Of TcpDirection: what the comparison   *)
(* of sequence numbers gives, for every even modulus, and what the methods *)
(* return, whatever the bytes are.  Of FirstComers: what it says of a      *)
(* capture when the capture grows by a packet that competes, which is what *)
(* the proofs about bounded tables rest on.                                *)
(***************************************************************************)
EXTENDS FirstComers, TcpDirection, SequenceTheorems, FiniteSetTheorems, WellFoundedInduction, TLAPS

\* Half of the space, and the remainders of numbers up to one lap away.
LEMMA Half == SeqSpace \div 2 \in Nat /\ 2 * (SeqSpace \div 2) = SeqSpace
  BY SeqSpaceAssumption, Z3

LEMMA ModInside ==
    ASSUME NEW a \in 0 .. SeqSpace - 1
    PROVE  a % SeqSpace = a
  BY SeqSpaceAssumption, Z3

LEMMA ModBelow ==
    ASSUME NEW a \in Int, -SeqSpace <= a, a < 0
    PROVE  a % SeqSpace = a + SeqSpace
  BY SeqSpaceAssumption, Z3

LEMMA ModAbove ==
    ASSUME NEW a \in Int, SeqSpace <= a, a < 2 * SeqSpace
    PROVE  a % SeqSpace = a - SeqSpace
  BY SeqSpaceAssumption, Z3

-----------------------------------------------------------------------------
\* The signed distance by cases, without the remainder.
LEMMA SeqDiffCases ==
    ASSUME NEW s \in SeqNumber, NEW t \in SeqNumber
    PROVE  SeqDiff(s, t) =
             IF s - t >= SeqSpace \div 2 THEN s - t - SeqSpace
             ELSE IF s - t < -(SeqSpace \div 2) THEN s - t + SeqSpace
             ELSE s - t
  <1> DEFINE half == SeqSpace \div 2
  <1>1. half \in Nat /\ 2 * half = SeqSpace /\ SeqSpace \in Nat
    BY Half, SeqSpaceAssumption
  <1>2. s \in Int /\ t \in Int /\ s - t < SeqSpace /\ s - t > -SeqSpace
    BY <1>1 DEF SeqNumber
  <1>3. CASE s - t >= 0
    <2>1. (s - t) % SeqSpace = s - t
      BY <1>1, <1>2, <1>3, ModInside
    <2> QED
      BY <1>1, <1>2, <1>3, <2>1 DEF SeqDiff
  <1>4. CASE s - t < 0
    <2>1. (s - t) % SeqSpace = s - t + SeqSpace
      BY <1>1, <1>2, <1>4, ModBelow
    <2> QED
      BY <1>1, <1>2, <1>4, <2>1 DEF SeqDiff
  <1> QED
    BY <1>2, <1>3, <1>4

\* A distance lies in the lower half-open half of the space.
THEOREM SeqDiffType ==
    ASSUME NEW s \in SeqNumber, NEW t \in SeqNumber
    PROVE  SeqDiff(s, t) \in -(SeqSpace \div 2) .. (SeqSpace \div 2) - 1
  <1>1. s \in Int /\ t \in Int /\ s - t < SeqSpace /\ s - t > -SeqSpace
    BY SeqSpaceAssumption DEF SeqNumber
  <1> QED
    BY <1>1, SeqDiffCases, Half, SeqSpaceAssumption

\* Only equal numbers are no distance apart: the test for the expected
\* segment (line 65) and the test for a distance of zero agree.
THEOREM SeqDiffZero ==
    ASSUME NEW s \in SeqNumber, NEW t \in SeqNumber
    PROVE  SeqDiff(s, t) = 0 <=> s = t
  <1>1. s \in Int /\ t \in Int /\ s - t < SeqSpace /\ s - t > -SeqSpace
    BY SeqSpaceAssumption DEF SeqNumber
  <1> QED
    BY <1>1, SeqDiffCases, Half, SeqSpaceAssumption

\* Two numbers are before and after each other consistently, except those
\* half the space apart, each of which comes before the other.
THEOREM SeqDiffAntisymmetric ==
    ASSUME NEW s \in SeqNumber, NEW t \in SeqNumber
    PROVE  IF SeqDiff(s, t) = -(SeqSpace \div 2)
             THEN SeqDiff(t, s) = -(SeqSpace \div 2)
             ELSE SeqDiff(t, s) = -SeqDiff(s, t)
  <1>1. s \in Int /\ t \in Int /\ s - t < SeqSpace /\ s - t > -SeqSpace
    BY SeqSpaceAssumption DEF SeqNumber
  <1>2. SeqDiff(t, s) = IF t - s >= SeqSpace \div 2 THEN t - s - SeqSpace
                        ELSE IF t - s < -(SeqSpace \div 2) THEN t - s + SeqSpace
                        ELSE t - s
    BY SeqDiffCases
  <1> QED
    BY <1>1, <1>2, SeqDiffCases, Half, SeqSpaceAssumption

\* Advancing a number by less than half the space is measured exactly, also
\* when the sum wraps: this is what the overlap with what was received and
\* the gap before what was not are computed from.
THEOREM SeqDiffOfSeqAdd ==
    ASSUME NEW s \in SeqNumber, NEW n \in 0 .. (SeqSpace \div 2) - 1
    PROVE  SeqAdd(s, n) \in SeqNumber /\ SeqDiff(SeqAdd(s, n), s) = n
  <1>1. s \in Int /\ n \in Int /\ 0 <= s /\ s < SeqSpace /\ 0 <= n /\ n < SeqSpace
    BY Half, SeqSpaceAssumption DEF SeqNumber
  <1>2. CASE s + n < SeqSpace
    <2>1. SeqAdd(s, n) = s + n
      BY <1>1, <1>2, ModInside, SeqSpaceAssumption DEF SeqAdd
    <2>2. SeqAdd(s, n) \in SeqNumber
      BY <1>1, <1>2, <2>1, SeqSpaceAssumption DEF SeqNumber
    <2> QED
      BY <1>1, <2>1, <2>2, SeqDiffCases, Half, SeqSpaceAssumption
  <1>3. CASE s + n >= SeqSpace
    <2>1. SeqAdd(s, n) = s + n - SeqSpace
      BY <1>1, <1>3, ModAbove, SeqSpaceAssumption DEF SeqAdd
    <2>2. SeqAdd(s, n) \in SeqNumber
      BY <1>1, <1>3, <2>1, SeqSpaceAssumption DEF SeqNumber
    <2>3. SeqAdd(s, n) - s < -(SeqSpace \div 2)
      BY <1>1, <2>1, Half, SeqSpaceAssumption
    <2>4. SeqDiff(SeqAdd(s, n), s) = SeqAdd(s, n) - s + SeqSpace
      <3> DEFINE m == SeqAdd(s, n)
      <3>1. ~(m - s >= SeqSpace \div 2)
        BY <1>1, <2>1, <2>3, Half, SeqSpaceAssumption
      <3> HIDE DEF m
      <3> QED
        BY <2>2, <2>3, <3>1, SeqDiffCases DEF m
    <2> QED
      BY <1>1, <2>1, <2>2, <2>4, SeqSpaceAssumption
  <1> QED
    BY <1>1, <1>2, <1>3, SeqSpaceAssumption

\* Advancing twice, by less than a lap, is advancing once.
LEMMA SeqAddTwice ==
    ASSUME NEW s \in SeqNumber, NEW a \in Nat, NEW b \in Nat, a + b < SeqSpace
    PROVE  SeqAdd(SeqAdd(s, a), b) = SeqAdd(s, a + b)
  <1>1. s \in Int /\ 0 <= s /\ s < SeqSpace /\ SeqSpace \in Nat
    BY SeqSpaceAssumption DEF SeqNumber
  <1>2. CASE s + a + b < SeqSpace
    <2>1. SeqAdd(s, a) = s + a /\ SeqAdd(s, a + b) = s + (a + b) /\ (s + a) + b \in 0 .. SeqSpace - 1
      BY <1>1, <1>2, ModInside DEF SeqAdd
    <2> QED
      BY <1>1, <2>1, ModInside DEF SeqAdd
  <1>3. CASE s + a + b >= SeqSpace
    <2>1. SeqAdd(s, a + b) = s + a + b - SeqSpace
      BY <1>1, <1>3, ModAbove DEF SeqAdd
    <2>2. CASE s + a < SeqSpace
      <3>1. SeqAdd(s, a) = s + a
        BY <1>1, <2>2, ModInside DEF SeqAdd
      <3> QED
        BY <1>1, <1>3, <2>1, <3>1, ModAbove DEF SeqAdd
    <2>3. CASE s + a >= SeqSpace
      <3>1. SeqAdd(s, a) = s + a - SeqSpace
        BY <1>1, <2>3, ModAbove DEF SeqAdd
      <3> QED
        BY <1>1, <1>3, <2>1, <3>1, ModInside DEF SeqAdd
    <2> QED
      BY <1>1, <2>2, <2>3
  <1> QED
    BY <1>1, <1>2, <1>3

-----------------------------------------------------------------------------
\* A set of numbers with 0 and the successors of its members has them all.
LEMMA Induction ==
    ASSUME NEW S \in SUBSET Nat, 0 \in S, \A n \in S : n + 1 \in S
    PROVE  S = Nat
  <1> SUFFICES ASSUME Nat \ S # {} PROVE FALSE
    OBVIOUS
  <1>1. PICK x \in Nat \ S : \A y \in Nat \ S : ~ (<<y, x>> \in OpToRel(<, Nat))
    BY NatLessThanWellFounded, WFMin
  <1>2. \A y \in Nat \ S : ~ (y < x)
    BY <1>1 DEF OpToRel
  <1>3. x \in Nat /\ x # 0
    OBVIOUS
  <1>4. x - 1 \in Nat /\ x - 1 < x
    BY <1>3
  <1>5. x - 1 \in S
    BY <1>2, <1>4
  <1>6. (x - 1) + 1 \in S
    BY <1>5
  <1> QED
    BY <1>3, <1>6

LEMMA MinOfTwo ==
    ASSUME NEW x \in Int, NEW y \in Int
    PROVE  Min({x, y}) = IF x <= y THEN x ELSE y
  <1> DEFINE z == IF x <= y THEN x ELSE y
  <1>1. z \in {x, y} /\ \A u \in {x, y} : z <= u
    OBVIOUS
  <1>2. ASSUME NEW v \in {x, y}, \A u \in {x, y} : v <= u PROVE v = z
    BY <1>2
  <1>3. Min({x, y}) \in {x, y} /\ \A u \in {x, y} : Min({x, y}) <= u
    BY <1>1, Zenon DEF Min
  <1> QED
    BY <1>2, <1>3

-----------------------------------------------------------------------------
\* f[n] is the first n sequences of t, put together.
Flattening(f, t, n) == f = [i \in 1 .. n |-> IF i = 1 THEN t[i] ELSE f[i - 1] \o t[i]]

LEMMA FlattenDefined ==
    ASSUME NEW t, NEW n \in Nat
    PROVE  \E f : Flattening(f, t, n)
  <1> DEFINE S == {m \in Nat : \E f : Flattening(f, t, m)}
  <1>1. 0 \in S
    <2> DEFINE f == [i \in 1 .. 0 |-> t[1]]
    <2>1. Flattening(f, t, 0)
      BY DEF Flattening
    <2> QED
      BY <2>1
  <1>2. ASSUME NEW m \in S PROVE m + 1 \in S
    <2>1. PICK f : Flattening(f, t, m)
      OBVIOUS
    <2> DEFINE g == [i \in 1 .. m + 1 |-> IF i = 1 THEN t[i]
                                          ELSE IF i = m + 1 THEN f[m] \o t[i] ELSE f[i]]
               h == [i \in 1 .. m + 1 |-> IF i = 1 THEN t[i] ELSE g[i - 1] \o t[i]]
    <2>2. ASSUME NEW i \in 1 .. m + 1 PROVE g[i] = h[i]
      <3>1. CASE i = 1
        BY <3>1
      <3>2. CASE i # 1 /\ i = m + 1
        <4>1. m \in 1 .. m /\ m \in 1 .. m + 1 /\ m # m + 1 /\ i - 1 = m
          BY <3>2
        <4>2. f[m] = IF m = 1 THEN t[m] ELSE f[m - 1] \o t[m]
          BY <2>1, <4>1 DEF Flattening
        <4>3. g[m] = f[m]
          BY <4>1, <4>2
        <4> QED
          BY <3>2, <4>1, <4>3
      <3>3. CASE i # 1 /\ i # m + 1
        <4>1. i \in 1 .. m /\ i - 1 \in 1 .. m /\ i - 1 \in 1 .. m + 1 /\ i - 1 # m + 1
          BY <3>3
        <4>2. f[i] = f[i - 1] \o t[i] /\ (i - 1 = 1 => f[i - 1] = t[i - 1])
          BY <2>1, <3>3, <4>1 DEF Flattening
        <4>3. g[i] = f[i] /\ g[i - 1] = f[i - 1]
          BY <3>3, <4>1, <4>2
        <4> QED
          BY <3>3, <4>2, <4>3
      <3> QED
        BY <3>1, <3>2, <3>3
    <2>3. g = h
      BY <2>2
    <2> HIDE DEF g
    <2>4. Flattening(g, t, m + 1)
      BY <2>3 DEF Flattening
    <2>5. m + 1 \in Nat
      OBVIOUS
    <2> QED
      BY <2>4, <2>5
  <1>3. S \subseteq Nat
    OBVIOUS
  <1> HIDE DEF S
  <1>4. S = Nat
    BY <1>1, <1>2, <1>3, Induction
  <1> USE DEF S
  <1> QED
    BY <1>4

\* What FlattenSeq is, without its CHOOSE.
Flattens(f, t) ==
    /\ f[1] = t[1]
    /\ \A i \in 2 .. Len(t) : f[i] = f[i - 1] \o t[i]
    /\ FlattenSeq(t) = f[Len(t)]

LEMMA FlattenIs ==
    ASSUME NEW t, Len(t) \in Nat, Len(t) # 0
    PROVE  \E f : Flattens(f, t)
  <1> DEFINE f == CHOOSE f : Flattening(f, t, Len(t))
             n == Len(t)
  <1>1. Flattening(f, t, Len(t))
    BY FlattenDefined
  <1>2. FlattenSeq(t) = f[Len(t)]
    BY Zenon DEF FlattenSeq, Flattening
  <1> HIDE DEF f, n
  <1>3. f = [i \in 1 .. n |-> IF i = 1 THEN t[i] ELSE f[i - 1] \o t[i]]
    BY <1>1 DEF Flattening, n
  <1>4. ASSUME NEW i \in 1 .. n PROVE f[i] = IF i = 1 THEN t[i] ELSE f[i - 1] \o t[i]
    BY <1>3, Zenon
  <1>5. n \in Nat /\ n # 0
    BY DEF n
  <1>6. 1 \in 1 .. n /\ \A i \in 2 .. n : i \in 1 .. n /\ i # 1
    BY <1>5
  <1>7. f[1] = t[1] /\ \A i \in 2 .. n : f[i] = f[i - 1] \o t[i]
    BY <1>4, <1>6, Zenon
  <1> QED
    BY <1>2, <1>7 DEF Flattens, n

LEMMA FlattenAppend ==
    ASSUME NEW T, NEW t \in Seq(Seq(T)), NEW e \in Seq(T)
    PROVE  /\ FlattenSeq(t) \in Seq(T)
           /\ FlattenSeq(Append(t, e)) = FlattenSeq(t) \o e
  <1> DEFINE n == Len(t)
             t2 == Append(t, e)
  <1>1. n \in Nat /\ t2 \in Seq(Seq(T)) /\ Len(t2) = n + 1 /\ t2[n + 1] = e
        /\ \A i \in 1 .. n : t2[i] = t[i] /\ t[i] \in Seq(T)
    BY AppendProperties
  <1> HIDE DEF n, t2
  <1>2. PICK g : Flattens(g, t2)
    BY <1>1, FlattenIs
  <1>3. /\ g[1] = t2[1] /\ \A i \in 2 .. n + 1 : g[i] = g[i - 1] \o t2[i]
        /\ FlattenSeq(t2) = g[n + 1]
    BY <1>1, <1>2 DEF Flattens
  <1>4. CASE n = 0
    <2>1. t = << >>
      BY <1>4 DEF n
    <2>2. FlattenSeq(t) = << >>
      BY <2>1, Zenon DEF FlattenSeq
    <2>3. FlattenSeq(t2) = e
      BY <1>1, <1>2, <1>3, <1>4
    <2> QED
      BY <2>2, <2>3, ConcatEmptySeq DEF t2
  <1>5. CASE n # 0
    <2>1. PICK f : Flattens(f, t)
      BY <1>1, <1>5, FlattenIs DEF n
    <2>2. /\ f[1] = t[1] /\ \A i \in 2 .. n : f[i] = f[i - 1] \o t[i]
          /\ FlattenSeq(t) = f[n]
      BY <2>1 DEF Flattens, n
    <2> DEFINE S == {i \in Nat : i + 1 \in 1 .. n => g[i + 1] = f[i + 1] /\ f[i + 1] \in Seq(T)}
    <2>3. 0 \in S
      BY <1>1, <1>3, <1>5, <2>2
    <2>4. ASSUME NEW i \in S PROVE i + 1 \in S
      <3>1. SUFFICES ASSUME (i + 1) + 1 \in 1 .. n
                     PROVE  g[(i + 1) + 1] = f[(i + 1) + 1] /\ f[(i + 1) + 1] \in Seq(T)
        OBVIOUS
      <3> DEFINE j == i + 1
      <3>2. j + 1 \in 2 .. n /\ (j + 1) - 1 = j /\ j + 1 \in 2 .. n + 1 /\ j + 1 \in 1 .. n /\ j \in 1 .. n
        BY <1>1, <3>1
      <3>3. g[j] = f[j] /\ f[j] \in Seq(T)
        BY <3>2
      <3> HIDE DEF j
      <3>4. g[j + 1] = g[j] \o t2[j + 1] /\ f[j + 1] = f[j] \o t[j + 1]
            /\ t2[j + 1] = t[j + 1] /\ t[j + 1] \in Seq(T)
        BY <1>1, <1>3, <2>2, <3>2
      <3>5. g[j + 1] = f[j + 1] /\ f[j + 1] \in Seq(T)
        BY <3>3, <3>4, ConcatProperties
      <3> QED
        BY <3>5 DEF j
    <2>5. S \subseteq Nat
      OBVIOUS
    <2> HIDE DEF S
    <2>6. S = Nat
      BY <2>3, <2>4, <2>5, Induction
    <2>7. n - 1 \in S /\ (n - 1) + 1 = n
      <3>1. n - 1 \in Nat
        BY <1>1, <1>5
      <3> QED
        BY <1>1, <2>6, <3>1
    <2> USE DEF S
    <2>8. g[n] = f[n] /\ f[n] \in Seq(T)
      BY <1>1, <1>5, <2>7
    <2>9. g[n + 1] = g[n] \o t2[n + 1]
      <3>1. n + 1 \in 2 .. n + 1 /\ (n + 1) - 1 = n
        BY <1>1, <1>5
      <3> QED
        BY <1>3, <3>1
    <2> QED
      BY <1>1, <1>3, <2>2, <2>8, <2>9 DEF t2
  <1> QED
    BY <1>4, <1>5

LEMMA FlattenPrepend ==
    ASSUME NEW T, NEW t \in Seq(Seq(T)), NEW e \in Seq(T)
    PROVE  FlattenSeq(<<e>> \o t) = e \o FlattenSeq(t)
  <1> DEFINE n == Len(t)
             t2 == <<e>> \o t
  <1>1. n \in Nat /\ t2 \in Seq(Seq(T)) /\ Len(t2) = n + 1 /\ t2[1] = e
        /\ \A i \in 1 .. n : t2[i + 1] = t[i] /\ t[i] \in Seq(T)
    <2>1. <<e>> \in Seq(Seq(T)) /\ Len(<<e>>) = 1 /\ <<e>>[1] = e
      OBVIOUS
    <2>2. /\ t2 \in Seq(Seq(T)) /\ Len(t2) = 1 + n
          /\ \A i \in 1 .. 1 + n : t2[i] = IF i <= 1 THEN <<e>>[i] ELSE t[i - 1]
      BY <2>1, ConcatProperties
    <2> QED
      BY <2>1, <2>2
  <1> HIDE DEF n, t2
  <1>2. PICK g : Flattens(g, t2)
    BY <1>1, FlattenIs
  <1>3. /\ g[1] = t2[1] /\ \A i \in 2 .. n + 1 : g[i] = g[i - 1] \o t2[i]
        /\ FlattenSeq(t2) = g[n + 1]
    BY <1>1, <1>2 DEF Flattens
  <1>4. CASE n = 0
    <2>1. t = << >>
      BY <1>4 DEF n
    <2>2. FlattenSeq(t) = << >>
      BY <2>1, Zenon DEF FlattenSeq
    <2>3. FlattenSeq(t2) = e
      BY <1>1, <1>2, <1>3, <1>4
    <2> QED
      BY <2>2, <2>3, ConcatEmptySeq DEF t2
  <1>5. CASE n # 0
    <2>1. PICK f : Flattens(f, t)
      BY <1>1, <1>5, FlattenIs DEF n
    <2>2. /\ f[1] = t[1] /\ \A i \in 2 .. n : f[i] = f[i - 1] \o t[i]
          /\ FlattenSeq(t) = f[n]
      BY <2>1 DEF Flattens, n
    <2> DEFINE S == {i \in Nat : i + 1 \in 1 .. n => g[i + 2] = e \o f[i + 1] /\ f[i + 1] \in Seq(T)}
    <2>3. 0 \in S
      <3>1. 1 \in 1 .. n /\ 1 + 1 = 2 /\ 2 - 1 = 1 /\ 2 \in 2 .. n + 1
        BY <1>1, <1>5
      <3>2. f[1] \in Seq(T) /\ t2[2] = t[1] /\ g[2] = g[1] \o t2[2]
        BY <1>1, <1>3, <2>2, <3>1
      <3>3. g[2] = e \o f[1]
        BY <1>1, <1>3, <2>2, <3>2, Zenon
      <3> QED
        BY <3>2, <3>3
    <2>4. ASSUME NEW i \in S PROVE i + 1 \in S
      <3>1. SUFFICES ASSUME (i + 1) + 1 \in 1 .. n
                     PROVE  g[(i + 1) + 2] = e \o f[(i + 1) + 1] /\ f[(i + 1) + 1] \in Seq(T)
        OBVIOUS
      <3> DEFINE j == i + 1
      <3>2. j + 1 \in 2 .. n /\ (j + 1) - 1 = j /\ j + 1 \in 1 .. n /\ j \in 1 .. n
            /\ j + 2 \in 2 .. n + 1 /\ (j + 2) - 1 = j + 1 /\ (j + 1) + 1 = j + 2
        BY <1>1, <3>1
      <3>3. g[j + 1] = e \o f[j] /\ f[j] \in Seq(T)
        <4>1. i + 1 \in 1 .. n /\ i + 2 = j + 1
          BY <3>2
        <4> QED
          BY <4>1
      <3> HIDE DEF j
      <3>4. g[j + 2] = g[j + 1] \o t2[j + 2] /\ f[j + 1] = f[j] \o t[j + 1]
            /\ t2[j + 2] = t[j + 1] /\ t[j + 1] \in Seq(T)
        BY <1>1, <1>3, <2>2, <3>2
      <3> DEFINE u == f[j]
                 v == t[j + 1]
      <3>5. u \in Seq(T) /\ v \in Seq(T)
        BY <3>3, <3>4
      <3>6. g[j + 2] = (e \o u) \o v /\ f[j + 1] = u \o v
        BY <3>3, <3>4
      <3> HIDE DEF u, v
      <3>7. (e \o u) \o v = e \o (u \o v) /\ u \o v \in Seq(T)
        BY <3>5, ConcatAssociative, ConcatProperties
      <3>8. g[j + 2] = e \o f[j + 1] /\ f[j + 1] \in Seq(T)
        BY <3>6, <3>7
      <3> QED
        BY <3>8 DEF j
    <2>5. S \subseteq Nat
      OBVIOUS
    <2> HIDE DEF S
    <2>6. S = Nat
      BY <2>3, <2>4, <2>5, Induction
    <2>7. n - 1 \in S /\ (n - 1) + 1 = n /\ (n - 1) + 2 = n + 1
      <3>1. n - 1 \in Nat
        BY <1>1, <1>5
      <3> QED
        BY <1>1, <2>6, <3>1
    <2> USE DEF S
    <2>8. g[n + 1] = e \o f[n]
      BY <1>1, <1>5, <2>7
    <2> QED
      BY <1>1, <1>3, <2>2, <2>8 DEF t2
  <1> QED
    BY <1>4, <1>5

-----------------------------------------------------------------------------
\* The list l has the element e and those of list.
HasAlso(l, list, e) ==
    \A x : (\E i \in DOMAIN l : l[i] = x) <=> (x = e \/ \E i \in DOMAIN list : list[i] = x)

LEMMA InsertHas ==
    ASSUME NEW T, NEW list \in Seq(T), NEW e \in T, NEW n \in 0 .. Len(list)
    PROVE  InsertAt(list, n + 1, e) \in Seq(T) /\ HasAlso(InsertAt(list, n + 1, e), list, e)
  <1> DEFINE u == SubSeq(list, 1, n)
             w == SubSeq(list, n + 1, Len(list))
             v == <<e>>
             ue == u \o v
             l == ue \o w
             N == Len(list)
  <1>1. n \in Nat /\ N \in Nat /\ n <= N /\ DOMAIN list = 1 .. N /\ \A i \in 1 .. N : list[i] \in T
    OBVIOUS
  <1>2. u \in Seq(T) /\ Len(u) = n /\ \A i \in 1 .. n : u[i] = list[i]
    <2>1. \A i \in 1 .. n : list[i] \in T
      BY <1>1
    <2>2. /\ u \in Seq(T)
          /\ Len(u) = IF 1 <= n THEN n - 1 + 1 ELSE 0
          /\ \A i \in 1 .. n - 1 + 1 : u[i] = list[1 + i - 1]
      BY <1>1, <2>1, SubSeqProperties
    <2>3. n - 1 + 1 = n /\ \A i \in 1 .. n : 1 + i - 1 = i
      BY <1>1
    <2> QED
      BY <1>1, <2>2, <2>3
  <1>3. w \in Seq(T) /\ Len(w) = N - n /\ \A i \in 1 .. N - n : w[i] = list[n + i]
    <2>1. \A i \in n + 1 .. N : list[i] \in T
      BY <1>1
    <2>2. /\ w \in Seq(T)
          /\ Len(w) = IF n + 1 <= N THEN N - (n + 1) + 1 ELSE 0
          /\ \A i \in 1 .. N - (n + 1) + 1 : w[i] = list[(n + 1) + i - 1]
      BY <1>1, <2>1, SubSeqProperties
    <2>3. /\ N - (n + 1) + 1 = N - n /\ N - n = IF n + 1 <= N THEN N - (n + 1) + 1 ELSE 0
          /\ \A i \in 1 .. N - n : (n + 1) + i - 1 = n + i
      <3> HIDE DEF N
      <3> QED
        BY <1>1
    <2> HIDE DEF w, N
    <2> QED
      BY <1>1, <2>2, <2>3
  <1>4. v \in Seq(T) /\ Len(v) = 1 /\ v[1] = e
    OBVIOUS
  <1>5. InsertAt(list, n + 1, e) = l
    <2>1. (n + 1) - 1 = n
      BY <1>1
    <2> QED
      BY <2>1, Zenon DEF InsertAt
  <1> HIDE DEF u, v, w, ue, l, N
  <1>6. ue \in Seq(T) /\ Len(ue) = n + 1 /\ ue[n + 1] = e /\ \A i \in 1 .. n : ue[i] = list[i]
    <2>1. /\ ue \in Seq(T) /\ Len(ue) = n + 1
          /\ \A i \in 1 .. n + 1 : ue[i] = IF i <= n THEN u[i] ELSE v[i - n]
      <3>1. /\ ue \in Seq(T) /\ Len(ue) = Len(u) + Len(v)
            /\ \A i \in 1 .. Len(u) + Len(v) : ue[i] = IF i <= Len(u) THEN u[i] ELSE v[i - Len(u)]
        BY <1>2, <1>4, ConcatProperties DEF ue
      <3> QED
        BY <1>2, <1>4, <3>1
    <2>2. ue[n + 1] = v[1]
      <3>1. n + 1 \in 1 .. n + 1 /\ ~(n + 1 <= n) /\ (n + 1) - n = 1
        BY <1>1
      <3> QED
        BY <2>1, <3>1
    <2>3. ASSUME NEW i \in 1 .. n PROVE ue[i] = list[i]
      BY <1>1, <1>2, <2>1
    <2> QED
      BY <1>4, <2>1, <2>2, <2>3
  <1>7. /\ l \in Seq(T) /\ Len(l) = (n + 1) + (N - n)
        /\ \A i \in 1 .. (n + 1) + (N - n) : l[i] = IF i <= n + 1 THEN ue[i] ELSE w[i - (n + 1)]
    <2>1. /\ l \in Seq(T) /\ Len(l) = Len(ue) + Len(w)
          /\ \A i \in 1 .. Len(ue) + Len(w) : l[i] = IF i <= Len(ue) THEN ue[i] ELSE w[i - Len(ue)]
      BY <1>3, <1>6, ConcatProperties DEF l
    <2> QED
      BY <1>3, <1>6, <2>1
  <1>8. /\ DOMAIN l = 1 .. N + 1
        /\ \A i \in 1 .. N + 1 : l[i] = IF i <= n + 1 THEN ue[i] ELSE w[i - (n + 1)]
    <2>1. (n + 1) + (N - n) = N + 1
      BY <1>1
    <2> QED
      BY <1>1, <1>7, <2>1
  <1>9. l[n + 1] = e /\ n + 1 \in DOMAIN l
    BY <1>1, <1>6, <1>8
  <1>10. ASSUME NEW i \in 1 .. N PROVE \E j \in DOMAIN l : l[j] = list[i]
    <2>1. CASE i <= n
      <3>1. i \in 1 .. n /\ i \in 1 .. N + 1 /\ i <= n + 1
        BY <1>1, <2>1
      <3> QED
        BY <1>6, <1>8, <3>1
    <2>2. CASE ~(i <= n)
      <3>1. /\ i + 1 \in 1 .. N + 1 /\ ~(i + 1 <= n + 1) /\ i - n \in 1 .. N - n
            /\ (i + 1) - (n + 1) = i - n /\ n + (i - n) = i
        BY <1>1, <2>2
      <3>2. l[i + 1] = w[i - n] /\ w[i - n] = list[i]
        BY <1>3, <1>8, <3>1
      <3> QED
        BY <1>8, <3>1, <3>2
    <2> QED
      BY <2>1, <2>2
  <1>11. ASSUME NEW j \in DOMAIN l PROVE l[j] = e \/ \E i \in 1 .. N : list[i] = l[j]
    <2>1. CASE j <= n
      <3>1. j \in 1 .. n /\ j \in 1 .. N /\ j <= n + 1
        BY <1>1, <1>8, <2>1
      <3> QED
        BY <1>6, <1>8, <3>1
    <2>2. CASE j = n + 1
      BY <1>9, <2>2
    <2>3. CASE j > n + 1
      <3>1. /\ ~(j <= n + 1) /\ j - (n + 1) \in 1 .. N - n /\ n + (j - (n + 1)) = j - 1 /\ j - 1 \in 1 .. N
        BY <1>1, <1>8, <2>3
      <3>2. l[j] = w[j - (n + 1)] /\ w[j - (n + 1)] = list[j - 1]
        BY <1>3, <1>8, <3>1
      <3> QED
        BY <3>1, <3>2
    <2> QED
      BY <1>1, <1>8, <2>1, <2>2, <2>3
  <1>12. HasAlso(l, list, e)
    BY <1>1, <1>9, <1>10, <1>11 DEF HasAlso
  <1> QED
    BY <1>5, <1>7, <1>12

-----------------------------------------------------------------------------
\* The function of DrainPass is defined.
Draining(f, r, n) ==
    f = [i \in 0 .. n |-> IF i = 0 THEN [r EXCEPT !.out_of_order = << >>]
                          ELSE DrainSegment(f[i - 1], r.out_of_order[i])]

LEMMA DrainDefined ==
    ASSUME NEW r, NEW n \in Nat
    PROVE  \E f : Draining(f, r, n)
  <1> DEFINE base == [r EXCEPT !.out_of_order = << >>]
             S == {m \in Nat : \E f : Draining(f, r, m)}
  <1>1. 0 \in S
    <2> DEFINE f == [i \in 0 .. 0 |-> base]
    <2>1. Draining(f, r, 0)
      BY DEF Draining
    <2> QED
      BY <2>1
  <1>2. ASSUME NEW m \in S PROVE m + 1 \in S
    <2>1. PICK f : Draining(f, r, m)
      OBVIOUS
    <2> DEFINE x == DrainSegment(f[m], r.out_of_order[m + 1])
               g == [i \in 0 .. m + 1 |-> IF i = m + 1 THEN x ELSE f[i]]
               h == [i \in 0 .. m + 1 |-> IF i = 0 THEN base ELSE DrainSegment(g[i - 1], r.out_of_order[i])]
    <2> HIDE DEF base
    <2>2. \A i \in 0 .. m : f[i] = IF i = 0 THEN base ELSE DrainSegment(f[i - 1], r.out_of_order[i])
      BY <2>1 DEF Draining, base
    <2>3. ASSUME NEW i \in 0 .. m + 1 PROVE g[i] = h[i]
      <3>1. CASE i = m + 1
        <4>1. i # 0 /\ i - 1 = m /\ m \in 0 .. m + 1 /\ m # m + 1
          BY <3>1
        <4>2. g[i] = x /\ g[m] = f[m]
          BY <3>1, <4>1
        <4>3. h[i] = DrainSegment(g[m], r.out_of_order[m + 1])
          BY <3>1, <4>1
        <4> QED
          BY <4>2, <4>3
      <3>2. CASE i # m + 1
        <4>1. i \in 0 .. m /\ (i # 0 => i - 1 \in 0 .. m + 1 /\ i - 1 # m + 1)
          BY <3>2
        <4>2. g[i] = f[i] /\ (i # 0 => g[i - 1] = f[i - 1])
          BY <3>2, <4>1
        <4> QED
          BY <2>2, <4>1, <4>2
      <3> QED
        BY <3>1, <3>2
    <2>4. g = h
      BY <2>3
    <2> HIDE DEF g
    <2>5. Draining(g, r, m + 1)
      BY <2>4 DEF Draining, base
    <2>6. m + 1 \in Nat
      OBVIOUS
    <2> QED
      BY <2>5, <2>6
  <1>3. S \subseteq Nat
    OBVIOUS
  <1> HIDE DEF S
  <1>4. S = Nat
    BY <1>1, <1>2, <1>3, Induction
  <1> USE DEF S
  <1> QED
    BY <1>4

\* A pass, step by step.
LEMMA DrainPassIs ==
    ASSUME NEW r, Len(r.out_of_order) \in Nat
    PROVE  \E f : /\ f[0] = [r EXCEPT !.out_of_order = << >>]
                  /\ \A i \in 1 .. Len(r.out_of_order) : f[i] = DrainSegment(f[i - 1], r.out_of_order[i])
                  /\ DrainPass(r) = f[Len(r.out_of_order)]
  <1> DEFINE n == Len(r.out_of_order)
             f == CHOOSE f : Draining(f, r, n)
  <1>1. Draining(f, r, n)
    BY DrainDefined
  <1>2. DrainPass(r) = f[n]
    BY Zenon DEF DrainPass, Draining
  <1> HIDE DEF f, n
  <1>3. \A i \in 0 .. n : f[i] = IF i = 0 THEN [r EXCEPT !.out_of_order = << >>]
                                 ELSE DrainSegment(f[i - 1], r.out_of_order[i])
    BY <1>1, Zenon DEF Draining
  <1>4. n \in Nat /\ 0 \in 0 .. n /\ \A i \in 1 .. n : i \in 0 .. n /\ i # 0
    BY DEF n
  <1>5. f[0] = [r EXCEPT !.out_of_order = << >>]
        /\ \A i \in 1 .. n : f[i] = DrainSegment(f[i - 1], r.out_of_order[i])
    BY <1>3, <1>4, Zenon
  <1> QED
    BY <1>2, <1>5 DEF n

\* The function of ProcessOutOfOrder is defined.
Passing(f, r, n) == f = [i \in 0 .. n |-> IF i = 0 THEN r ELSE DrainPass(f[i - 1])]

LEMMA PassesDefined ==
    ASSUME NEW r, NEW n \in Nat
    PROVE  \E f : Passing(f, r, n)
  <1> DEFINE S == {m \in Nat : \E f : Passing(f, r, m)}
  <1>1. 0 \in S
    <2> DEFINE f == [i \in 0 .. 0 |-> r]
    <2>1. Passing(f, r, 0)
      BY DEF Passing
    <2> QED
      BY <2>1
  <1>2. ASSUME NEW m \in S PROVE m + 1 \in S
    <2>1. PICK f : Passing(f, r, m)
      OBVIOUS
    <2> DEFINE x == DrainPass(f[m])
               g == [i \in 0 .. m + 1 |-> IF i = m + 1 THEN x ELSE f[i]]
               h == [i \in 0 .. m + 1 |-> IF i = 0 THEN r ELSE DrainPass(g[i - 1])]
    <2>2. \A i \in 0 .. m : f[i] = IF i = 0 THEN r ELSE DrainPass(f[i - 1])
      BY <2>1 DEF Passing
    <2>3. ASSUME NEW i \in 0 .. m + 1 PROVE g[i] = h[i]
      <3>1. CASE i = m + 1
        <4>1. i # 0 /\ i - 1 = m /\ m \in 0 .. m + 1 /\ m # m + 1
          BY <3>1
        <4>2. g[i] = x /\ g[m] = f[m]
          BY <3>1, <4>1
        <4>3. h[i] = DrainPass(g[m])
          BY <3>1, <4>1
        <4> QED
          BY <4>2, <4>3
      <3>2. CASE i # m + 1
        <4>1. i \in 0 .. m /\ (i # 0 => i - 1 \in 0 .. m + 1 /\ i - 1 # m + 1)
          BY <3>2
        <4>2. g[i] = f[i] /\ (i # 0 => g[i - 1] = f[i - 1])
          BY <3>2, <4>1
        <4> QED
          BY <2>2, <4>1, <4>2
      <3> QED
        BY <3>1, <3>2
    <2>4. g = h
      BY <2>3
    <2> HIDE DEF g
    <2>5. Passing(g, r, m + 1)
      BY <2>4 DEF Passing
    <2>6. m + 1 \in Nat
      OBVIOUS
    <2> QED
      BY <2>5, <2>6
  <1>3. S \subseteq Nat
    OBVIOUS
  <1> HIDE DEF S
  <1>4. S = Nat
    BY <1>1, <1>2, <1>3, Induction
  <1> USE DEF S
  <1> QED
    BY <1>4

LEMMA ProcessIs ==
    ASSUME NEW r, Len(r.out_of_order) \in Nat
    PROVE  \E f : /\ f[0] = r
                  /\ \A i \in 1 .. Len(r.out_of_order) : f[i] = DrainPass(f[i - 1])
                  /\ ProcessOutOfOrder(r) = f[Len(r.out_of_order)]
  <1> DEFINE n == Len(r.out_of_order)
             f == CHOOSE f : Passing(f, r, n)
  <1>1. Passing(f, r, n)
    BY PassesDefined
  <1>2. ProcessOutOfOrder(r) = f[n]
    BY Zenon DEF ProcessOutOfOrder, Passing
  <1> HIDE DEF f, n
  <1>3. \A i \in 0 .. n : f[i] = IF i = 0 THEN r ELSE DrainPass(f[i - 1])
    BY <1>1, Zenon DEF Passing
  <1>4. n \in Nat /\ 0 \in 0 .. n /\ \A i \in 1 .. n : i \in 0 .. n /\ i # 0
    BY DEF n
  <1>5. f[0] = r /\ \A i \in 1 .. n : f[i] = DrainPass(f[i - 1])
    BY <1>3, <1>4, Zenon
  <1> QED
    BY <1>2, <1>5 DEF n

-----------------------------------------------------------------------------
SegmentOver(B) == [seq : Int, data : Seq(B)]

\* A direction with bytes of B.
DirectionOver(B) ==
    [base_seq : Int, next_expected_seq : Int, data_buffer : Seq(B),
     segments : Seq(SegmentOver(B)), out_of_order : Seq(SegmentOver(B)), is_closed : BOOLEAN]

\* From r to d the bytes that were in the buffer stay in it.
Takes(B, r, d) ==
    /\ d \in DirectionOver(B)
    /\ ToSet(r.data_buffer) \subseteq ToSet(d.data_buffer)

LEMMA TakesTransitive ==
    ASSUME NEW B, NEW r, NEW d, NEW e, Takes(B, r, d), Takes(B, d, e)
    PROVE  Takes(B, r, e)
  BY DEF Takes

LEMMA SeqAddInt ==
    ASSUME NEW s \in Int, NEW n \in Int
    PROVE  SeqAdd(s, n) \in Int /\ SeqDiff(s, n) \in Int
  <1>1. \A m \in Int : m % SeqSpace \in Int
    BY SeqSpaceAssumption, Z3
  <1>2. s + n \in Int /\ s - n \in Int
    OBVIOUS
  <1>3. (s - n) % SeqSpace \in Int /\ (s + n) % SeqSpace \in Int
    BY <1>1, <1>2
  <1> DEFINE diff == (s - n) % SeqSpace
  <1>4. SeqDiff(s, n) = IF diff >= SeqSpace \div 2 THEN diff - SeqSpace ELSE diff
    BY DEF SeqDiff
  <1>5. diff \in Int
    BY <1>3
  <1> HIDE DEF diff
  <1>6. SeqDiff(s, n) \in Int
    BY <1>4, <1>5, SeqSpaceAssumption
  <1> QED
    BY <1>3, <1>6 DEF SeqAdd

LEMMA MaxOfTwo ==
    ASSUME NEW x \in Int, NEW y \in Int
    PROVE  Max({x, y}) = IF x >= y THEN x ELSE y
  <1> DEFINE z == IF x >= y THEN x ELSE y
  <1>1. z \in {x, y} /\ \A u \in {x, y} : z >= u
    OBVIOUS
  <1>2. ASSUME NEW v \in {x, y}, \A u \in {x, y} : v >= u PROVE v = z
    BY <1>2
  <1>3. Max({x, y}) \in {x, y} /\ \A u \in {x, y} : Max({x, y}) >= u
    BY <1>1, Zenon DEF Max
  <1> QED
    BY <1>2, <1>3

LEMMA DropType ==
    ASSUME NEW B, NEW data \in Seq(B), NEW n \in Int
    PROVE  Drop(data, n) \in Seq(B)
  <1> DEFINE N == Len(data)
             m == IF n >= 0 THEN n + 1 ELSE Max({N + n + 1, 1})
  <1>1. N \in Nat /\ \A i \in 1 .. N : data[i] \in B
    OBVIOUS
  <1>2. m \in Int /\ m >= 1
    BY <1>1, MaxOfTwo
  <1>3. Drop(data, n) = SubSeq(data, m, N)
    BY DEF Drop
  <1> HIDE DEF m, N
  <1>4. \A i \in m .. N : data[i] \in B
    BY <1>1, <1>2
  <1>5. SubSeq(data, m, N) \in Seq(B)
    BY <1>1, <1>2, <1>4, SubSeqProperties
  <1> QED
    BY <1>3, <1>5

LEMMA ConcatSet ==
    ASSUME NEW B, NEW u \in Seq(B), NEW v \in Seq(B)
    PROVE  /\ u \o v \in Seq(B)
           /\ ToSet(u) \subseteq ToSet(u \o v) /\ ToSet(v) \subseteq ToSet(u \o v)
  <1> DEFINE w == u \o v
             M == Len(u)
             N == Len(v)
  <1>1. /\ w \in Seq(B) /\ Len(w) = M + N /\ M \in Nat /\ N \in Nat
        /\ \A i \in 1 .. M + N : w[i] = IF i <= M THEN u[i] ELSE v[i - M]
    BY ConcatProperties
  <1>2. DOMAIN u = 1 .. M /\ DOMAIN v = 1 .. N /\ DOMAIN w = 1 .. M + N
    BY <1>1
  <1> HIDE DEF w, M, N
  <1>3. ASSUME NEW i \in 1 .. M PROVE u[i] \in ToSet(w)
    <2>1. i \in 1 .. M + N /\ w[i] = u[i]
      BY <1>1
    <2> QED
      BY <1>2, <2>1 DEF ToSet
  <1>4. ASSUME NEW i \in 1 .. N PROVE v[i] \in ToSet(w)
    <2>1. M + i \in 1 .. M + N /\ ~(M + i <= M) /\ (M + i) - M = i
      BY <1>1
    <2>2. w[M + i] = v[i]
      BY <1>1, <2>1
    <2> QED
      BY <1>2, <2>1, <2>2 DEF ToSet
  <1> QED
    BY <1>1, <1>2, <1>3, <1>4 DEF ToSet, w

\* Sequences of whatever their elements are, put together and extended.
LEMMA Joined ==
    ASSUME NEW s, NEW t, s \in Seq(ToSet(s)), t \in Seq(ToSet(t))
    PROVE  s \o t \in Seq(ToSet(s \o t)) /\ ToSet(s \o t) = ToSet(s) \union ToSet(t)
  <1> DEFINE U == ToSet(s) \union ToSet(t)
             m == Len(s)
             n == Len(t)
             both == s \o t
  <1>1. s \in Seq(ToSet(s)) /\ t \in Seq(ToSet(t))
    OBVIOUS
  <1>2. s \in Seq(U) /\ t \in Seq(U)
    <2>1. ToSet(s) \subseteq U /\ ToSet(t) \subseteq U
      OBVIOUS
    <2> HIDE DEF U
    <2> QED
      BY <1>1, <2>1
  <1>3. /\ DOMAIN s = 1 .. m /\ DOMAIN t = 1 .. n
        /\ m \in Nat /\ n \in Nat
    BY <1>1, LenProperties
  <1> HIDE DEF U
  <1>4. /\ both \in Seq(U)
        /\ Len(both) = m + n
        /\ \A i \in 1 .. m : both[i] = s[i]
        /\ \A i \in m + 1 .. m + n : both[i] = t[i - m]
    BY <1>2, <1>3, ConcatProperties
  <1>5. DOMAIN both = 1 .. m + n
    BY <1>4, LenProperties
  <1> HIDE DEF both, m, n
  <1>6. \A i \in 1 .. n : i + m \in m + 1 .. m + n /\ (i + m) - m = i /\ i + m \in 1 .. m + n
    BY <1>3
  <1>7. \A i \in 1 .. n : both[i + m] = t[i]
    BY <1>4, <1>6
  <1>8. \A i \in 1 .. m : i \in 1 .. m + n
    BY <1>3
  <1>9. ASSUME NEW i \in 1 .. m + n
        PROVE  i \in 1 .. m \/ (i - m \in 1 .. n /\ i \in m + 1 .. m + n)
    BY <1>3
  <1>10. ToSet(both) \subseteq U
    BY <1>3, <1>4, <1>5, <1>9 DEF ToSet, U
  <1>11. ToSet(s) \subseteq ToSet(both)
    BY <1>3, <1>4, <1>5, <1>8 DEF ToSet
  <1>12. ToSet(t) \subseteq ToSet(both)
    BY <1>3, <1>5, <1>6, <1>7 DEF ToSet
  <1>13. ToSet(both) = U
    BY <1>10, <1>11, <1>12 DEF U
  <1> QED
    BY <1>4, <1>13 DEF both, U

LEMMA AppendedIs ==
    ASSUME NEW s, NEW e, s \in Seq(ToSet(s))
    PROVE  /\ Append(s, e) \in Seq(ToSet(Append(s, e)))
           /\ ToSet(Append(s, e)) = ToSet(s) \union {e}
           /\ Len(s) \in Nat /\ DOMAIN s = 1 .. Len(s)
           /\ Len(Append(s, e)) = Len(s) + 1 /\ DOMAIN Append(s, e) = 1 .. Len(s) + 1
           /\ Append(s, e)[Len(s) + 1] = e
           /\ \A i \in 1 .. Len(s) : Append(s, e)[i] = s[i]
  <1> DEFINE U == ToSet(s) \union {e}
             w == Append(s, e)
             n == Len(s)
  <1>1. s \in Seq(U) /\ e \in U
    <2>1. ToSet(s) \subseteq U
      OBVIOUS
    <2> HIDE DEF U
    <2>2. s \in Seq(U)
      BY <2>1
    <2> QED
      BY <2>2 DEF U
  <1>2. n \in Nat /\ DOMAIN s = 1 .. n
    BY LenProperties
  <1> HIDE DEF U
  <1>3. /\ w \in Seq(U) /\ Len(w) = n + 1 /\ w[n + 1] = e
        /\ \A i \in 1 .. n : w[i] = s[i]
    BY <1>1, AppendProperties
  <1>4. DOMAIN w = 1 .. n + 1
    BY <1>3, LenProperties
  <1> HIDE DEF w, n
  <1>5. \A i \in 1 .. n + 1 : i \in 1 .. n \/ i = n + 1
    BY <1>2
  <1>6. n + 1 \in 1 .. n + 1 /\ \A i \in 1 .. n : i \in 1 .. n + 1
    BY <1>2
  <1>7. ToSet(w) = ToSet(s) \union {e}
    BY <1>2, <1>3, <1>4, <1>5, <1>6 DEF ToSet
  <1>8. w \in Seq(ToSet(w))
    BY <1>3, <1>7 DEF U
  <1> QED
    BY <1>2, <1>3, <1>4, <1>7, <1>8 DEF w, n

LEMMA AppendTakes ==
    ASSUME NEW B, NEW r \in DirectionOver(B), NEW seq \in Int, NEW data \in Seq(B)
    PROVE  Takes(B, r, AppendData(r, seq, data))
  <1> DEFINE buffer == r.data_buffer \o data
             log == Append(r.segments, Segment(seq, data))
             next == SeqAdd(r.next_expected_seq, Len(data))
             d == AppendData(r, seq, data)
  <1>1. Segment(seq, data) \in SegmentOver(B)
    BY DEF Segment, SegmentOver
  <1>2. r.data_buffer \in Seq(B) /\ r.segments \in Seq(SegmentOver(B)) /\ r.next_expected_seq \in Int
    BY DEF DirectionOver
  <1>3. buffer \in Seq(B) /\ ToSet(r.data_buffer) \subseteq ToSet(buffer)
    BY <1>2, ConcatSet
  <1>4. log \in Seq(SegmentOver(B))
    BY <1>1, <1>2, AppendProperties
  <1>5. next \in Int
    <2>1. Len(data) \in Int
      OBVIOUS
    <2> QED
      BY <1>2, <2>1, SeqAddInt
  <1>6. d = [r EXCEPT !.data_buffer = buffer, !.segments = log, !.next_expected_seq = next]
    BY DEF AppendData
  <1> HIDE DEF buffer, log, next, d
  <1>7. d \in DirectionOver(B) /\ d.data_buffer = buffer
    BY <1>3, <1>4, <1>5, <1>6 DEF DirectionOver
  <1> QED
    BY <1>3, <1>7 DEF Takes, d

LEMMA DrainTakes ==
    ASSUME NEW B, NEW r \in DirectionOver(B), NEW held \in SegmentOver(B)
    PROVE  Takes(B, r, DrainSegment(r, held))
  <1> DEFINE diff == SeqDiff(held.seq, r.next_expected_seq)
             list == Append(r.out_of_order, held)
             kept == [r EXCEPT !.out_of_order = list]
             taken == AppendData(r, SeqAdd(held.seq, -diff), Drop(held.data, -diff))
  <1>1. DrainSegment(r, held) = IF diff > 0 THEN kept ELSE IF -diff < Len(held.data) THEN taken ELSE r
    BY Zenon DEF DrainSegment
  <1>2. held.seq \in Int /\ held.data \in Seq(B) /\ r.next_expected_seq \in Int
        /\ r.out_of_order \in Seq(SegmentOver(B))
    BY DEF SegmentOver, DirectionOver
  <1>3. diff \in Int
    BY <1>2, SeqAddInt
  <1> HIDE DEF diff
  <1>4. -diff \in Int
    BY <1>3
  <1>5. SeqAdd(held.seq, -diff) \in Int /\ Drop(held.data, -diff) \in Seq(B)
    BY <1>2, <1>4, SeqAddInt, DropType
  <1>6. Takes(B, r, taken)
    BY <1>5, AppendTakes
  <1>7. list \in Seq(SegmentOver(B))
    BY <1>2, AppendProperties
  <1> HIDE DEF list, taken
  <1>8. Takes(B, r, kept)
    BY <1>7 DEF Takes, DirectionOver
  <1>9. Takes(B, r, r)
    BY DEF Takes
  <1> QED
    BY <1>1, <1>6, <1>8, <1>9, Zenon

LEMMA DrainPassTakes ==
    ASSUME NEW B, NEW r \in DirectionOver(B)
    PROVE  Takes(B, r, DrainPass(r))
  <1> DEFINE n == Len(r.out_of_order)
  <1>1. /\ n \in Nat /\ r.out_of_order \in Seq(SegmentOver(B))
        /\ \A i \in 1 .. n : r.out_of_order[i] \in SegmentOver(B)
    BY DEF DirectionOver
  <1>2. PICK f : /\ f[0] = [r EXCEPT !.out_of_order = << >>]
                 /\ \A i \in 1 .. n : f[i] = DrainSegment(f[i - 1], r.out_of_order[i])
                 /\ DrainPass(r) = f[n]
    BY <1>1, DrainPassIs
  <1> DEFINE S == {i \in Nat : i <= n => Takes(B, r, f[i])}
  <1>3. 0 \in S
    <2>1. << >> \in Seq(SegmentOver(B))
      OBVIOUS
    <2>2. [r EXCEPT !.out_of_order = << >>] \in DirectionOver(B)
          /\ [r EXCEPT !.out_of_order = << >>].data_buffer = r.data_buffer
      BY <2>1 DEF DirectionOver
    <2>3. Takes(B, r, f[0])
      BY <1>2, <2>2, Zenon DEF Takes
    <2> QED
      BY <2>3
  <1> HIDE DEF n
  <1>4. ASSUME NEW i \in S PROVE i + 1 \in S
    <2>1. SUFFICES ASSUME i + 1 <= n PROVE Takes(B, r, f[i + 1])
      OBVIOUS
    <2>2. i + 1 \in 1 .. n /\ (i + 1) - 1 = i /\ Takes(B, r, f[i])
      BY <1>1, <2>1
    <2>3. f[i] \in DirectionOver(B) /\ f[i + 1] = DrainSegment(f[i], r.out_of_order[i + 1])
      BY <1>2, <2>2 DEF Takes
    <2>4. Takes(B, f[i], f[i + 1])
      BY <1>1, <2>2, <2>3, DrainTakes
    <2> QED
      BY <2>2, <2>4, TakesTransitive
  <1>5. S \subseteq Nat
    OBVIOUS
  <1> HIDE DEF S
  <1>6. n \in S
    BY <1>1, <1>3, <1>4, <1>5, Induction
  <1> QED
    BY <1>1, <1>2, <1>6 DEF S

LEMMA ProcessTakes ==
    ASSUME NEW B, NEW r \in DirectionOver(B)
    PROVE  Takes(B, r, ProcessOutOfOrder(r))
  <1> DEFINE n == Len(r.out_of_order)
  <1>1. n \in Nat
    BY DEF DirectionOver
  <1>2. PICK f : /\ f[0] = r
                 /\ \A i \in 1 .. n : f[i] = DrainPass(f[i - 1])
                 /\ ProcessOutOfOrder(r) = f[n]
    BY <1>1, ProcessIs
  <1> DEFINE S == {i \in Nat : i <= n => Takes(B, r, f[i])}
  <1>3. 0 \in S
    BY <1>2 DEF Takes
  <1> HIDE DEF n
  <1>4. ASSUME NEW i \in S PROVE i + 1 \in S
    <2>1. SUFFICES ASSUME i + 1 <= n PROVE Takes(B, r, f[i + 1])
      OBVIOUS
    <2>2. i + 1 \in 1 .. n /\ (i + 1) - 1 = i /\ Takes(B, r, f[i])
      BY <1>1, <2>1
    <2>3. f[i] \in DirectionOver(B) /\ f[i + 1] = DrainPass(f[i])
      BY <1>2, <2>2 DEF Takes
    <2>4. Takes(B, f[i], f[i + 1])
      BY <2>3, DrainPassTakes
    <2> QED
      BY <2>2, <2>4, TakesTransitive
  <1>5. S \subseteq Nat
    OBVIOUS
  <1> HIDE DEF S
  <1>6. n \in S
    BY <1>1, <1>3, <1>4, <1>5, Induction
  <1> QED
    BY <1>1, <1>2, <1>6 DEF S

\* The held segments numbered at most seq are so many of the list.
LEMMA HeldBefore ==
    ASSUME NEW T, NEW list \in Seq(T), NEW seq
    PROVE  Cardinality({i \in DOMAIN list : list[i].seq <= seq}) \in 0 .. Len(list)
  <1> DEFINE N == Len(list)
             before == {i \in DOMAIN list : list[i].seq <= seq}
  <1>1. N \in Nat /\ before \in SUBSET (1 .. N)
    OBVIOUS
  <1> HIDE DEF N, before
  <1>2. IsFiniteSet(1 .. N) /\ Cardinality(1 .. N) = N
    <2>1. IsFiniteSet(1 .. N) /\ Cardinality(1 .. N) = IF 1 > N THEN 0 ELSE N - 1 + 1
      BY <1>1, FS_Interval
    <2> QED
      BY <1>1, <2>1
  <1>3. IsFiniteSet(before) /\ Cardinality(before) <= N
    BY <1>1, <1>2, FS_Subset
  <1>4. Cardinality(before) \in Nat
    BY <1>3, FS_CardinalityType
  <1>5. Cardinality(before) \in 0 .. N
    BY <1>1, <1>3, <1>4
  <1> QED
    BY <1>5 DEF N, before

LEMMA HoldTakes ==
    ASSUME NEW B, NEW r \in DirectionOver(B), NEW seq \in Int, NEW data \in Seq(B)
    PROVE  Takes(B, r, HoldSegment(r, seq, data))
  <1> DEFINE list == r.out_of_order
             n == Cardinality({i \in DOMAIN list : list[i].seq <= seq})
             l == InsertAt(list, n + 1, Segment(seq, data))
             d == HoldSegment(r, seq, data)
  <1>1. list \in Seq(SegmentOver(B)) /\ Segment(seq, data) \in SegmentOver(B)
    BY DEF DirectionOver, SegmentOver, Segment
  <1>2. n \in 0 .. Len(list)
    BY <1>1, HeldBefore
  <1>3. d = [r EXCEPT !.out_of_order = l]
    BY DEF HoldSegment
  <1> HIDE DEF n, d, list
  <1>4. l \in Seq(SegmentOver(B))
    BY <1>1, <1>2, InsertHas
  <1> HIDE DEF l
  <1>5. d \in DirectionOver(B) /\ d.data_buffer = r.data_buffer
    BY <1>3, <1>4 DEF DirectionOver
  <1> QED
    BY <1>5 DEF Takes, d

LEMMA ClosingTakes ==
    ASSUME NEW B, NEW r, NEW d, Takes(B, r, d), NEW fin
    PROVE  Takes(B, r, [d EXCEPT !.is_closed = @ \/ fin])
  <1> DEFINE e == [d EXCEPT !.is_closed = @ \/ fin]
  <1>1. e \in DirectionOver(B) /\ e.data_buffer = d.data_buffer
    BY DEF Takes, DirectionOver
  <1> HIDE DEF e
  <1>2. Takes(B, r, e)
    BY <1>1 DEF Takes
  <1> QED
    BY <1>2 DEF e

LEMMA AddAfterBaseTakes ==
    ASSUME NEW B, NEW r \in DirectionOver(B), NEW seq \in Int, NEW data \in Seq(B), NEW fin
    PROVE  Takes(B, r, AddAfterBase(r, seq, data, fin))
  <1> DEFINE overlap == SeqDiff(r.next_expected_seq, seq)
             hold == HoldSegment(r, seq, data)
             append == AppendData(r, SeqAdd(seq, overlap), Drop(data, overlap))
             added == IF SeqDiff(seq, r.next_expected_seq) > 0 THEN ProcessOutOfOrder(hold)
                      ELSE IF overlap < Len(data) THEN ProcessOutOfOrder(append) ELSE r
  <1>1. AddAfterBase(r, seq, data, fin) = [added EXCEPT !.is_closed = @ \/ fin]
    BY Zenon DEF AddAfterBase
  <1>2. overlap \in Int
    <2>1. r.next_expected_seq \in Int
      BY DEF DirectionOver
    <2> QED
      BY <2>1, SeqAddInt
  <1> HIDE DEF overlap
  <1>3. SeqAdd(seq, overlap) \in Int /\ Drop(data, overlap) \in Seq(B)
    BY <1>2, SeqAddInt, DropType
  <1>4. Takes(B, r, append) /\ Takes(B, r, hold)
    BY <1>3, AppendTakes, HoldTakes
  <1> HIDE DEF append, hold
  <1>5. Takes(B, append, ProcessOutOfOrder(append)) /\ Takes(B, hold, ProcessOutOfOrder(hold))
    BY <1>4, ProcessTakes DEF Takes
  <1>6. Takes(B, r, ProcessOutOfOrder(append)) /\ Takes(B, r, ProcessOutOfOrder(hold))
    BY <1>4, <1>5, TakesTransitive
  <1>7. Takes(B, r, r)
    BY DEF Takes
  <1>8. Takes(B, r, added)
    BY <1>6, <1>7, Zenon
  <1> HIDE DEF added
  <1> QED
    BY <1>1, <1>8, ClosingTakes

LEMMA PrependTakes ==
    ASSUME NEW B, NEW r \in DirectionOver(B), NEW seq \in Int, NEW data \in Seq(B), NEW fin
    PROVE  Takes(B, r, Prepend(r, seq, data, fin))
  <1> DEFINE n == Min({SeqDiff(r.base_seq, seq), Len(data)})
             head == SubSeq(data, 1, n)
             buffer == head \o r.data_buffer
             log == <<Segment(seq, head)>> \o r.segments
             front == [r EXCEPT !.data_buffer = buffer, !.base_seq = seq, !.segments = log]
  <1>1. Prepend(r, seq, data, fin)
          = IF Len(data) > n THEN AddAfterBase(front, SeqAdd(seq, n), Drop(data, n), fin) ELSE front
    BY DEF Prepend
  <1>2. n \in Int /\ n <= Len(data)
    <2>1. r.base_seq \in Int /\ Len(data) \in Int
      BY DEF DirectionOver
    <2>2. SeqDiff(r.base_seq, seq) \in Int
      BY <2>1, SeqAddInt
    <2> QED
      BY <2>1, <2>2, MinOfTwo
  <1> HIDE DEF n
  <1>3. head \in Seq(B)
    <2>1. \A i \in 1 .. n : data[i] \in B
      <3>1. \A i \in 1 .. n : i \in 1 .. Len(data)
        BY <1>2
      <3> QED
        BY <3>1
    <2> QED
      BY <1>2, <2>1, SubSeqProperties
  <1> HIDE DEF head
  <1>4. r.data_buffer \in Seq(B) /\ r.segments \in Seq(SegmentOver(B))
    BY DEF DirectionOver
  <1>5. buffer \in Seq(B) /\ ToSet(r.data_buffer) \subseteq ToSet(buffer)
    BY <1>3, <1>4, ConcatSet
  <1>6. log \in Seq(SegmentOver(B))
    <2>1. Segment(seq, head) \in SegmentOver(B)
      BY <1>3 DEF Segment, SegmentOver
    <2>2. <<Segment(seq, head)>> \in Seq(SegmentOver(B))
      BY <2>1
    <2> QED
      BY <1>4, <2>2, ConcatProperties
  <1> HIDE DEF buffer, log
  <1>7. front \in DirectionOver(B) /\ front.data_buffer = buffer
    BY <1>5, <1>6 DEF DirectionOver
  <1> HIDE DEF front
  <1>8. Takes(B, r, front)
    BY <1>5, <1>7 DEF Takes
  <1>9. SeqAdd(seq, n) \in Int /\ Drop(data, n) \in Seq(B)
    BY <1>2, SeqAddInt, DropType
  <1>10. Takes(B, front, AddAfterBase(front, SeqAdd(seq, n), Drop(data, n), fin))
    BY <1>7, <1>9, AddAfterBaseTakes
  <1>11. Takes(B, r, AddAfterBase(front, SeqAdd(seq, n), Drop(data, n), fin))
    BY <1>8, <1>10, TakesTransitive
  <1> QED
    BY <1>1, <1>8, <1>11, Zenon

LEMMA AddDataTakes ==
    ASSUME NEW B, NEW r \in DirectionOver(B), NEW seq \in Int, NEW data \in Seq(B), NEW fin
    PROVE  Takes(B, r, AddData(r, seq, data, fin))
  <1> DEFINE buffer == r.data_buffer \o data
             log == Append(r.segments, Segment(seq, data))
             next == SeqAdd(seq, Len(data))
             first == [r EXCEPT !.base_seq = seq, !.next_expected_seq = next,
                                !.data_buffer = buffer, !.segments = log]
  <1>1. AddData(r, seq, data, fin) \in
          {first, Prepend(r, seq, data, fin), AddAfterBase(r, seq, data, fin)}
    BY DEF AddData
  <1>2. r.data_buffer \in Seq(B) /\ r.segments \in Seq(SegmentOver(B)) /\ Len(data) \in Int
    BY DEF DirectionOver
  <1>3. buffer \in Seq(B) /\ ToSet(r.data_buffer) \subseteq ToSet(buffer)
    BY <1>2, ConcatSet
  <1>4. log \in Seq(SegmentOver(B))
    <2>1. Segment(seq, data) \in SegmentOver(B)
      BY DEF Segment, SegmentOver
    <2> QED
      BY <1>2, <2>1, AppendProperties
  <1>5. next \in Int
    BY <1>2, SeqAddInt
  <1> HIDE DEF buffer, log, next
  <1>6. first \in DirectionOver(B) /\ first.data_buffer = buffer
    BY <1>3, <1>4, <1>5 DEF DirectionOver
  <1> HIDE DEF first
  <1>7. Takes(B, r, first)
    BY <1>3, <1>6 DEF Takes
  <1>8. Takes(B, r, Prepend(r, seq, data, fin)) /\ Takes(B, r, AddAfterBase(r, seq, data, fin))
    BY PrependTakes, AddAfterBaseTakes
  <1> QED
    BY <1>1, <1>7, <1>8, Zenon

\* One of the calls of AddSyn, after those before it.
Call(d, seq, data, k) ==
    [d EXCEPT !.base_seq = SeqAdd(seq, k - 1),
              !.next_expected_seq = SeqAdd(seq, k),
              !.data_buffer = <<data[k]>> \o @,
              !.segments = <<Segment(SeqAdd(seq, k - 1), <<data[k]>>)>> \o @]

Reset(r, seq) == [r EXCEPT !.base_seq = SeqAdd(seq, 1), !.next_expected_seq = SeqAdd(seq, 1)]

\* The function of AddSyn is defined.
Calling(f, r, seq, data, n) ==
    f = [k \in 0 .. n |-> IF k = 0 THEN Reset(r, seq) ELSE Call(f[k - 1], seq, data, k)]

LEMMA CallsDefined ==
    ASSUME NEW r, NEW seq, NEW data, NEW n \in Nat
    PROVE  \E f : Calling(f, r, seq, data, n)
  <1> DEFINE S == {m \in Nat : \E f : Calling(f, r, seq, data, m)}
  <1>1. 0 \in S
    <2> DEFINE f == [k \in 0 .. 0 |-> Reset(r, seq)]
    <2>1. Calling(f, r, seq, data, 0)
      BY DEF Calling
    <2> QED
      BY <2>1
  <1>2. ASSUME NEW m \in S PROVE m + 1 \in S
    <2>1. PICK f : Calling(f, r, seq, data, m)
      OBVIOUS
    <2> DEFINE x == Call(f[m], seq, data, m + 1)
               g == [k \in 0 .. m + 1 |-> IF k = m + 1 THEN x ELSE f[k]]
               h == [k \in 0 .. m + 1 |-> IF k = 0 THEN Reset(r, seq) ELSE Call(g[k - 1], seq, data, k)]
    <2>2. \A k \in 0 .. m : f[k] = IF k = 0 THEN Reset(r, seq) ELSE Call(f[k - 1], seq, data, k)
      BY <2>1 DEF Calling
    <2>3. ASSUME NEW k \in 0 .. m + 1 PROVE g[k] = h[k]
      <3>1. CASE k = m + 1
        <4>1. k # 0 /\ k - 1 = m /\ m \in 0 .. m + 1 /\ m # m + 1
          BY <3>1
        <4>2. g[k] = x /\ g[m] = f[m]
          BY <3>1, <4>1
        <4>3. h[k] = Call(g[m], seq, data, m + 1)
          BY <3>1, <4>1
        <4> QED
          BY <4>2, <4>3
      <3>2. CASE k # m + 1
        <4>1. k \in 0 .. m /\ (k # 0 => k - 1 \in 0 .. m + 1 /\ k - 1 # m + 1)
          BY <3>2
        <4>2. g[k] = f[k] /\ (k # 0 => g[k - 1] = f[k - 1])
          BY <3>2, <4>1
        <4> QED
          BY <2>2, <4>1, <4>2
      <3> QED
        BY <3>1, <3>2
    <2>4. g = h
      BY <2>3
    <2> HIDE DEF g
    <2>5. Calling(g, r, seq, data, m + 1)
      BY <2>4 DEF Calling
    <2>6. m + 1 \in Nat
      OBVIOUS
    <2> QED
      BY <2>5, <2>6
  <1>3. S \subseteq Nat
    OBVIOUS
  <1> HIDE DEF S
  <1>4. S = Nat
    BY <1>1, <1>2, <1>3, Induction
  <1> USE DEF S
  <1> QED
    BY <1>4

\* A SYN, call by call.
LEMMA AddSynIs ==
    ASSUME NEW r, NEW seq, NEW data, Len(data) \in Nat
    PROVE  \E f : /\ f[0] = Reset(r, seq)
                  /\ \A k \in 1 .. Len(data) : f[k] = Call(f[k - 1], seq, data, k)
                  /\ AddSyn(r, seq, data) = f[Len(data)]
  <1> DEFINE n == Len(data)
             f == CHOOSE f : Calling(f, r, seq, data, n)
  <1>1. Calling(f, r, seq, data, n)
    BY CallsDefined
  <1>2. AddSyn(r, seq, data) = f[n]
    BY Zenon DEF AddSyn, Calling, Reset, Call
  <1> HIDE DEF f, n
  <1>3. \A k \in 0 .. n : f[k] = IF k = 0 THEN Reset(r, seq) ELSE Call(f[k - 1], seq, data, k)
    BY <1>1, Zenon DEF Calling
  <1>4. n \in Nat /\ 0 \in 0 .. n /\ \A k \in 1 .. n : k \in 0 .. n /\ k # 0
    BY DEF n
  <1>5. f[0] = Reset(r, seq) /\ \A k \in 1 .. n : f[k] = Call(f[k - 1], seq, data, k)
    BY <1>3, <1>4, Zenon
  <1> QED
    BY <1>2, <1>5 DEF n

\* A SYN without data resets the base, and does no more.
LEMMA SynWithoutData ==
    ASSUME NEW r, NEW seq, NEW data, Len(data) = 0
    PROVE  AddSyn(r, seq, data) = Reset(r, seq)
  <1>1. Len(data) \in Nat
    OBVIOUS
  <1> QED
    BY <1>1, AddSynIs

LEMMA AddSynTakes ==
    ASSUME NEW B, NEW r \in DirectionOver(B), NEW seq \in Int, NEW data \in Seq(B)
    PROVE  Takes(B, r, AddSyn(r, seq, data))
  <1> DEFINE n == Len(data)
  <1>1. n \in Nat /\ \A k \in 1 .. n : data[k] \in B
    OBVIOUS
  <1>2. PICK f : /\ f[0] = Reset(r, seq)
                 /\ \A k \in 1 .. n : f[k] = Call(f[k - 1], seq, data, k)
                 /\ AddSyn(r, seq, data) = f[n]
    BY <1>1, AddSynIs
  <1> DEFINE S == {k \in Nat : k <= n => Takes(B, r, f[k])}
  <1>3. 0 \in S
    <2>1. SeqAdd(seq, 1) \in Int
      BY SeqAddInt
    <2>2. Reset(r, seq) \in DirectionOver(B) /\ Reset(r, seq).data_buffer = r.data_buffer
      BY <2>1 DEF DirectionOver, Reset
    <2>3. Takes(B, r, f[0])
      BY <1>2, <2>2, Zenon DEF Takes
    <2> QED
      BY <2>3
  <1> HIDE DEF n
  <1>4. ASSUME NEW k \in S PROVE k + 1 \in S
    <2>1. SUFFICES ASSUME k + 1 <= n PROVE Takes(B, r, f[k + 1])
      OBVIOUS
    <2>2. k + 1 \in 1 .. n /\ (k + 1) - 1 = k /\ Takes(B, r, f[k]) /\ k + 1 \in Int /\ k \in Int
      BY <1>1, <2>1
    <2> DEFINE d == f[k]
               e == Call(d, seq, data, k + 1)
               buffer == <<data[k + 1]>> \o d.data_buffer
               log == <<Segment(SeqAdd(seq, k), <<data[k + 1]>>)>> \o d.segments
    <2>3. d \in DirectionOver(B) /\ f[k + 1] = e
      BY <1>2, <2>2 DEF Takes
    <2>4. e = [d EXCEPT !.base_seq = SeqAdd(seq, k), !.next_expected_seq = SeqAdd(seq, k + 1),
                        !.data_buffer = buffer, !.segments = log]
      BY <2>2 DEF Call
    <2>5. d.data_buffer \in Seq(B) /\ d.segments \in Seq(SegmentOver(B))
      BY <2>3 DEF DirectionOver
    <2>6. SeqAdd(seq, k) \in Int /\ SeqAdd(seq, k + 1) \in Int
      BY <2>2, SeqAddInt
    <2>7. <<data[k + 1]>> \in Seq(B)
      BY <1>1, <2>2
    <2>8. buffer \in Seq(B) /\ ToSet(d.data_buffer) \subseteq ToSet(buffer)
      BY <2>5, <2>7, ConcatSet
    <2>9. log \in Seq(SegmentOver(B))
      <3>1. Segment(SeqAdd(seq, k), <<data[k + 1]>>) \in SegmentOver(B)
        BY <2>6, <2>7 DEF Segment, SegmentOver
      <3>2. <<Segment(SeqAdd(seq, k), <<data[k + 1]>>)>> \in Seq(SegmentOver(B))
        BY <3>1
      <3> QED
        BY <2>5, <3>2, ConcatProperties
    <2> HIDE DEF d, e, buffer, log
    <2>10. e \in DirectionOver(B) /\ e.data_buffer = buffer
      BY <2>3, <2>4, <2>6, <2>8, <2>9 DEF DirectionOver
    <2>11. Takes(B, d, e)
      BY <2>8, <2>10 DEF Takes
    <2> QED
      BY <2>2, <2>3, <2>11, TakesTransitive DEF d
  <1>5. S \subseteq Nat
    OBVIOUS
  <1> HIDE DEF S
  <1>6. n \in S
    BY <1>1, <1>3, <1>4, <1>5, Induction
  <1> QED
    BY <1>1, <1>2, <1>6 DEF S

\* add_segment, whatever the segment is: the bytes that are in the buffer
\* stay in it, and those that come are the segment's.
THEOREM AddSegmentTakes ==
    ASSUME NEW B, NEW r \in DirectionOver(B), NEW seg, seg.seq \in Int, seg.data \in Seq(B)
    PROVE  Takes(B, r, AddSegment(r, seg))
  <1> DEFINE q == [r EXCEPT !.is_closed = @ \/ "RST" \in seg.flags]
             closed == [q EXCEPT !.is_closed = @ \/ "FIN" \in seg.flags]
             fin == "FIN" \in seg.flags
  <1>1. AddSegment(r, seg) \in
          {AddSyn(q, seg.seq, seg.data), closed, AddData(q, seg.seq, seg.data, fin)}
    BY Zenon DEF AddSegment
  <1>2. Takes(B, r, r)
    BY DEF Takes
  <1>3. Takes(B, r, q)
    BY <1>2, ClosingTakes
  <1> HIDE DEF q
  <1>4. q \in DirectionOver(B)
    BY <1>3 DEF Takes
  <1>5. Takes(B, r, closed)
    BY <1>3, ClosingTakes
  <1> HIDE DEF closed, fin
  <1>6. Takes(B, r, AddSyn(q, seg.seq, seg.data)) /\ Takes(B, r, AddData(q, seg.seq, seg.data, fin))
    BY <1>3, <1>4, AddSynTakes, AddDataTakes, TakesTransitive
  <1> QED
    BY <1>1, <1>5, <1>6, Zenon

\* get_data gives bytes of the direction, and all those of its buffer.
LEMMA GetDataType ==
    ASSUME NEW B, NEW r \in DirectionOver(B)
    PROVE  GetData(r) \in Seq(B) /\ ToSet(r.data_buffer) \subseteq ToSet(GetData(r))
  <1> DEFINE list == r.out_of_order
             data == [i \in DOMAIN list |-> list[i].data]
             N == Len(list)
  <1>1. N \in Nat /\ DOMAIN list = 1 .. N /\ r.data_buffer \in Seq(B)
        /\ \A i \in 1 .. N : list[i].data \in Seq(B)
    <2>1. list \in Seq(SegmentOver(B)) /\ r.data_buffer \in Seq(B)
      BY DEF DirectionOver
    <2>2. \A i \in 1 .. N : list[i] \in SegmentOver(B)
      BY <2>1
    <2> QED
      BY <2>1, <2>2 DEF SegmentOver
  <1>2. GetData(r) = IF r.data_buffer = << >> THEN FlattenSeq(data) ELSE r.data_buffer
    BY Zenon DEF GetData
  <1> HIDE DEF N, list
  <1>3. data \in [1 .. N -> Seq(B)]
    BY <1>1
  <1> HIDE DEF data
  <1>4. data \in Seq(Seq(B))
    BY <1>1, <1>3
  <1>5. << >> \in Seq(B)
    OBVIOUS
  <1>6. FlattenSeq(data) \in Seq(B)
    BY <1>4, <1>5, FlattenAppend
  <1>7. r.data_buffer = << >> => ToSet(r.data_buffer) = {}
    BY DEF ToSet
  <1> QED
    BY <1>1, <1>2, <1>6, <1>7, Zenon

-----------------------------------------------------------------------------
\* The capture of which keys is known, m packets long, grows by a packet of
\* the given key.
Grows(keys, m, key, more) ==
    /\ m \in Nat
    /\ DOMAIN keys \subseteq 1 .. m
    /\ DOMAIN more = DOMAIN keys \union {m + 1}
    /\ \A i \in DOMAIN keys : more[i] = keys[i]
    /\ more[m + 1] = key

\* A table that holds the first keys; while it has room it holds all.
HoldsFirst(table, keys, max) ==
    /\ IsFiniteSet(table)
    /\ table = FirstKeys(keys, max)
    /\ Cardinality(table) <= Cardinality(Openings(keys))
    /\ Cardinality(table) < max =>
         /\ Cardinality(Openings(keys)) = Cardinality(table)
         /\ \A i \in DOMAIN keys : keys[i] \in table

\* A key that was not seen while the first ones were fewer than the limit.
Fresh(keys, key, max) == PositionsOf(keys, key) = {} /\ Cardinality(Openings(keys)) < max

\* Every rank up to the size of the set is somebody's.
Ranked(set) == \A k \in 1 .. Cardinality(set) : \E i \in set : Cardinality(UpTo(set, i)) = k

-----------------------------------------------------------------------------
\* Ranks in a set of positions, before and after the next position is added.
LEMMA UpToBefore ==
    ASSUME NEW m \in Nat, NEW S, S \subseteq 1 .. m, NEW i \in 1 .. m
    PROVE  UpTo(S \union {m + 1}, i) = UpTo(S, i)
  <1>1. ~(m + 1 <= i)
    OBVIOUS
  <1> QED
    BY <1>1 DEF UpTo

LEMMA UpToLast ==
    ASSUME NEW m \in Nat, NEW S, S \subseteq 1 .. m
    PROVE  /\ UpTo(S \union {m + 1}, m + 1) = S \union {m + 1}
           /\ m + 1 \notin S
  <1>1. \A j \in S : j <= m + 1
    OBVIOUS
  <1>2. m + 1 <= m + 1
    OBVIOUS
  <1>3. m + 1 \notin S
    OBVIOUS
  <1> QED
    BY <1>1, <1>2, <1>3 DEF UpTo

LEMMA AddPosition ==
    ASSUME NEW m \in Nat, NEW S, S \subseteq 1 .. m
    PROVE  /\ IsFiniteSet(S)
           /\ Cardinality(S) \in Nat
           /\ Cardinality(S \union {m + 1}) = Cardinality(S) + 1
  <1>1. IsFiniteSet(S)
    BY FS_Interval, FS_Subset, 1 \in Int, m \in Int
  <1>2. m + 1 \notin S
    BY UpToLast
  <1> DEFINE n == m + 1
  <1>3. n \notin S
    BY <1>2
  <1> HIDE DEF n
  <1>4. Cardinality(S \union {n}) = Cardinality(S) + 1
    BY <1>1, <1>3, FS_AddElement
  <1>5. Cardinality(S) \in Nat
    BY <1>1, FS_CardinalityType
  <1> QED
    BY <1>1, <1>4, <1>5 DEF n

\* Positions of one set have different ranks, each at most the size.
LEMMA RanksDiffer ==
    ASSUME NEW S \in SUBSET Nat, IsFiniteSet(S),
           NEW i \in S, NEW j \in S, Cardinality(UpTo(S, i)) = Cardinality(UpTo(S, j))
    PROVE  i = j
  <1>1. ASSUME NEW a \in S, NEW b \in S, a < b
        PROVE  Cardinality(UpTo(S, a)) # Cardinality(UpTo(S, b))
    <2>1. UpTo(S, a) \subseteq UpTo(S, b)
      <3>1. \A k \in S : k <= a => k <= b
        <4>1. a \in Nat /\ b \in Nat
          OBVIOUS
        <4> QED
          BY <1>1, <4>1
      <3> QED
        BY <3>1 DEF UpTo
    <2>2. b \in UpTo(S, b) /\ b \notin UpTo(S, a)
      BY <1>1 DEF UpTo
    <2>3. IsFiniteSet(UpTo(S, b))
      <3>1. UpTo(S, b) \subseteq S
        BY DEF UpTo
      <3> QED
        BY <3>1, FS_Subset
    <2> QED
      BY <2>1, <2>2, <2>3, FS_Subset
  <1>2. ~(i < j) /\ ~(j < i)
    BY <1>1
  <1>3. i \in Nat /\ j \in Nat
    OBVIOUS
  <1> QED
    BY <1>2, <1>3

\* The position of a rank is the only one.
LEMMA NthIs ==
    ASSUME NEW S \in SUBSET Nat, IsFiniteSet(S), NEW i \in S, NEW k,
           Cardinality(UpTo(S, i)) = k
    PROVE  Nth(S, k) = i
  <1>1. \E j \in S : Cardinality(UpTo(S, j)) = k
    OBVIOUS
  <1>2. Nth(S, k) \in S /\ Cardinality(UpTo(S, Nth(S, k))) = k
    BY <1>1 DEF Nth
  <1> QED
    BY <1>2, RanksDiffer

\* The listing of a set, by rank, when the next position is added.
LEMMA ListingGrows ==
    ASSUME NEW m \in Nat, NEW S, S \subseteq 1 .. m, Ranked(S)
    PROVE  /\ Ranked(S \union {m + 1})
           /\ \A k \in 1 .. Cardinality(S) :
                Nth(S, k) \in S /\ Nth(S \union {m + 1}, k) = Nth(S, k)
           /\ Nth(S \union {m + 1}, Cardinality(S) + 1) = m + 1
  <1> DEFINE T == S \union {m + 1}
             c == Cardinality(S)
  <1>1. IsFiniteSet(S) /\ c \in Nat /\ Cardinality(T) = c + 1
    BY AddPosition
  <1>0. S \in SUBSET Nat /\ T \in SUBSET Nat
    <2>1. \A i \in 1 .. m : i \in Nat
      OBVIOUS
    <2>2. m + 1 \in Nat
      OBVIOUS
    <2> QED
      BY <2>1, <2>2
  <1>2. IsFiniteSet(T)
    BY <1>1, FS_AddElement
  <1>3. ASSUME NEW k \in 1 .. c
        PROVE  /\ \E i \in T : Cardinality(UpTo(T, i)) = k
               /\ Nth(S, k) \in S /\ Nth(T, k) = Nth(S, k)
    <2>1. PICK i \in S : Cardinality(UpTo(S, i)) = k
      BY <1>3 DEF Ranked
    <2>2. i \in T /\ Cardinality(UpTo(T, i)) = k
      BY <2>1, UpToBefore
    <2>3. Nth(S, k) = i
      BY <1>1, <1>0, <2>1, NthIs
    <2>4. Nth(T, k) = i
      BY <1>0, <1>2, <2>2, NthIs
    <2> QED
      BY <2>2, <2>3, <2>4
  <1>4. m + 1 \in T /\ Cardinality(UpTo(T, m + 1)) = c + 1
    BY <1>1, UpToLast
  <1>5. Nth(T, c + 1) = m + 1
    BY <1>0, <1>2, <1>4, NthIs
  <1>6. Ranked(T)
    <2> SUFFICES ASSUME NEW k \in 1 .. c + 1
                 PROVE  \E i \in T : Cardinality(UpTo(T, i)) = k
      BY <1>1 DEF Ranked
    <2>1. k \in 1 .. c \/ k = c + 1
      BY <1>1
    <2> QED
      BY <1>3, <1>4, <2>1
  <1> QED
    BY <1>3, <1>5, <1>6

-----------------------------------------------------------------------------
\* Two sets that agree on all but a new element.
LEMMA OneMore ==
    ASSUME NEW S, NEW n, n \notin S, NEW A, A \subseteq S \union {n}, NEW B, B \subseteq S,
           \A k \in S : k \in A <=> k \in B
    PROVE  A = IF n \in A THEN B \union {n} ELSE B
  OBVIOUS

\* Everything that is kept by position is a set of positions.
LEMMA PositionsIn ==
    ASSUME NEW keys, NEW m, DOMAIN keys \subseteq 1 .. m
    PROVE  /\ Openings(keys) \subseteq 1 .. m
           /\ \A max, perKey : FirstOfEach(keys, max, perKey) \subseteq 1 .. m
           /\ \A key : PositionsOf(keys, key) \subseteq 1 .. m
  BY DEF Openings, FirstOfEach, PositionsOf

\* The packet is one more of its key.
LEMMA PositionsGrow ==
    ASSUME NEW keys, NEW m, NEW key, NEW more, Grows(keys, m, key, more)
    PROVE  /\ m + 1 \notin DOMAIN keys
           /\ \A f : PositionsOf(more, f) = IF f = key THEN PositionsOf(keys, f) \union {m + 1}
                                                       ELSE PositionsOf(keys, f)
           /\ \A f : /\ Cardinality(PositionsOf(keys, f)) \in Nat
                     /\ Cardinality(PositionsOf(keys, f) \union {m + 1})
                          = Cardinality(PositionsOf(keys, f)) + 1
  <1>1. m \in Nat /\ DOMAIN keys \subseteq 1 .. m
    BY DEF Grows
  <1>2. m + 1 \notin DOMAIN keys
    BY <1>1, UpToLast
  <1>3. ASSUME NEW f
        PROVE  PositionsOf(more, f) = IF f = key THEN PositionsOf(keys, f) \union {m + 1}
                                                 ELSE PositionsOf(keys, f)
    <2> DEFINE A == PositionsOf(more, f)
               B == PositionsOf(keys, f)
               n == m + 1
    <2>1. A \subseteq DOMAIN keys \union {n} /\ B \subseteq DOMAIN keys
      BY DEF PositionsOf, Grows
    <2>2. \A k \in DOMAIN keys : k \in A <=> k \in B
      BY DEF PositionsOf, Grows
    <2>3. n \in A <=> f = key
      BY DEF PositionsOf, Grows
    <2> HIDE DEF A, B, n
    <2>4. A = IF n \in A THEN B \union {n} ELSE B
      BY <1>2, <2>1, <2>2 DEF n
    <2>5. A = IF f = key THEN B \union {n} ELSE B
      BY <2>3, <2>4
    <2> QED
      BY <2>5 DEF A, B, n
  <1>4. ASSUME NEW f
        PROVE  /\ Cardinality(PositionsOf(keys, f)) \in Nat
               /\ Cardinality(PositionsOf(keys, f) \union {m + 1})
                    = Cardinality(PositionsOf(keys, f)) + 1
    <2>1. PositionsOf(keys, f) \subseteq 1 .. m
      BY <1>1, PositionsIn
    <2> QED
      BY <1>1, <2>1, AddPosition
  <1> QED
    BY <1>2, <1>3, <1>4

LEMMA PositionsSize ==
    ASSUME NEW keys, NEW m, NEW key, NEW more, Grows(keys, m, key, more)
    PROVE  /\ Cardinality(PositionsOf(keys, key)) \in Nat
           /\ Cardinality(PositionsOf(more, key)) = Cardinality(PositionsOf(keys, key)) + 1
  <1>1. PositionsOf(more, key) = PositionsOf(keys, key) \union {m + 1}
    BY PositionsGrow
  <1>2. /\ Cardinality(PositionsOf(keys, key)) \in Nat
        /\ Cardinality(PositionsOf(keys, key) \union {m + 1})
             = Cardinality(PositionsOf(keys, key)) + 1
    BY PositionsGrow
  <1> QED
    BY <1>1, <1>2

\* It opens its key when it is the first of it.
LEMMA OpeningsGrow ==
    ASSUME NEW keys, NEW m, NEW key, NEW more, Grows(keys, m, key, more)
    PROVE  Openings(more) = IF PositionsOf(keys, key) = {} THEN Openings(keys) \union {m + 1}
                                                          ELSE Openings(keys)
  <1> DEFINE A == Openings(more)
             B == Openings(keys)
             n == m + 1
  <1>1. m \in Nat /\ DOMAIN keys \subseteq 1 .. m /\ more[n] = key
        /\ DOMAIN more = DOMAIN keys \union {n}
    BY DEF Grows
  <1>2. n \notin DOMAIN keys
    BY PositionsGrow
  <1>3. ASSUME NEW k \in DOMAIN keys
        PROVE  k \in A <=> k \in B
    <2>1. PositionsOf(keys, keys[k]) \subseteq 1 .. m
      BY <1>1, PositionsIn
    <2>2. UpTo(PositionsOf(keys, keys[k]) \union {m + 1}, k) = UpTo(PositionsOf(keys, keys[k]), k)
      BY <1>1, <2>1, UpToBefore
    <2>3. UpTo(PositionsOf(more, keys[k]), k) = UpTo(PositionsOf(keys, keys[k]), k)
      <3>1. \/ PositionsOf(more, keys[k]) = PositionsOf(keys, keys[k]) \union {m + 1}
            \/ PositionsOf(more, keys[k]) = PositionsOf(keys, keys[k])
        BY PositionsGrow
      <3> QED
        BY <2>2, <3>1
    <2> QED
      BY <2>3 DEF Openings, Grows
  <1>4. n \in A <=> PositionsOf(keys, key) = {}
    <2> DEFINE P == PositionsOf(keys, key)
    <2>1. P \subseteq 1 .. m
      BY <1>1, PositionsIn
    <2>2. UpTo(P \union {m + 1}, m + 1) = P \union {m + 1} /\ m + 1 \notin P
      BY <1>1, <2>1, UpToLast
    <2>3. PositionsOf(more, key) = P \union {m + 1}
      BY PositionsGrow
    <2>4. n \in A <=> UpTo(PositionsOf(more, key), n) = {n}
      BY <1>1 DEF Openings
    <2> HIDE DEF P
    <2>5. UpTo(PositionsOf(more, key), n) = P \union {n} /\ n \notin P
      BY <2>2, <2>3
    <2>6. P \union {n} = {n} <=> P = {}
      BY <2>5
    <2> QED
      BY <2>4, <2>5, <2>6 DEF P
  <1>5. A \subseteq DOMAIN keys \union {n} /\ B \subseteq DOMAIN keys
    BY <1>1 DEF Openings
  <1> HIDE DEF A, B, n
  <1>6. A = IF n \in A THEN B \union {n} ELSE B
    BY <1>2, <1>3, <1>5
  <1>7. A = IF PositionsOf(keys, key) = {} THEN B \union {n} ELSE B
    BY <1>4, <1>6
  <1> QED
    BY <1>7 DEF A, B, n

LEMMA OpeningsSize ==
    ASSUME NEW keys, NEW m, NEW key, NEW more, Grows(keys, m, key, more)
    PROVE  /\ Cardinality(Openings(keys)) \in Nat
           /\ Cardinality(Openings(keys) \union {m + 1}) = Cardinality(Openings(keys)) + 1
  <1>1. m \in Nat /\ DOMAIN keys \subseteq 1 .. m
    BY DEF Grows
  <1>2. Openings(keys) \subseteq 1 .. m
    BY <1>1, PositionsIn
  <1> QED
    BY <1>1, <1>2, AddPosition

\* A new key is among the first ones when they were fewer than the limit.
LEMMA FirstKeysGrow ==
    ASSUME NEW keys, NEW m, NEW key, NEW more, NEW max \in Nat,
           Grows(keys, m, key, more)
    PROVE  /\ Fresh(keys, key, max) => FirstKeys(more, max) = FirstKeys(keys, max) \union {key}
           /\ ~Fresh(keys, key, max) => FirstKeys(more, max) = FirstKeys(keys, max)
  <1> DEFINE n == m + 1
             S == Openings(keys)
             Won(set) == {k \in set : Cardinality(UpTo(set, k)) <= max}
  <1>1. /\ m \in Nat /\ DOMAIN keys \subseteq 1 .. m /\ more[n] = key
        /\ \A i \in DOMAIN keys : more[i] = keys[i]
    BY DEF Grows
  <1>2. S \subseteq 1 .. m /\ S \subseteq DOMAIN keys
    BY <1>1 DEF Openings
  <1>3. Cardinality(S) \in Nat /\ Cardinality(S \union {n}) = Cardinality(S) + 1
    BY OpeningsSize
  <1>4. /\ FirstKeys(keys, max) = {keys[i] : i \in Won(S)}
        /\ FirstKeys(more, max) = {more[i] : i \in Won(Openings(more))}
    BY DEF FirstKeys
  <1>5. \A i \in Won(S) : more[i] = keys[i]
    BY <1>1, <1>2
  <1>6. Openings(more) = IF PositionsOf(keys, key) = {} THEN S \union {n} ELSE S
    BY OpeningsGrow
  <1>7. Won(S \union {n}) = IF Cardinality(S) < max THEN Won(S) \union {n} ELSE Won(S)
    <2>1. /\ \A k \in S : UpTo(S \union {n}, k) = UpTo(S, k)
          /\ UpTo(S \union {n}, n) = S \union {n}
          /\ n \notin S
      <3>1. \A k \in S : UpTo(S \union {n}, k) = UpTo(S, k)
        BY <1>1, <1>2, UpToBefore
      <3>2. UpTo(S \union {n}, n) = S \union {n} /\ n \notin S
        BY <1>1, <1>2, UpToLast
      <3> QED
        BY <3>1, <3>2
    <2> DEFINE A == Won(S \union {n})
               B == Won(S)
    <2>2. \A k \in S : k \in A <=> k \in B
      BY <2>1
    <2>3. n \in A <=> Cardinality(S) < max
      <3>1. Cardinality(S) + 1 <= max <=> Cardinality(S) < max
        BY <1>3
      <3> QED
        BY <1>3, <2>1, <3>1
    <2>4. A \subseteq S \union {n} /\ B \subseteq S
      OBVIOUS
    <2> HIDE DEF A, B, S
    <2>5. A = IF n \in A THEN B \union {n} ELSE B
      BY <2>1, <2>2, <2>4
    <2>6. A = IF Cardinality(S) < max THEN B \union {n} ELSE B
      BY <2>3, <2>5
    <2> QED
      BY <2>6 DEF A, B
  <1>8. /\ PositionsOf(keys, key) = {} /\ Cardinality(S) < max =>
             FirstKeys(more, max) = FirstKeys(keys, max) \union {key}
        /\ ~(PositionsOf(keys, key) = {} /\ Cardinality(S) < max) =>
             FirstKeys(more, max) = FirstKeys(keys, max)
    <2> DEFINE none == PositionsOf(keys, key) = {}
    <2> HIDE DEF Won, S
    <2>1. CASE none /\ Cardinality(S) < max
      <3>1. FirstKeys(more, max) = {more[i] : i \in Won(S) \union {n}}
        BY <1>4, <1>6, <1>7, <2>1
      <3>2. FirstKeys(more, max) = {keys[i] : i \in Won(S)} \union {key}
        BY <1>1, <1>5, <3>1
      <3> QED
        BY <1>4, <2>1, <3>2
    <2>2. CASE ~(none /\ Cardinality(S) < max)
      <3>1. Won(Openings(more)) = Won(S)
        BY <1>6, <1>7, <2>2
      <3>2. FirstKeys(more, max) = {keys[i] : i \in Won(S)}
        BY <1>4, <1>5, <3>1
      <3> QED
        BY <1>4, <2>2, <3>2
    <2> QED
      BY <2>1, <2>2
  <1> QED
    BY <1>8 DEF Fresh

\* A key that is among the first was seen.
LEMMA FirstKeySeen ==
    ASSUME NEW keys, NEW max, NEW key \in FirstKeys(keys, max)
    PROVE  PositionsOf(keys, key) # {}
  BY DEF FirstKeys, Openings, PositionsOf

\* One more packet of a key in the table: the table stays the right one.
LEMMA KnownKey ==
    ASSUME NEW keys, NEW m, NEW key, NEW more, NEW max \in Nat, NEW table,
           Grows(keys, m, key, more), HoldsFirst(table, keys, max), key \in table
    PROVE  HoldsFirst(table, more, max)
  <1>0. /\ Fresh(keys, key, max) => FirstKeys(more, max) = FirstKeys(keys, max) \union {key}
        /\ ~Fresh(keys, key, max) => FirstKeys(more, max) = FirstKeys(keys, max)
        /\ Openings(more) = IF PositionsOf(keys, key) = {} THEN Openings(keys) \union {m + 1}
                                                         ELSE Openings(keys)
    BY FirstKeysGrow, OpeningsGrow
  <1>1. PositionsOf(keys, key) # {}
    BY FirstKeySeen DEF HoldsFirst
  <1>2. FirstKeys(more, max) = FirstKeys(keys, max) /\ Openings(more) = Openings(keys)
    BY <1>0, <1>1 DEF Fresh
  <1>3. Cardinality(table) < max => \A i \in DOMAIN more : more[i] \in table
    BY DEF HoldsFirst, Grows
  <1> QED
    BY <1>2, <1>3 DEF HoldsFirst

\* A key that a full table does not have is not among the first ones.
LEMMA RefusedKey ==
    ASSUME NEW keys, NEW m, NEW key, NEW more, NEW max \in Nat, NEW table,
           Grows(keys, m, key, more), HoldsFirst(table, keys, max), key \notin table, Cardinality(table) >= max
    PROVE  HoldsFirst(table, more, max)
  <1>0. /\ Fresh(keys, key, max) => FirstKeys(more, max) = FirstKeys(keys, max) \union {key}
        /\ ~Fresh(keys, key, max) => FirstKeys(more, max) = FirstKeys(keys, max)
        /\ Openings(more) = IF PositionsOf(keys, key) = {} THEN Openings(keys) \union {m + 1}
                                                         ELSE Openings(keys)
    BY FirstKeysGrow, OpeningsGrow
  <1>1. /\ Cardinality(table) \in Nat /\ Cardinality(table) <= Cardinality(Openings(keys))
        /\ Cardinality(Openings(keys)) \in Nat
        /\ Cardinality(Openings(keys) \union {m + 1}) = Cardinality(Openings(keys)) + 1
    BY FS_CardinalityType, OpeningsSize DEF HoldsFirst
  <1>2. ~(Cardinality(Openings(keys)) < max) /\ ~(Cardinality(table) < max)
    BY <1>1
  <1>3. FirstKeys(more, max) = FirstKeys(keys, max)
    BY <1>0, <1>2 DEF Fresh
  <1>4. Openings(more) = Openings(keys) \/ Openings(more) = Openings(keys) \union {m + 1}
    BY <1>0
  <1>5. Cardinality(table) <= Cardinality(Openings(more))
    BY <1>1, <1>4
  <1> QED
    BY <1>2, <1>3, <1>5 DEF HoldsFirst

\* A key that a table with room does not have was never seen; with it the
\* table is right again.
LEMMA AddedKey ==
    ASSUME NEW keys, NEW m, NEW key, NEW more, NEW max \in Nat, NEW table,
           Grows(keys, m, key, more), HoldsFirst(table, keys, max), key \notin table, Cardinality(table) < max
    PROVE  /\ PositionsOf(keys, key) = {}
           /\ HoldsFirst(table \union {key}, more, max)
  <1>0. /\ Fresh(keys, key, max) => FirstKeys(more, max) = FirstKeys(keys, max) \union {key}
        /\ ~Fresh(keys, key, max) => FirstKeys(more, max) = FirstKeys(keys, max)
        /\ Openings(more) = IF PositionsOf(keys, key) = {} THEN Openings(keys) \union {m + 1}
                                                         ELSE Openings(keys)
    BY FirstKeysGrow, OpeningsGrow
  <1>1. /\ Cardinality(Openings(keys)) = Cardinality(table)
        /\ \A i \in DOMAIN keys : keys[i] \in table
        /\ IsFiniteSet(table) /\ Cardinality(table) \in Nat
    BY FS_CardinalityType DEF HoldsFirst
  <1>2. PositionsOf(keys, key) = {}
    BY <1>1 DEF PositionsOf
  <1>3. FirstKeys(more, max) = table \union {key}
    BY <1>0, <1>1, <1>2 DEF HoldsFirst, Fresh
  <1>4. Cardinality(Openings(more)) = Cardinality(table) + 1
    BY <1>0, <1>1, <1>2, OpeningsSize
  <1>5. IsFiniteSet(table \union {key}) /\ Cardinality(table \union {key}) = Cardinality(table) + 1
    BY <1>1, FS_AddElement
  <1>6. \A i \in DOMAIN more : more[i] \in table \union {key}
    BY <1>1 DEF Grows
  <1> QED
    BY <1>1, <1>2, <1>3, <1>4, <1>5, <1>6 DEF HoldsFirst

\* The packet is one of the first of each when its key is, and has not used
\* its share up; no other packet's place is changed by it.
LEMMA FirstOfEachGrows ==
    ASSUME NEW keys, NEW m, NEW key, NEW more, NEW max \in Nat, NEW perKey \in Nat,
           Grows(keys, m, key, more)
    PROVE  FirstOfEach(more, max, perKey) =
             IF key \in FirstKeys(more, max) /\ Cardinality(PositionsOf(keys, key)) < perKey
               THEN FirstOfEach(keys, max, perKey) \union {m + 1}
               ELSE FirstOfEach(keys, max, perKey)
  <1> DEFINE n == m + 1
             A == FirstOfEach(more, max, perKey)
             B == FirstOfEach(keys, max, perKey)
  <1>1. /\ m \in Nat /\ DOMAIN keys \subseteq 1 .. m /\ more[n] = key
        /\ \A i \in DOMAIN keys : more[i] = keys[i]
        /\ DOMAIN more = DOMAIN keys \union {n}
        /\ n \notin DOMAIN keys
    BY PositionsGrow DEF Grows
  <1>2. ASSUME NEW i \in DOMAIN keys PROVE i \in A <=> i \in B
    <2>0. /\ Fresh(keys, key, max) => FirstKeys(more, max) = FirstKeys(keys, max) \union {key}
          /\ ~Fresh(keys, key, max) => FirstKeys(more, max) = FirstKeys(keys, max)
      BY FirstKeysGrow
    <2>1. keys[i] \in FirstKeys(more, max) <=> keys[i] \in FirstKeys(keys, max)
      <3>1. CASE keys[i] = key
        <4>1. PositionsOf(keys, key) # {}
          BY <3>1 DEF PositionsOf
        <4> QED
          BY <2>0, <4>1 DEF Fresh
      <3>2. CASE keys[i] # key
        BY <2>0, <3>2
      <3> QED
        BY <3>1, <3>2
    <2>2. UpTo(PositionsOf(more, keys[i]), i) = UpTo(PositionsOf(keys, keys[i]), i)
      <3>1. PositionsOf(keys, keys[i]) \subseteq 1 .. m
        BY <1>1, PositionsIn
      <3>2. UpTo(PositionsOf(keys, keys[i]) \union {m + 1}, i) = UpTo(PositionsOf(keys, keys[i]), i)
        BY <1>1, <3>1, UpToBefore
      <3>3. \/ PositionsOf(more, keys[i]) = PositionsOf(keys, keys[i]) \union {m + 1}
            \/ PositionsOf(more, keys[i]) = PositionsOf(keys, keys[i])
        BY PositionsGrow
      <3> QED
        BY <3>2, <3>3
    <2> QED
      BY <1>1, <2>1, <2>2 DEF FirstOfEach
  <1>3. n \in A <=> key \in FirstKeys(more, max) /\ Cardinality(PositionsOf(keys, key)) < perKey
    <2> DEFINE P == PositionsOf(keys, key)
    <2>1. P \subseteq 1 .. m
      BY <1>1, PositionsIn
    <2>2. UpTo(P \union {m + 1}, m + 1) = P \union {m + 1}
      BY <1>1, <2>1, UpToLast
    <2>3. PositionsOf(more, key) = P \union {m + 1}
      BY PositionsGrow
    <2>4. Cardinality(P) \in Nat /\ Cardinality(P \union {m + 1}) = Cardinality(P) + 1
      BY PositionsGrow
    <2>5. n \in A <=> key \in FirstKeys(more, max)
                        /\ Cardinality(UpTo(PositionsOf(more, key), n)) <= perKey
      BY <1>1 DEF FirstOfEach
    <2> HIDE DEF P
    <2>6. Cardinality(UpTo(PositionsOf(more, key), n)) = Cardinality(P) + 1
      BY <2>2, <2>3, <2>4
    <2>7. Cardinality(P) + 1 <= perKey <=> Cardinality(P) < perKey
      BY <2>4
    <2> QED
      BY <2>5, <2>6, <2>7 DEF P
  <1>4. A \subseteq DOMAIN keys \union {n} /\ B \subseteq DOMAIN keys
    BY <1>1 DEF FirstOfEach
  <1> HIDE DEF A, B, n
  <1>5. A = IF n \in A THEN B \union {n} ELSE B
    BY <1>1, <1>2, <1>4
  <1>6. A = IF key \in FirstKeys(more, max) /\ Cardinality(PositionsOf(keys, key)) < perKey
              THEN B \union {n} ELSE B
    BY <1>3, <1>5
  <1> QED
    BY <1>6 DEF A, B, n

-----------------------------------------------------------------------------
\* A listing of positions, when the capture grows and its last position is
\* not one of them, and when it is.
\* Positions always have their ranks.
LEMMA RanksTaken ==
    ASSUME NEW m \in Nat, NEW S, S \subseteq 1 .. m
    PROVE  Ranked(S)
  <1> DEFINE P(n) == \A U \in SUBSET (1 .. n) : Ranked(U)
             D == {n \in Nat : P(n)}
  <1>1. 0 \in D
    <2>1. Cardinality({}) = 0 /\ \A U \in SUBSET (1 .. 0) : U = {}
      BY FS_EmptySet
    <2>2. Ranked({})
      BY <2>1 DEF Ranked
    <2> QED
      BY <2>1, <2>2, Zenon
  <1>2. ASSUME NEW n \in D
        PROVE  n + 1 \in D
    <2>1. n \in Nat /\ P(n)
      OBVIOUS
    <2>2. ASSUME NEW U \in SUBSET (1 .. n + 1)
          PROVE  Ranked(U)
      <3> DEFINE V == U \intersect (1 .. n)
      <3>1. V \in SUBSET (1 .. n) /\ (U = V \/ U = V \union {n + 1})
        <4>1. \A i \in 1 .. n + 1 : i \in 1 .. n \/ i = n + 1
          BY <2>1
        <4> QED
          BY <4>1
      <3>2. Ranked(V)
        BY <2>1, <3>1
      <3> HIDE DEF V
      <3>3. Ranked(V \union {n + 1})
        BY <2>1, <3>1, <3>2, ListingGrows
      <3> QED
        BY <3>1, <3>2, <3>3
    <2> QED
      BY <2>1, <2>2
  <1>3. D \in SUBSET Nat
    OBVIOUS
  <1> HIDE DEF D
  <1>4. \A n \in Nat : n \in D
    BY <1>1, <1>2, <1>3, Induction
  <1> QED
    BY <1>4 DEF D

LEMMA ListingStays ==
    ASSUME NEW T, NEW s \in Seq(T), NEW packet \in T, NEW S, S \subseteq 1 .. Len(s), Ranked(S)
    PROVE  Listing(S, Append(s, packet)) = Listing(S, s)
  <1>1. \A k \in 1 .. Cardinality(S) : Nth(S, k) \in S
    BY LenProperties, ListingGrows
  <1>2. \A i \in 1 .. Len(s) : Append(s, packet)[i] = s[i]
    OBVIOUS
  <1>3. \A k \in 1 .. Cardinality(S) : Append(s, packet)[Nth(S, k)] = s[Nth(S, k)]
    BY <1>1, <1>2
  <1> DEFINE c == Cardinality(S)
             more == Append(s, packet)
  <1> HIDE DEF c, more
  <1>4. [k \in 1 .. c |-> more[Nth(S, k)]] = [k \in 1 .. c |-> s[Nth(S, k)]]
    BY <1>3 DEF c, more
  <1> QED
    BY <1>4 DEF Listing, c, more

\* The list has what s has at the positions of S, in order.
Lists(list, S, s) == list = Listing(S, s)

LEMMA ListingLength ==
    ASSUME NEW T, NEW list \in Seq(T), NEW S, NEW f, Lists(list, S, f), Cardinality(S) \in Nat
    PROVE  /\ Len(list) = Cardinality(S)
           /\ \A k \in 1 .. Len(list) : list[k] = f[Nth(S, k)]
  <1> DEFINE c == Cardinality(S)
  <1>1. list = [k \in 1 .. c |-> f[Nth(S, k)]]
    BY DEF Lists, Listing
  <1>2. DOMAIN list = 1 .. c /\ \A k \in 1 .. c : list[k] = f[Nth(S, k)]
    BY <1>1
  <1>3. DOMAIN list = 1 .. Len(list) /\ Len(list) \in Nat
    BY LenProperties
  <1>4. \A a, b \in Nat : 1 .. a = 1 .. b => a = b
    <2> SUFFICES ASSUME NEW a \in Nat, NEW b \in Nat, 1 .. a = 1 .. b, a # b
                 PROVE  FALSE
      OBVIOUS
    <2>1. a \in 1 .. a \/ a = 0
      OBVIOUS
    <2>2. b \in 1 .. b \/ b = 0
      OBVIOUS
    <2> QED
      BY <2>1, <2>2
  <1> HIDE DEF c
  <1>5. Len(list) = c
    BY <1>2, <1>3, <1>4 DEF c
  <1> QED
    BY <1>2, <1>5 DEF c

\* The listing of a function over a set of positions, one position more.
LEMMA ListingExtended ==
    ASSUME NEW m \in Nat, NEW S, S \subseteq 1 .. m, Ranked(S), NEW T, NEW list \in Seq(T),
           NEW f, Lists(list, S, f), NEW item \in T, NEW g, g[m + 1] = item,
           \A i \in S : g[i] = f[i]
    PROVE  Lists(Append(list, item), S \union {m + 1}, g)
  <1> DEFINE U == S \union {m + 1}
             c == Cardinality(S)
             now == Append(list, item)
  <1>2. c \in Nat /\ Cardinality(U) = c + 1
    BY AddPosition
  <1>3. /\ \A k \in 1 .. c : Nth(S, k) \in S /\ Nth(U, k) = Nth(S, k)
        /\ Nth(U, c + 1) = m + 1
    BY ListingGrows
  <1>5. list = [k \in 1 .. c |-> f[Nth(S, k)]]
    BY DEF Lists, Listing
  <1>8. Len(list) = c
    BY <1>2, ListingLength
  <1>9. /\ DOMAIN now = 1 .. c + 1
        /\ \A k \in 1 .. c : now[k] = list[k]
        /\ now[c + 1] = item
        /\ now = [k \in 1 .. c + 1 |-> now[k]]
    <2>1. /\ now \in Seq(T)
          /\ DOMAIN now = 1 .. Len(list) + 1
          /\ \A k \in 1 .. Len(list) : now[k] = list[k]
          /\ now[Len(list) + 1] = item
      BY AppendProperties
    <2>2. now = [k \in DOMAIN now |-> now[k]]
      <3>1. now \in [1 .. Len(now) -> T]
        BY <2>1, LenProperties
      <3> HIDE DEF now
      <3> QED
        BY <3>1
    <2> HIDE DEF c, now
    <2> QED
      BY <1>8, <2>1, <2>2
  <1> HIDE DEF U, c, now
  <1>11. ASSUME NEW k \in 1 .. c + 1
         PROVE  now[k] = g[Nth(U, k)]
    <2>1. CASE k \in 1 .. c
      <3>1. Nth(S, k) \in S /\ Nth(U, k) = Nth(S, k)
        BY <1>3, <2>1
      <3>2. list[k] = f[Nth(S, k)]
        BY <1>5, <2>1
      <3>3. g[Nth(S, k)] = f[Nth(S, k)] /\ now[k] = list[k]
        BY <1>9, <2>1, <3>1
      <3> QED
        BY <3>1, <3>2, <3>3, Zenon
    <2>2. CASE k = c + 1
      BY <1>3, <1>9, <2>2, Zenon
    <2>3. k \in 1 .. c \/ k = c + 1
      BY <1>2
    <2> QED
      BY <2>1, <2>2, <2>3, Zenon
  <1>12. now = [k \in 1 .. c + 1 |-> g[Nth(U, k)]]
    BY <1>9, <1>11, Zenon
  <1>13. now = [k \in 1 .. Cardinality(U) |-> g[Nth(U, k)]]
    BY <1>2, <1>12
  <1> QED
    BY <1>13 DEF Lists, Listing, U, now

LEMMA ListingAppend ==
    ASSUME NEW T, NEW s \in Seq(T), NEW packet \in T, NEW S, S \subseteq 1 .. Len(s), Ranked(S),
           NEW list \in Seq(T), Lists(list, S, s)
    PROVE  Lists(Append(list, packet), S \union {Len(s) + 1}, Append(s, packet))
  <1> DEFINE m == Len(s)
             more == Append(s, packet)
  <1>1. m \in Nat /\ S \subseteq 1 .. m
    BY LenProperties
  <1>2. /\ \A i \in 1 .. m : more[i] = s[i]
        /\ more[m + 1] = packet
    BY AppendProperties
  <1> HIDE DEF m, more
  <1>3. \A i \in S : more[i] = s[i]
    BY <1>1, <1>2
  <1>4. Lists(Append(list, packet), S \union {m + 1}, more)
    BY <1>1, <1>2, <1>3, ListingExtended
  <1> QED
    BY <1>4 DEF m, more

\* The listing of a function that has the same values there.
LEMMA ListingSame ==
    ASSUME NEW m \in Nat, NEW S, S \subseteq 1 .. m, Ranked(S), NEW list, NEW f, Lists(list, S, f),
           NEW g, \A i \in S : g[i] = f[i]
    PROVE  Lists(list, S, g)
  <1> DEFINE c == Cardinality(S)
  <1>1. \A k \in 1 .. c : Nth(S, k) \in S
    BY ListingGrows
  <1>2. list = [k \in 1 .. c |-> f[Nth(S, k)]]
    BY DEF Lists, Listing
  <1> HIDE DEF c
  <1>3. \A k \in 1 .. c : g[Nth(S, k)] = f[Nth(S, k)]
    BY <1>1
  <1>4. list = [k \in 1 .. c |-> g[Nth(S, k)]]
    BY <1>2, <1>3
  <1> QED
    BY <1>4 DEF Lists, Listing, c

LEMMA EmptyListing ==
    ASSUME NEW f
    PROVE  Lists(<< >>, {}, f) /\ Ranked({})
  <1>1. Cardinality({}) = 0
    BY FS_EmptySet
  <1> QED
    BY <1>1 DEF Lists, Listing, Ranked
=============================================================================
