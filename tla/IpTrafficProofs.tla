-------------------------- MODULE IpTrafficProofs ---------------------------
(***************************************************************************)
(* Proofs about IpTraffic, for any keys, any length of datagrams and any   *)
(* fragments: what Rebuild makes of the cuts of a datagram, and that every *)
(* datagram is handed on whole and in its turn.                            *)
(***************************************************************************)
EXTENDS IpTraffic, FiniteSetTheorems, SequenceTheorems, WellFoundedInduction, TLAPS

\* A fragment of the n-th datagram of a key.
IsCut(frag, key, n) ==
    \E p \in Positions : \E q \in p .. DatagramLen - 1 :
        frag = Fragment(p, q < DatagramLen - 1, Slice(key, n, p, q))

\* Some fragments of it, at least one.
CutsOf(frags, key, n) ==
    /\ \E len \in Nat \ {0} : DOMAIN frags = 1 .. len
    /\ \A i \in DOMAIN frags : IsCut(frags[i], key, n)

\* What the fragments at the places S cover.
Units(frag) == frag.offset .. frag.offset + Len(frag.payload) - 1

CoveredBy(frags, S) == UNION {Units(frags[i]) : i \in S}

\* What joining them amounts to: the datagram up to where they reach, a gap
\* before one of them, or all of it.
Joined(acc, frags, S, key, n) ==
    /\ acc = [rebuilt |-> acc.rebuilt, end |-> acc.end]
    /\ \/ /\ acc.end = "none"
          /\ \E len \in 0 .. DatagramLen - 1 :
               acc.rebuilt = Slice(key, n, 0, len - 1) /\ CoveredBy(frags, S) = 0 .. len - 1
       \/ /\ acc.end = "gap"
          /\ \E g \in Positions \ CoveredBy(frags, S) : \E i \in S : g < frags[i].offset
       \/ acc.end = "complete" /\ acc.rebuilt = Whole(key, n) /\ CoveredBy(frags, S) = Positions

-----------------------------------------------------------------------------
\* A set of numbers with 0 and the successors of its members has them all.
LEMMA CountingUp ==
    ASSUME NEW S \in SUBSET Nat, 0 \in S, \A n \in S : n + 1 \in S
    PROVE  S = Nat
  <1> SUFFICES ASSUME Nat \ S # {} PROVE FALSE
    OBVIOUS
  <1>1. PICK x \in Nat \ S : \A y \in Nat \ S : ~ (<<y, x>> \in OpToRel(<, Nat))
    BY NatLessThanWellFounded, WFMin
  <1>2. \A y \in Nat \ S : ~ (y < x)
    BY <1>1 DEF OpToRel
  <1>3. x \in Nat /\ x # 0
    OBVIOUS
  <1>4. x - 1 \in Nat /\ x - 1 < x
    BY <1>3
  <1>5. x - 1 \in S
    BY <1>2, <1>4
  <1>6. (x - 1) + 1 \in S
    BY <1>5
  <1> QED
    BY <1>3, <1>6

\* A set of numbers below a bound has a largest one.
LEMMA LargestBelow ==
    ASSUME NEW b \in Nat, NEW S \in SUBSET (0 .. b), S # {}
    PROVE  \E i \in S : \A j \in S : j <= i
  <1> DEFINE T == {b - i : i \in S}
  <1>1. T \subseteq Nat /\ T # {}
    <2>1. PICK k \in S : TRUE
      OBVIOUS
    <2>2. b - k \in T
      BY <2>1
    <2>3. \A i \in S : b - i \in Nat
      OBVIOUS
    <2> QED
      BY <2>2, <2>3
  <1>2. PICK x \in T : \A y \in T : ~ (<<y, x>> \in OpToRel(<, Nat))
    BY <1>1, NatLessThanWellFounded, WFMin
  <1>3. \A y \in T : ~ (y < x)
    BY <1>1, <1>2 DEF OpToRel
  <1>4. PICK i \in S : x = b - i
    BY <1>2
  <1>5. \A j \in S : j <= i
    <2> SUFFICES ASSUME NEW j \in S PROVE j <= i
      OBVIOUS
    <2>1. b - j \in T
      OBVIOUS
    <2>2. ~ (b - j < b - i)
      BY <2>1, <1>3, <1>4
    <2>3. i \in Int /\ j \in Int
      OBVIOUS
    <2> QED
      BY <2>2, <2>3
  <1> QED
    BY <1>5

-----------------------------------------------------------------------------
\* Slices, and the fragments made of them.
UnitsOf(key, n) == {Unit(key, n, u) : u \in Int}

LEMMA SliceIs ==
    ASSUME NEW key, NEW n, NEW p \in Int, NEW q \in Int, p <= q + 1
    PROVE  /\ Len(Slice(key, n, p, q)) = q - p + 1
           /\ \A i \in 1 .. q - p + 1 : Slice(key, n, p, q)[i] = Unit(key, n, p + i - 1)
           /\ Slice(key, n, p, q) \in Seq(UnitsOf(key, n))
  <1>1. q - p + 1 \in Nat
    OBVIOUS
  <1>2. \A i \in 1 .. q - p + 1 : p + i - 1 \in Int
    OBVIOUS
  <1>3. \A i \in 1 .. q - p + 1 : Unit(key, n, p + i - 1) \in UnitsOf(key, n)
    BY <1>2 DEF UnitsOf
  <1> QED
    BY <1>1, <1>3 DEF Slice

LEMMA SliceBegins ==
    ASSUME NEW key, NEW n, NEW len \in Nat, NEW p \in 0 .. len, NEW q \in Int, len <= q
    PROVE  LET payload == Slice(key, n, p, q) IN
           Slice(key, n, 0, len - 1) \o SubSeq(payload, (len - p) + 1, Len(payload)) = Slice(key, n, 0, q)
  <1> DEFINE payload == Slice(key, n, p, q)
             front == Slice(key, n, 0, len - 1)
             back == SubSeq(payload, (len - p) + 1, Len(payload))
             all == Slice(key, n, 0, q)
             B == UnitsOf(key, n)
  <1>1. /\ Len(payload) = q - p + 1 /\ payload \in Seq(B)
        /\ \A i \in 1 .. q - p + 1 : payload[i] = Unit(key, n, p + i - 1)
    BY SliceIs
  <1>2. /\ Len(front) = len /\ front \in Seq(B)
        /\ \A i \in 1 .. len : front[i] = Unit(key, n, i - 1)
    <2> DEFINE r == len - 1
    <2>1. r \in Int /\ 0 \in Int /\ 0 <= r + 1 /\ r - 0 + 1 = len
      OBVIOUS
    <2>2. \A i \in 1 .. len : 0 + i - 1 = i - 1
      OBVIOUS
    <2> HIDE DEF r
    <2>3. /\ Len(Slice(key, n, 0, r)) = len /\ Slice(key, n, 0, r) \in Seq(B)
          /\ \A i \in 1 .. len : Slice(key, n, 0, r)[i] = Unit(key, n, 0 + i - 1)
      BY <2>1, SliceIs
    <2> QED
      BY <2>2, <2>3 DEF r
  <1>3. /\ Len(all) = q + 1 /\ all \in Seq(B)
        /\ \A i \in 1 .. q + 1 : all[i] = Unit(key, n, i - 1)
    <2>1. 0 <= q + 1 /\ q - 0 + 1 = q + 1
      OBVIOUS
    <2>2. \A i \in 1 .. q + 1 : 0 + i - 1 = i - 1
      OBVIOUS
    <2> QED
      BY <2>1, <2>2, SliceIs
  <1> HIDE DEF payload, front, all, B
  <1>4. /\ Len(back) = q - len + 1 /\ back \in Seq(B)
        /\ \A i \in 1 .. q - len + 1 : back[i] = payload[(len - p) + i]
    BY <1>1
  <1> HIDE DEF back
  <1>5. \A i \in 1 .. q + 1 : (front \o back)[i] = all[i]
    <2> SUFFICES ASSUME NEW i \in 1 .. q + 1 PROVE (front \o back)[i] = all[i]
      OBVIOUS
    <2>1. CASE i <= len
      BY <1>2, <1>3, <1>4, <2>1
    <2>2. CASE i > len
      <3>1. i - len \in 1 .. q - len + 1 /\ (len - p) + (i - len) \in 1 .. q - p + 1
        BY <2>2
      <3>2. (front \o back)[i] = back[i - len]
        BY <1>2, <1>4, <2>2
      <3>3. back[i - len] = payload[(len - p) + (i - len)]
        BY <1>4, <3>1
      <3>4. payload[(len - p) + (i - len)] = Unit(key, n, p + ((len - p) + (i - len)) - 1)
        BY <1>1, <3>1
      <3>5. p + ((len - p) + (i - len)) - 1 = i - 1
        OBVIOUS
      <3> QED
        BY <1>3, <3>2, <3>3, <3>4, <3>5
    <2>3. i <= len \/ i > len
      OBVIOUS
    <2> QED
      BY <2>1, <2>2, <2>3, Zenon
  <1>6. front \o back \in Seq(B) /\ Len(front \o back) = q + 1
    <2>1. front \in Seq(B) /\ back \in Seq(B) /\ Len(front) = len /\ Len(back) = q - len + 1
      BY <1>2, <1>4, Zenon
    <2>2. front \o back \in Seq(B) /\ Len(front \o back) = Len(front) + Len(back)
      BY <2>1, ConcatProperties
    <2> QED
      BY <2>1, <2>2
  <1>7. front \o back = all
    BY <1>3, <1>5, <1>6, SeqEqual
  <1> QED
    BY <1>7 DEF payload, front, back, all

LEMMA CutIs ==
    ASSUME NEW frag, NEW key, NEW n, IsCut(frag, key, n)
    PROVE  \E p \in Positions : \E q \in p .. DatagramLen - 1 :
             /\ frag.offset = p /\ Len(frag.payload) = q - p + 1
             /\ frag.payload = Slice(key, n, p, q)
             /\ ~frag.mf <=> q = DatagramLen - 1
             /\ Units(frag) = p .. q
  <1>0. PICK p \in Positions : \E q \in p .. DatagramLen - 1 :
          frag = Fragment(p, q < DatagramLen - 1, Slice(key, n, p, q))
    BY DEF IsCut
  <1>1. PICK q \in p .. DatagramLen - 1 :
          frag = Fragment(p, q < DatagramLen - 1, Slice(key, n, p, q))
    BY <1>0
  <1>2. p \in Int /\ q \in Int /\ p <= q /\ p <= q + 1 /\ DatagramLen \in Nat
    BY IpTrafficAssumption DEF Positions
  <1>3. frag.offset = p /\ frag.payload = Slice(key, n, p, q) /\ frag.mf = (q < DatagramLen - 1)
    BY <1>1 DEF Fragment
  <1>4. Len(frag.payload) = q - p + 1
    <2>1. Len(Slice(key, n, p, q)) = q - p + 1
      BY <1>2, SliceIs
    <2> QED
      BY <1>3, <2>1
  <1>5. p + (q - p + 1) - 1 = q /\ (~(q < DatagramLen - 1) <=> q = DatagramLen - 1)
    BY <1>2
  <1>6. Units(frag) = p .. q
    BY <1>3, <1>4, <1>5 DEF Units
  <1>7. ~frag.mf <=> q = DatagramLen - 1
    BY <1>3, <1>5
  <1> QED
    BY <1>3, <1>4, <1>6, <1>7, Zenon

-----------------------------------------------------------------------------
\* The sorted order has a last place.
LEMMA LastIs ==
    ASSUME NEW key, NEW n, NEW frags, CutsOf(frags, key, n),
           NEW S \in SUBSET DOMAIN frags, S # {}
    PROVE  /\ LastByOffset(frags, S) \in S
           /\ \A j \in S : frags[j].offset <= frags[LastByOffset(frags, S)].offset
  <1>1. PICK len \in Nat : DOMAIN frags = 1 .. len
    BY DEF CutsOf
  <1>2. \A i \in S : frags[i].offset \in 0 .. DatagramLen /\ i \in 0 .. len
    <2> SUFFICES ASSUME NEW i \in S PROVE frags[i].offset \in 0 .. DatagramLen /\ i \in 0 .. len
      OBVIOUS
    <2>1. IsCut(frags[i], key, n)
      BY DEF CutsOf
    <2>2. frags[i].offset \in Positions
      BY <2>1, CutIs
    <2> QED
      BY <1>1, <2>2, IpTrafficAssumption DEF Positions
  <1> DEFINE offsets == {frags[i].offset : i \in S}
  <1>3. offsets \in SUBSET (0 .. DatagramLen) /\ offsets # {} /\ DatagramLen \in Nat
    BY <1>2, IpTrafficAssumption
  <1>4. PICK top \in offsets : \A o \in offsets : o <= top
    BY <1>3, LargestBelow
  <1> DEFINE tops == {i \in S : frags[i].offset = top}
  <1>5. tops \in SUBSET (0 .. len) /\ tops # {}
    BY <1>2
  <1>6. PICK i \in tops : \A j \in tops : j <= i
    BY <1>5, LargestBelow
  <1>7. i \in S /\ \A j \in S \ {i} : Precedes(frags, j, i)
    <2> SUFFICES ASSUME NEW j \in S, j # i PROVE Precedes(frags, j, i)
      OBVIOUS
    <2>1. frags[j].offset \in offsets /\ frags[i].offset = top
      OBVIOUS
    <2>2. frags[j].offset <= top
      BY <1>4, <2>1
    <2>3. CASE frags[j].offset = top
      <3>1. j <= i
        BY <1>6, <2>3
      <3> QED
        BY <1>2, <2>1, <2>3, <3>1 DEF Precedes
    <2>4. CASE frags[j].offset # top
      <3>1. frags[j].offset \in Int /\ frags[i].offset \in Int
        BY <1>2
      <3> QED
        BY <2>1, <2>2, <2>4, <3>1 DEF Precedes
    <2> QED
      BY <2>3, <2>4
  <1> DEFINE last == LastByOffset(frags, S)
  <1>8. last \in S /\ \A j \in S \ {last} : Precedes(frags, j, last)
    BY <1>7, Zenon DEF LastByOffset
  <1> HIDE DEF last
  <1>9. \A j \in S : frags[j].offset <= frags[last].offset
    <2> SUFFICES ASSUME NEW j \in S PROVE frags[j].offset <= frags[last].offset
      OBVIOUS
    <2>1. frags[j].offset \in Int /\ frags[last].offset \in Int
      BY <1>2, <1>8
    <2>2. j = last \/ Precedes(frags, j, last)
      BY <1>8
    <2> QED
      BY <2>1, <2>2 DEF Precedes
  <1> QED
    BY <1>8, <1>9 DEF last

\* One round: the fragment joined is the last of those joined so far.
LEMMA JoinsLast ==
    ASSUME NEW key, NEW n, NEW frags, CutsOf(frags, key, n),
           NEW S \in SUBSET DOMAIN frags, NEW x \in S, \A j \in S : frags[j].offset <= frags[x].offset,
           NEW acc, Joined(acc, frags, S \ {x}, key, n)
    PROVE  Joined(Join(acc, frags[x]), frags, S, key, n)
  <1> DEFINE frag == frags[x]
             rest == S \ {x}
  <1>1. CoveredBy(frags, S) = CoveredBy(frags, rest) \union Units(frag)
    BY DEF CoveredBy
  <1>2. IsCut(frag, key, n)
    BY DEF CutsOf
  <1>3. PICK p \in Positions : \E q \in p .. DatagramLen - 1 :
             /\ frag.offset = p /\ Len(frag.payload) = q - p + 1
             /\ frag.payload = Slice(key, n, p, q)
             /\ ~frag.mf <=> q = DatagramLen - 1
             /\ Units(frag) = p .. q
    BY <1>2, CutIs
  <1>4. PICK q \in p .. DatagramLen - 1 :
             /\ frag.offset = p /\ Len(frag.payload) = q - p + 1
             /\ frag.payload = Slice(key, n, p, q)
             /\ ~frag.mf <=> q = DatagramLen - 1
             /\ Units(frag) = p .. q
    BY <1>3
  <1>5. DatagramLen \in Nat \ {0} /\ Positions = 0 .. DatagramLen - 1 /\ p \in Nat /\ q \in Nat /\ p <= q
    BY IpTrafficAssumption DEF Positions
  <1>6. CASE acc.end = "none"
    <2>1. PICK len \in 0 .. DatagramLen - 1 :
            acc.rebuilt = Slice(key, n, 0, len - 1) /\ CoveredBy(frags, rest) = 0 .. len - 1
      BY <1>6 DEF Joined
    <2>2. Len(acc.rebuilt) = len
      <3> DEFINE r == len - 1
      <3>1. r \in Int /\ 0 \in Int /\ 0 <= r + 1 /\ r - 0 + 1 = len
        BY <1>5
      <3> HIDE DEF r
      <3>2. Len(Slice(key, n, 0, r)) = len
        BY <3>1, SliceIs
      <3> QED
        BY <2>1, <3>2 DEF r
    <2>3. CASE p > len
      <3>1. Join(acc, frag) = [rebuilt |-> acc.rebuilt, end |-> "gap"]
        <4>1. Join(acc, frag) = [acc EXCEPT !.end = "gap"]
          BY <1>4, <1>5, <1>6, <2>2, <2>3 DEF Join
        <4>2. acc = [rebuilt |-> acc.rebuilt, end |-> acc.end]
          BY DEF Joined
        <4>3. [acc EXCEPT !.end = "gap"] = [rebuilt |-> acc.rebuilt, end |-> "gap"]
          <5>1. PICK bytes, end : acc = [rebuilt |-> bytes, end |-> end]
            BY <4>2
          <5> QED
            BY <5>1
        <4> QED
          BY <4>1, <4>3
      <3>2. len \in Positions /\ len \notin CoveredBy(frags, S) /\ len < frags[x].offset
        BY <1>1, <1>4, <1>5, <2>1, <2>3
      <3> QED
        BY <3>1, <3>2 DEF Joined
    <2>4. CASE p <= len
      <3> DEFINE overlap == len - p
                 joined == IF overlap < q - p + 1
                           THEN acc.rebuilt \o SubSeq(frag.payload, overlap + 1, Len(frag.payload))
                           ELSE acc.rebuilt
                 reach == IF len <= q THEN q + 1 ELSE len
      <3>1. joined = Slice(key, n, 0, reach - 1)
        <4>1. CASE len <= q
          <5>1. p \in 0 .. len /\ q \in Int /\ len \in Nat
            BY <1>5, <2>4
          <5>2. overlap < q - p + 1 /\ reach - 1 = q
            BY <1>5, <4>1
          <5> QED
            BY <1>4, <2>1, <4>1, <5>1, <5>2, SliceBegins
        <4>2. CASE ~(len <= q)
          <5>1. ~(overlap < q - p + 1)
            BY <1>5, <4>2
          <5> QED
            BY <2>1, <4>2, <5>1
        <4> QED
          BY <4>1, <4>2
      <3>2. reach \in 0 .. DatagramLen /\ CoveredBy(frags, S) = 0 .. reach - 1
        <4>1. CoveredBy(frags, S) = (0 .. len - 1) \union (p .. q)
          BY <1>1, <1>4, <2>1
        <4>2. (0 .. len - 1) \union (p .. q) = 0 .. reach - 1
          BY <1>5, <2>4
        <4> QED
          BY <1>5, <4>1, <4>2
      <3>3. Len(joined) = reach
        <4> DEFINE r == reach - 1
        <4>1. r \in Int /\ 0 \in Int /\ 0 <= r + 1 /\ r - 0 + 1 = reach
          BY <3>2
        <4> HIDE DEF r
        <4>2. Len(Slice(key, n, 0, r)) = reach
          BY <4>1, SliceIs
        <4> QED
          BY <3>1, <4>2 DEF r
      <3>4. Join(acc, frag) = [rebuilt |-> joined,
                               end |-> IF ~frag.mf /\ p + (q - p + 1) = reach THEN "complete" ELSE "none"]
        <4> DEFINE ov == Len(acc.rebuilt) - frag.offset
                   J == IF ov < Len(frag.payload)
                        THEN acc.rebuilt \o SubSeq(frag.payload, ov + 1, Len(frag.payload)) ELSE acc.rebuilt
        <4>1. Join(acc, frag) =
                IF acc.end # "none" THEN acc
                ELSE IF ov < 0 THEN [acc EXCEPT !.end = "gap"]
                ELSE [rebuilt |-> J, end |-> IF ~frag.mf /\ frag.offset + Len(frag.payload) = Len(J)
                                             THEN "complete" ELSE "none"]
          BY Zenon DEF Join
        <4>2. ov = overlap /\ ~(ov < 0)
          BY <1>4, <1>5, <2>2, <2>4
        <4> HIDE DEF ov
        <4>3. J = joined
          BY <1>4, <4>2
        <4> HIDE DEF J, joined
        <4> QED
          BY <1>4, <1>6, <3>3, <4>1, <4>2, <4>3
      <3>5. ~frag.mf /\ p + (q - p + 1) = reach <=> reach = DatagramLen
        BY <1>4, <1>5, <3>2
      <3>6. Whole(key, n) = Slice(key, n, 0, DatagramLen - 1)
        BY DEF Whole
      <3> HIDE DEF joined, reach
      <3>7. CASE reach = DatagramLen
        BY <1>5, <3>1, <3>2, <3>4, <3>5, <3>6, <3>7 DEF Joined
      <3>8. CASE reach # DatagramLen
        <4>1. reach \in 0 .. DatagramLen - 1
          BY <1>5, <3>2, <3>8
        <4> QED
          BY <3>1, <3>2, <3>4, <3>5, <3>8, <4>1 DEF Joined
      <3> QED
        BY <3>7, <3>8
    <2> QED
      BY <1>5, <2>3, <2>4
  <1>7. CASE acc.end = "gap"
    <2>1. PICK g \in Positions \ CoveredBy(frags, rest) : \E i \in rest : g < frags[i].offset
      BY <1>7 DEF Joined
    <2>2. PICK i \in rest : g < frags[i].offset
      BY <2>1
    <2>3. frags[i].offset <= p /\ frags[i].offset \in Int
      <3>1. IsCut(frags[i], key, n)
        BY DEF CutsOf
      <3>2. frags[i].offset \in Positions
        BY <3>1, CutIs
      <3> QED
        BY <1>4, <1>5, <3>2
    <2>4. g \notin CoveredBy(frags, S)
      BY <1>1, <1>4, <1>5, <2>2, <2>3
    <2>5. Join(acc, frag) = acc
      BY <1>7 DEF Join
    <2> QED
      BY <1>7, <2>2, <2>4, <2>5 DEF Joined
  <1>8. CASE acc.end = "complete"
    <2>1. Join(acc, frag) = acc
      BY <1>8 DEF Join
    <2>2. CoveredBy(frags, rest) = Positions /\ acc.rebuilt = Whole(key, n)
      BY <1>8 DEF Joined
    <2>3. CoveredBy(frags, S) = Positions
      BY <1>1, <1>4, <1>5, <2>2
    <2> QED
      BY <1>8, <2>1, <2>2, <2>3 DEF Joined
  <1> QED
    BY <1>6, <1>7, <1>8 DEF Joined

-----------------------------------------------------------------------------
\* The function of Rebuild is defined, for sets of up to m places.
Round(g, frags, S) ==
    IF S = {} THEN [rebuilt |-> << >>, end |-> "none"]
    ELSE Join(g[S \ {LastByOffset(frags, S)}], frags[LastByOffset(frags, S)])

Joining(g, frags, m) ==
    /\ g = [S \in SUBSET DOMAIN frags |-> g[S]]
    /\ \A S \in SUBSET DOMAIN frags : Cardinality(S) <= m => g[S] = Round(g, frags, S)

\* A set of places has one more than without its last.
LEMMA WithoutLast ==
    ASSUME NEW key, NEW n, NEW frags, CutsOf(frags, key, n), NEW S \in SUBSET DOMAIN frags
    PROVE  /\ Cardinality(S) \in Nat
           /\ Cardinality(S) = 0 <=> S = {}
           /\ S # {} => /\ Cardinality(S \ {LastByOffset(frags, S)}) = Cardinality(S) - 1
                        /\ S \ {LastByOffset(frags, S)} \in SUBSET DOMAIN frags
  <1>1. PICK len \in Nat : DOMAIN frags = 1 .. len
    BY DEF CutsOf
  <1>2. IsFiniteSet(S)
    BY <1>1, FS_Interval, FS_Subset
  <1>3. S # {} => LastByOffset(frags, S) \in S
    BY LastIs
  <1> QED
    BY <1>2, <1>3, FS_CardinalityType, FS_EmptySet, FS_RemoveElement

LEMMA JoiningDefined ==
    ASSUME NEW key, NEW n, NEW frags, CutsOf(frags, key, n), NEW m \in Nat
    PROVE  \E g : Joining(g, frags, m)
  <1> DEFINE P == {k \in Nat : \E g : Joining(g, frags, k)}
  <1>1. 0 \in P
    <2> DEFINE g == [S \in SUBSET DOMAIN frags |-> [rebuilt |-> << >>, end |-> "none"]]
    <2>1. ASSUME NEW S \in SUBSET DOMAIN frags, Cardinality(S) <= 0 PROVE g[S] = Round(g, frags, S)
      <3>1. Cardinality(S) \in Nat /\ (Cardinality(S) = 0 <=> S = {})
        BY WithoutLast, Zenon
      <3>2. S = {}
        BY <2>1, <3>1
      <3> QED
        BY <3>2 DEF Round
    <2>2. Joining(g, frags, 0)
      BY <2>1 DEF Joining
    <2> QED
      BY <2>2
  <1>2. ASSUME NEW k \in P PROVE k + 1 \in P
    <2>1. PICK g : Joining(g, frags, k)
      OBVIOUS
    <2> DEFINE h == [S \in SUBSET DOMAIN frags |-> IF Cardinality(S) = k + 1 THEN Round(g, frags, S) ELSE g[S]]
    <2>2. ASSUME NEW S \in SUBSET DOMAIN frags, Cardinality(S) <= k + 1 PROVE h[S] = Round(h, frags, S)
      <3>1. k \in Nat /\ Cardinality(S) \in Nat
        BY WithoutLast
      <3>2. Round(h, frags, S) = Round(g, frags, S)
        <4>1. CASE S = {}
          BY <4>1 DEF Round
        <4>2. CASE S # {}
          <5> DEFINE rest == S \ {LastByOffset(frags, S)}
          <5>1. Cardinality(rest) = Cardinality(S) - 1 /\ rest \in SUBSET DOMAIN frags
            BY <4>2, WithoutLast
          <5>2. Cardinality(rest) # k + 1
            BY <2>2, <3>1, <5>1
          <5>3. h[rest] = g[rest]
            BY <5>1, <5>2
          <5> HIDE DEF rest, h
          <5> QED
            BY <4>2, <5>3 DEF Round, rest
        <4> QED
          BY <4>1, <4>2
      <3>3. CASE Cardinality(S) = k + 1
        BY <3>2, <3>3
      <3>4. CASE Cardinality(S) # k + 1
        <4>1. Cardinality(S) <= k
          BY <2>2, <3>1, <3>4
        <4>2. g[S] = Round(g, frags, S)
          BY <2>1, <4>1 DEF Joining
        <4> QED
          BY <3>2, <3>4, <4>2
      <3> QED
        BY <3>3, <3>4
    <2>3. h = [S \in SUBSET DOMAIN frags |-> h[S]]
      OBVIOUS
    <2> HIDE DEF h
    <2>4. Joining(h, frags, k + 1)
      BY <2>2, <2>3 DEF Joining
    <2> QED
      BY <2>4
  <1>3. P \in SUBSET Nat
    OBVIOUS
  <1> HIDE DEF P
  <1>4. P = Nat
    BY <1>1, <1>2, <1>3, CountingUp
  <1> QED
    BY <1>4 DEF P

\* What fragments of one datagram amount to: the datagram, just if they cover
\* all of it.
LEMMA RebuildIs ==
    ASSUME NEW key, NEW n, NEW frags, CutsOf(frags, key, n)
    PROVE  /\ Rebuild(frags).end = "complete" <=> Covered(frags) = Positions
           /\ Rebuild(frags).end = "complete" => Rebuild(frags).rebuilt = Whole(key, n)
  <1> DEFINE D == DOMAIN frags
             g == CHOOSE g : g = [S \in SUBSET D |-> Round(g, frags, S)]
  <1>1. PICK len \in Nat \ {0} : D = 1 .. len
    BY DEF CutsOf
  <1>2. g = [S \in SUBSET D |-> Round(g, frags, S)]
    <2>1. PICK h : Joining(h, frags, len)
      BY JoiningDefined
    <2>2. ASSUME NEW S \in SUBSET D PROVE Cardinality(S) <= len
      <3>1. IsFiniteSet(1 .. len) /\ Cardinality(1 .. len) = len
        BY FS_Interval
      <3> QED
        BY <1>1, <3>1, FS_Subset
    <2>3. h = [S \in SUBSET D |-> h[S]]
      BY <2>1 DEF Joining
    <2>4. h = [S \in SUBSET D |-> Round(h, frags, S)]
      BY <2>1, <2>2 DEF Joining
    <2> QED
      BY <2>4
  <1>3. Rebuild(frags) = IF \A i \in D : frags[i].mf THEN [rebuilt |-> << >>, end |-> "none"] ELSE g[D]
    BY Zenon DEF Rebuild, Round
  <1> HIDE DEF g
  <1>4. \A S \in SUBSET D : Joined(g[S], frags, S, key, n)
    <2> DEFINE P == {k \in Nat : \A S \in SUBSET D : Cardinality(S) = k => Joined(g[S], frags, S, key, n)}
    <2>1. 0 \in P
      <3>1. ASSUME NEW S \in SUBSET D, Cardinality(S) = 0 PROVE Joined(g[S], frags, S, key, n)
        <4>1. S = {} /\ CoveredBy(frags, S) = {}
          BY <3>1, WithoutLast DEF CoveredBy
        <4>2. g[S] = [rebuilt |-> << >>, end |-> "none"]
          BY <1>2, <4>1 DEF Round
        <4>3. Slice(key, n, 0, -1) = << >>
          BY DEF Slice
        <4>4. 0 \in 0 .. DatagramLen - 1 /\ 0 - 1 = -1 /\ 0 .. 0 - 1 = {}
          BY IpTrafficAssumption
        <4> QED
          BY <4>1, <4>2, <4>3, <4>4 DEF Joined
      <3> QED
        BY <3>1
    <2>2. ASSUME NEW k \in P PROVE k + 1 \in P
      <3>1. ASSUME NEW S \in SUBSET D, Cardinality(S) = k + 1 PROVE Joined(g[S], frags, S, key, n)
        <4> DEFINE last == LastByOffset(frags, S)
        <4>1. S # {} /\ Cardinality(S \ {last}) = k /\ S \ {last} \in SUBSET D
          BY <3>1, WithoutLast
        <4>2. last \in S /\ \A j \in S : frags[j].offset <= frags[last].offset
          BY <4>1, LastIs
        <4>3. Joined(g[S \ {last}], frags, S \ {last}, key, n)
          BY <4>1
        <4>4. g[S] = Join(g[S \ {last}], frags[last])
          BY <1>2, <4>1 DEF Round
        <4> HIDE DEF last
        <4> QED
          BY <4>2, <4>3, <4>4, JoinsLast
      <3> QED
        BY <3>1
    <2>3. P \in SUBSET Nat
      OBVIOUS
    <2> HIDE DEF P
    <2>4. P = Nat
      BY <2>1, <2>2, <2>3, CountingUp
    <2> SUFFICES ASSUME NEW S \in SUBSET D PROVE Joined(g[S], frags, S, key, n)
      OBVIOUS
    <2>5. Cardinality(S) \in P
      BY <2>4, WithoutLast
    <2> QED
      BY <2>5 DEF P
  <1>5. Covered(frags) = CoveredBy(frags, D)
    BY DEF Covered, CoveredBy, Units
  <1>6. DatagramLen - 1 \in Positions /\ \A i \in Positions : i \in Int
    BY IpTrafficAssumption DEF Positions
  <1>7. CASE \A i \in D : frags[i].mf
    <2>1. Rebuild(frags).end = "none"
      BY <1>3, <1>7
    <2>2. ASSUME NEW i \in D PROVE DatagramLen - 1 \notin Units(frags[i])
      <3>1. IsCut(frags[i], key, n) /\ frags[i].mf
        BY <1>7 DEF CutsOf
      <3>2. PICK p \in Positions : \E q \in p .. DatagramLen - 1 :
                  (~frags[i].mf <=> q = DatagramLen - 1) /\ Units(frags[i]) = p .. q
        BY <3>1, CutIs
      <3>3. PICK q \in p .. DatagramLen - 1 :
                  (~frags[i].mf <=> q = DatagramLen - 1) /\ Units(frags[i]) = p .. q
        BY <3>2
      <3>4. q \in Int /\ q < DatagramLen - 1
        BY <1>6, <3>1, <3>3, IpTrafficAssumption
      <3> QED
        BY <1>6, <3>3, <3>4
    <2>3. DatagramLen - 1 \notin Covered(frags)
      BY <1>5, <2>2 DEF CoveredBy
    <2> QED
      BY <1>6, <2>1, <2>3
  <1>8. CASE ~ \A i \in D : frags[i].mf
    <2>1. Rebuild(frags) = g[D] /\ Joined(g[D], frags, D, key, n)
      BY <1>3, <1>4, <1>8
    <2>2. ASSUME NEW k \in 0 .. DatagramLen - 1 PROVE 0 .. k - 1 # Positions
      <3>1. k \in Positions /\ k \notin 0 .. k - 1
        BY DEF Positions
      <3> QED
        BY <3>1
    <2> QED
      BY <1>5, <2>1, <2>2 DEF Joined
  <1> QED
    BY <1>7, <1>8

-----------------------------------------------------------------------------
\* Captured fragments are cuts, and one more covers its units too.
Cuts(key, n) == {f \in [offset : Nat, mf : BOOLEAN, payload : Seq(UnitsOf(key, n))] : IsCut(f, key, n)}

LEMMA CapturedCut ==
    ASSUME NEW key, NEW p \in Positions, NEW q \in p .. DatagramLen - 1
    PROVE  /\ Cut(key, p, q) \in Cuts(key, datagram[key])
           /\ Cut(key, p, q).offset = p
           /\ Cut(key, p, q).mf = (q < DatagramLen - 1)
           /\ Cut(key, p, q).payload = Slice(key, datagram[key], p, q)
           /\ Units(Cut(key, p, q)) = p .. q
  <1> DEFINE n == datagram[key]
             cut == Fragment(p, q < DatagramLen - 1, Slice(key, n, p, q))
  <1>1. p \in Nat /\ q \in Int /\ p <= q /\ p <= q + 1
    BY IpTrafficAssumption DEF Positions
  <1>2. cut.offset = p /\ cut.mf = (q < DatagramLen - 1) /\ cut.payload = Slice(key, n, p, q)
    BY DEF Fragment
  <1>3. Slice(key, n, p, q) \in Seq(UnitsOf(key, n)) /\ Len(Slice(key, n, p, q)) = q - p + 1
    BY <1>1, SliceIs
  <1>4. p + (q - p + 1) - 1 = q
    BY <1>1
  <1>5. Units(cut) = p .. q
    BY <1>2, <1>3, <1>4 DEF Units
  <1>6. IsCut(cut, key, n)
    BY DEF IsCut
  <1>7. cut \in [offset : Nat, mf : BOOLEAN, payload : Seq(UnitsOf(key, n))]
    BY <1>1, <1>3 DEF Fragment
  <1> QED
    BY <1>2, <1>5, <1>6, <1>7 DEF Cut, Cuts

CoversAlso(more, frags, cut) == Covered(more) = Covered(frags) \union Units(cut)

LEMMA AddCut ==
    ASSUME NEW key, NEW n, NEW frags \in Seq(Cuts(key, n)), NEW cut \in Cuts(key, n)
    PROVE  /\ Append(frags, cut) \in Seq(Cuts(key, n))
           /\ CutsOf(Append(frags, cut), key, n)
           /\ CoversAlso(Append(frags, cut), frags, cut)
  <1> DEFINE more == Append(frags, cut)
             len == Len(frags)
  <1>1. /\ more \in Seq(Cuts(key, n)) /\ len \in Nat
        /\ DOMAIN frags = 1 .. len /\ DOMAIN more = 1 .. len + 1
        /\ \A i \in 1 .. len : more[i] = frags[i]
        /\ more[len + 1] = cut
    OBVIOUS
  <1>2. \A i \in DOMAIN more : IsCut(more[i], key, n)
    BY <1>1 DEF Cuts
  <1>3. CutsOf(more, key, n)
    <2>1. len + 1 \in Nat \ {0}
      BY <1>1
    <2> QED
      BY <1>1, <1>2, <2>1 DEF CutsOf
  <1> HIDE DEF more, len
  <1>4. Covered(more) = Covered(frags) \union Units(cut)
    <2>1. DOMAIN more = DOMAIN frags \union {len + 1}
      BY <1>1
    <2>2. \A i \in DOMAIN frags : Units(more[i]) = Units(frags[i])
      BY <1>1
    <2>3. Units(more[len + 1]) = Units(cut)
      BY <1>1
    <2>4. \A s : Covered(s) = UNION {Units(s[i]) : i \in DOMAIN s}
      BY DEF Covered, Units
    <2> QED
      BY <2>1, <2>2, <2>3, <2>4
  <1> QED
    BY <1>1, <1>3, <1>4 DEF more, CoversAlso

-----------------------------------------------------------------------------
\* In a list of what was handed on, those of a key are its first m datagrams.
Of(list, key) == {i \in DOMAIN list : list[i].key = key}

InTurn(list, key, m) ==
    /\ Cardinality(Of(list, key)) = m
    /\ \A i \in Of(list, key) : list[i].payload = Whole(key, Cardinality({j \in Of(list, key) : j <= i}))

Packets == {[key |-> k, payload |-> Whole(k, n), rebuilt |-> b] : k \in Keys, n \in Nat, b \in BOOLEAN}

LEMMA PacketOf ==
    ASSUME NEW key \in Keys, NEW n \in Nat, NEW b \in BOOLEAN
    PROVE  [key |-> key, payload |-> Whole(key, n), rebuilt |-> b] \in Packets
  BY SMT DEF Packets

LEMMA NextInTurn ==
    ASSUME NEW list \in Seq(Packets), NEW key, NEW m \in Nat, InTurn(list, key, m),
           NEW packet, packet.key = key, packet.payload = Whole(key, m + 1)
    PROVE  InTurn(Append(list, packet), key, m + 1)
  <1> DEFINE len == Len(list)
             more == Append(list, packet)
  <1>1. /\ len \in Nat /\ DOMAIN list = 1 .. len /\ DOMAIN more = 1 .. len + 1
        /\ \A i \in 1 .. len : more[i] = list[i]
        /\ more[len + 1] = packet
    OBVIOUS
  <1> HIDE DEF len, more
  <1>2. Of(more, key) = Of(list, key) \union {len + 1} /\ len + 1 \notin Of(list, key)
    BY <1>1 DEF Of
  <1>3. IsFiniteSet(Of(list, key)) /\ Cardinality(Of(list, key)) = m
    <2>1. IsFiniteSet(1 .. len)
      BY <1>1, FS_Interval
    <2> QED
      BY <1>1, <2>1, FS_Subset DEF Of, InTurn
  <1>4. Cardinality(Of(more, key)) = m + 1
    BY <1>2, <1>3, FS_AddElement
  <1>5. ASSUME NEW i \in Of(more, key)
        PROVE  more[i].payload = Whole(key, Cardinality({j \in Of(more, key) : j <= i}))
    <2>1. CASE i = len + 1
      <3>1. {j \in Of(more, key) : j <= i} = Of(more, key)
        BY <1>1, <2>1 DEF Of
      <3> QED
        BY <1>1, <1>4, <2>1, <3>1
    <2>2. CASE i # len + 1
      <3>1. i \in Of(list, key) /\ i \in 1 .. len
        BY <1>1, <1>2, <2>2 DEF Of
      <3>2. {j \in Of(more, key) : j <= i} = {j \in Of(list, key) : j <= i}
        BY <1>1, <1>2, <3>1
      <3> QED
        BY <1>1, <3>1, <3>2 DEF InTurn
    <2> QED
      BY <2>1, <2>2
  <1> QED
    BY <1>4, <1>5 DEF InTurn, more

LEMMA OthersInTurn ==
    ASSUME NEW list \in Seq(Packets), NEW key, NEW m, InTurn(list, key, m),
           NEW packet, packet.key # key
    PROVE  InTurn(Append(list, packet), key, m)
  <1> DEFINE len == Len(list)
             more == Append(list, packet)
  <1>1. /\ len \in Nat /\ DOMAIN list = 1 .. len /\ DOMAIN more = 1 .. len + 1
        /\ \A i \in 1 .. len : more[i] = list[i]
        /\ more[len + 1] = packet
    OBVIOUS
  <1> HIDE DEF len, more
  <1>2. Of(more, key) = Of(list, key)
    BY <1>1 DEF Of
  <1>3. \A i \in Of(list, key) : more[i] = list[i]
    BY <1>1 DEF Of
  <1> QED
    BY <1>2, <1>3 DEF InTurn, more

-----------------------------------------------------------------------------
\* The datagrams of a key that were captured whole.
Done(key) == IF missing[key] = {} THEN datagram[key] ELSE datagram[key] - 1

\* The fragments held for a key are some of its current datagram, and cover
\* what is not missing of it.
Held(key) ==
    /\ fragments[key] \in Seq(Cuts(key, datagram[key]))
    /\ CutsOf(fragments[key], key, datagram[key])
    /\ Covered(fragments[key]) = Positions \ missing[key]
    /\ missing[key] # {}

CaptureTypeOK ==
    /\ datagram \in [Keys -> Nat \ {0}]
    /\ missing \in [Keys -> SUBSET Positions]
    /\ passed \in Seq(Packets)
    /\ DOMAIN fragments \subseteq Keys

DefragInv ==
    /\ CaptureTypeOK
    /\ \A key \in DOMAIN fragments : Held(key)
    /\ \A key \in Keys \ DOMAIN fragments : missing[key] \in {{}, Positions}
    /\ \A key \in Keys : InTurn(passed, key, Done(key))

LEMMA InitDefragInv == Init => DefragInv
  <1> SUFFICES ASSUME Init PROVE DefragInv
    OBVIOUS
  <1>1. /\ fragments = << >> /\ passed = << >>
        /\ datagram = [k \in Keys |-> 1] /\ missing = [k \in Keys |-> Positions]
    BY DEF Init, DefragInit
  <1>2. DOMAIN fragments = {} /\ DOMAIN passed = {}
    BY <1>1
  <1>3. CaptureTypeOK
    BY <1>1, <1>2 DEF CaptureTypeOK
  <1>4. ASSUME NEW key \in Keys PROVE InTurn(passed, key, Done(key))
    <2>1. Positions # {}
      BY IpTrafficAssumption DEF Positions
    <2>2. Done(key) = 0
      BY <1>1, <2>1 DEF Done
    <2>3. Of(passed, key) = {}
      BY <1>2 DEF Of
    <2> QED
      BY <2>2, <2>3, FS_EmptySet DEF InTurn
  <1> QED
    BY <1>1, <1>2, <1>3, <1>4 DEF DefragInv

LEMMA HeldForIs ==
    ASSUME DefragInv, NEW key \in Keys, missing[key] # {}
    PROVE  /\ HeldFor(key) \in Seq(Cuts(key, datagram[key]))
           /\ Covered(HeldFor(key)) = Positions \ missing[key]
  <1>1. CASE key \in DOMAIN fragments
    BY <1>1 DEF DefragInv, Held, HeldFor
  <1>2. CASE key \notin DOMAIN fragments
    <2>1. HeldFor(key) = << >> /\ missing[key] = Positions
      BY <1>2 DEF DefragInv, HeldFor
    <2>2. DOMAIN << >> = {}
      OBVIOUS
    <2>3. Covered(<< >>) = {}
      BY <2>2 DEF Covered
    <2> QED
      BY <2>1, <2>3
  <1> QED
    BY <1>1, <1>2

\* The units of a datagram that complete it.
LEMMA Completes ==
    ASSUME DefragInv, NEW key \in Keys, NEW p \in Positions, NEW q \in p .. DatagramLen - 1,
           missing' = [missing EXCEPT ![key] = @ \ p .. q], UNCHANGED datagram
    PROVE  /\ missing'[key] = missing[key] \ p .. q
           /\ \A k \in Keys \ {key} : missing'[k] = missing[k] /\ Done(k)' = Done(k)
           /\ missing' \in [Keys -> SUBSET Positions]
           /\ missing[key] # {} =>
                /\ Done(key) = datagram[key] - 1
                /\ Done(key)' = IF missing[key] \subseteq p .. q THEN datagram[key] ELSE datagram[key] - 1
  <1>1. missing \in [Keys -> SUBSET Positions]
    BY DEF DefragInv, CaptureTypeOK
  <1>2. missing'[key] = missing[key] \ p .. q /\ \A k \in Keys \ {key} : missing'[k] = missing[k]
    BY <1>1
  <1>3. missing' \in [Keys -> SUBSET Positions]
    BY <1>1, <1>2
  <1>4. missing'[key] = {} <=> missing[key] \subseteq p .. q
    BY <1>2
  <1> QED
    BY <1>2, <1>3, <1>4 DEF Done

\* Held fragments cover something.
LEMMA CutsCover ==
    ASSUME NEW key, NEW n, NEW frags, CutsOf(frags, key, n)
    PROVE  Covered(frags) # {}
  <1>1. PICK len \in Nat \ {0} : DOMAIN frags = 1 .. len
    BY DEF CutsOf
  <1>2. 1 \in DOMAIN frags
    BY <1>1
  <1>3. IsCut(frags[1], key, n)
    BY <1>2 DEF CutsOf
  <1>4. PICK p \in Positions : \E q \in p .. DatagramLen - 1 : Units(frags[1]) = p .. q
    BY <1>3, CutIs
  <1>5. PICK q \in p .. DatagramLen - 1 : Units(frags[1]) = p .. q
    BY <1>4
  <1>6. p \in p .. q
    BY IpTrafficAssumption DEF Positions
  <1>7. Units(frags[1]) \subseteq Covered(frags)
    BY <1>2 DEF Covered, Units
  <1> QED
    BY <1>5, <1>6, <1>7

LEMMA CaptureDefragInv ==
    ASSUME DefragInv, NEW key \in Keys, missing[key] # {},
           NEW p \in Positions, NEW q \in p .. DatagramLen - 1,
           p .. q = Positions => missing[key] = Positions,
           Capture(key, p, q), UNCHANGED datagram
    PROVE  DefragInv'
  <1> DEFINE cut == Cut(key, p, q)
             n == datagram[key]
             frags == Append(HeldFor(key), cut)
             after == missing[key] \ p .. q
  <1>1. /\ cut \in Cuts(key, n) /\ cut.offset = p /\ cut.mf = (q < DatagramLen - 1)
        /\ cut.payload = Slice(key, n, p, q) /\ Units(cut) = p .. q
    BY CapturedCut
  <1>2. /\ frags \in Seq(Cuts(key, n)) /\ CutsOf(frags, key, n)
        /\ Covered(frags) = Covered(HeldFor(key)) \union p .. q
    <2>1. HeldFor(key) \in Seq(Cuts(key, n))
      BY HeldForIs
    <2>2. cut \in Cuts(key, n) /\ Units(cut) = p .. q
      BY <1>1
    <2> HIDE DEF cut, n
    <2>3. /\ Append(HeldFor(key), cut) \in Seq(Cuts(key, n))
          /\ CutsOf(Append(HeldFor(key), cut), key, n)
          /\ CoversAlso(Append(HeldFor(key), cut), HeldFor(key), cut)
      BY <2>1, <2>2, AddCut, Zenon
    <2> QED
      BY <2>2, <2>3 DEF CoversAlso
  <1>3. Covered(frags) = Positions \ after
    <2>1. p .. q \subseteq Positions
      BY IpTrafficAssumption DEF Positions
    <2>2. missing[key] \subseteq Positions
      BY DEF DefragInv, CaptureTypeOK
    <2> QED
      BY <1>2, <2>1, <2>2, HeldForIs
  <1>4. missing' = [missing EXCEPT ![key] = @ \ p .. q]
    BY DEF Capture
  <1>5. /\ missing'[key] = after
        /\ \A k \in Keys \ {key} : missing'[k] = missing[k] /\ Done(k)' = Done(k)
        /\ missing' \in [Keys -> SUBSET Positions]
        /\ Done(key) = n - 1 /\ Done(key)' = IF after = {} THEN n ELSE n - 1
    <2>1. after = {} <=> missing[key] \subseteq p .. q
      OBVIOUS
    <2> QED
      BY <1>4, <2>1, Completes
  <1>6. n \in Nat \ {0} /\ key # NoKey /\ datagram' = datagram /\ n - 1 \in Nat /\ (n - 1) + 1 = n
    BY IpTrafficAssumption DEF DefragInv, CaptureTypeOK
  <1>7. /\ datagram' \in [Keys -> Nat \ {0}] /\ passed \in Seq(Packets)
        /\ DOMAIN fragments \subseteq Keys
    BY <1>6 DEF DefragInv, CaptureTypeOK
  <1> HIDE DEF cut, n, frags, after
  <1>8. ASSUME NEW k \in DOMAIN fragments \ {key}, fragments'[k] = fragments[k] PROVE Held(k)'
    <2>1. k \in Keys /\ Held(k) /\ missing'[k] = missing[k]
      BY <1>5, <1>7, <1>8 DEF DefragInv
    <2> QED
      BY <1>6, <1>8, <2>1 DEF Held
  <1>9. ASSUME NEW k \in Keys \ {key}, k \notin DOMAIN fragments PROVE missing'[k] \in {{}, Positions}
    BY <1>5, <1>9 DEF DefragInv
  <1>10. ASSUME NEW packet, passed' = Append(passed, packet), after = {},
                packet.key = key, packet.payload = Whole(key, n)
         PROVE  \A k \in Keys : InTurn(passed, k, Done(k))'
    <2>1. InTurn(Append(passed, packet), key, n)
      <3>1. InTurn(passed, key, n - 1)
        BY <1>5 DEF DefragInv
      <3>2. packet.payload = Whole(key, (n - 1) + 1)
        BY <1>6, <1>10
      <3>3. InTurn(Append(passed, packet), key, (n - 1) + 1)
        BY <1>6, <1>7, <1>10, <3>1, <3>2, NextInTurn
      <3> QED
        BY <1>6, <3>3
    <2>2. ASSUME NEW k \in Keys \ {key} PROVE InTurn(Append(passed, packet), k, Done(k))
      <3>1. InTurn(passed, k, Done(k))
        BY DEF DefragInv
      <3> QED
        BY <1>7, <1>10, <3>1, OthersInTurn
    <2>3. Done(key)' = n
      BY <1>5, <1>10
    <2>4. ASSUME NEW k \in Keys PROVE InTurn(passed', k, Done(k)')
      BY <1>5, <1>10, <2>1, <2>2, <2>3
    <2> QED
      BY <2>4 DEF InTurn, Of
  <1>11. CASE PassThrough(key, cut)
    <2>1. p = 0 /\ q = DatagramLen - 1
      <3>1. cut.offset = 0 /\ ~cut.mf
        BY <1>6, <1>11 DEF PassThrough
      <3>2. p = 0 /\ ~(q < DatagramLen - 1)
        BY <1>1, <3>1
      <3> QED
        BY <3>2, IpTrafficAssumption
    <2>2. p .. q = Positions
      BY <2>1 DEF Positions
    <2>3. missing[key] = Positions /\ after = {}
      BY <2>2 DEF after
    <2>4. key \notin DOMAIN fragments
      <3> SUFFICES ASSUME key \in DOMAIN fragments PROVE FALSE
        OBVIOUS
      <3>1. CutsOf(fragments[key], key, n) /\ Covered(fragments[key]) = {}
        BY <2>3 DEF DefragInv, Held, n
      <3> QED
        BY <3>1, CutsCover
    <2>5. cut.payload = Whole(key, n)
      BY <1>1, <2>1 DEF Whole
    <2> DEFINE packet == [key |-> key, payload |-> cut.payload, rebuilt |-> FALSE]
    <2>6. passed' = Append(passed, packet) /\ fragments' = fragments
      BY <1>11 DEF PassThrough, Pass
    <2>7. packet.key = key /\ packet.payload = Whole(key, n) /\ packet \in Packets
      BY <1>6, <2>5, PacketOf
    <2> HIDE DEF packet
    <2>8. \A k \in Keys : InTurn(passed, k, Done(k))'
      BY <1>10, <2>3, <2>6, <2>7
    <2>9. passed' \in Seq(Packets)
      BY <1>7, <2>6, <2>7
    <2>10. CaptureTypeOK'
      BY <1>5, <1>7, <2>6, <2>9 DEF CaptureTypeOK
    <2>11. \A k \in DOMAIN fragments' : Held(k)'
      BY <1>8, <2>4, <2>6
    <2>12. \A k \in Keys \ DOMAIN fragments' : missing'[k] \in {{}, Positions}
      BY <1>5, <1>9, <2>3, <2>6
    <2> QED
      BY <2>8, <2>10, <2>11, <2>12 DEF DefragInv
  <1>12. CASE HoldFragment(key, cut)
    <2>1. /\ Rebuild(frags).end # "complete"
          /\ fragments' = [k \in DOMAIN fragments \union {key} |-> IF k = key THEN frags ELSE fragments[k]]
          /\ passed' = passed
      BY <1>12 DEF HoldFragment, frags
    <2>2. after # {}
      BY <1>2, <1>3, <2>1, RebuildIs
    <2>3. fragments'[key] = frags /\ \A k \in DOMAIN fragments \ {key} : fragments'[k] = fragments[k]
      BY <2>1
    <2>4. Held(key)'
      BY <1>2, <1>3, <1>5, <1>6, <2>2, <2>3 DEF Held, n
    <2>5. \A k \in DOMAIN fragments' : Held(k)'
      BY <1>8, <2>1, <2>3, <2>4
    <2>6. CaptureTypeOK'
      BY <1>5, <1>7, <2>1 DEF CaptureTypeOK
    <2>7. \A k \in Keys \ DOMAIN fragments' : missing'[k] \in {{}, Positions}
      BY <1>9, <2>1
    <2>8. ASSUME NEW k \in Keys PROVE InTurn(passed', k, Done(k)')
      <3>1. Done(k)' = Done(k)
        BY <1>5, <2>2
      <3> QED
        BY <2>1, <3>1 DEF DefragInv
    <2> QED
      BY <2>5, <2>6, <2>7, <2>8 DEF DefragInv, InTurn, Of
  <1>13. CASE CompleteDatagram(key, cut)
    <2> DEFINE packet == [key |-> key, payload |-> Rebuild(frags).rebuilt, rebuilt |-> TRUE]
    <2>1. /\ Rebuild(frags).end = "complete"
          /\ fragments' = [k \in DOMAIN fragments \ {key} |-> fragments[k]]
          /\ passed' = Append(passed, packet)
      BY <1>13 DEF CompleteDatagram, Pass, frags
    <2>2. Covered(frags) = Positions /\ Rebuild(frags).rebuilt = Whole(key, n)
      BY <1>2, <2>1, RebuildIs
    <2>3. after = {}
      <3>1. after \subseteq Positions
        BY DEF DefragInv, CaptureTypeOK, after
      <3> QED
        BY <1>3, <2>2, <3>1
    <2>4. packet.key = key /\ packet.payload = Whole(key, n) /\ packet \in Packets
      BY <1>6, <2>2, PacketOf
    <2> HIDE DEF packet
    <2>5. \A k \in Keys : InTurn(passed, k, Done(k))'
      BY <1>10, <2>1, <2>3, <2>4
    <2>6. passed' \in Seq(Packets)
      BY <1>7, <2>1, <2>4
    <2>7. CaptureTypeOK'
      BY <1>5, <1>7, <2>1, <2>6 DEF CaptureTypeOK
    <2>8. \A k \in DOMAIN fragments' : Held(k)'
      BY <1>8, <2>1
    <2>9. \A k \in Keys \ DOMAIN fragments' : missing'[k] \in {{}, Positions}
      BY <1>5, <1>9, <2>1, <2>3
    <2> QED
      BY <2>5, <2>7, <2>8, <2>9 DEF DefragInv
  <1>14. Process(key, cut)
    BY DEF Capture, cut
  <1> QED
    BY <1>11, <1>12, <1>13, <1>14 DEF Process

LEMMA ReuseDefragInv ==
    ASSUME DefragInv, NEW key \in Keys, NextDatagram(key)
    PROVE  DefragInv'
  <1>1. /\ missing[key] = {} /\ fragments' = fragments /\ passed' = passed
        /\ datagram' = [datagram EXCEPT ![key] = @ + 1]
        /\ missing' = [missing EXCEPT ![key] = Positions]
    BY DEF NextDatagram
  <1>2. key \notin DOMAIN fragments
    BY <1>1 DEF DefragInv, Held
  <1>3. /\ datagram'[key] = datagram[key] + 1 /\ missing'[key] = Positions
        /\ \A k \in Keys \ {key} : datagram'[k] = datagram[k] /\ missing'[k] = missing[k]
    BY <1>1 DEF DefragInv, CaptureTypeOK
  <1>4. CaptureTypeOK'
    BY <1>1 DEF DefragInv, CaptureTypeOK
  <1>5. ASSUME NEW k \in DOMAIN fragments PROVE Held(k)'
    <2>1. k \in Keys \ {key} /\ Held(k)
      BY <1>2 DEF DefragInv, CaptureTypeOK
    <2> QED
      BY <1>1, <1>3, <2>1 DEF Held
  <1>6. \A k \in Keys \ DOMAIN fragments : missing'[k] \in {{}, Positions}
    BY <1>3 DEF DefragInv
  <1>7. ASSUME NEW k \in Keys PROVE InTurn(passed', k, Done(k)')
    <2>1. Done(k)' = Done(k)
      <3>1. Positions # {}
        BY IpTrafficAssumption DEF Positions
      <3>2. datagram[key] \in Nat
        BY DEF DefragInv, CaptureTypeOK
      <3>3. CASE k = key
        BY <1>1, <1>3, <3>1, <3>2, <3>3 DEF Done
      <3>4. CASE k # key
        BY <1>3, <3>4 DEF Done
      <3> QED
        BY <3>3, <3>4
    <2> QED
      BY <1>1, <2>1 DEF DefragInv
  <1> QED
    BY <1>1, <1>4, <1>5, <1>6, <1>7 DEF DefragInv, InTurn, Of

FragmentsNext == \E key \in Keys : CaptureFragment(key) \/ NextDatagram(key)

LEMMA NextDefragInv == DefragInv /\ [FragmentsNext]_vars => DefragInv'
  <1> SUFFICES ASSUME DefragInv, [FragmentsNext]_vars PROVE DefragInv'
    OBVIOUS
  <1>1. ASSUME NEW key \in Keys, CaptureFragment(key) PROVE DefragInv'
    <2>1. PICK p \in Positions : \E q \in p .. DatagramLen - 1 :
            (p .. q = Positions => missing[key] = Positions) /\ Capture(key, p, q)
      BY <1>1 DEF CaptureFragment
    <2>2. PICK q \in p .. DatagramLen - 1 :
            (p .. q = Positions => missing[key] = Positions) /\ Capture(key, p, q)
      BY <2>1
    <2>3. missing[key] # {} /\ UNCHANGED datagram
      BY <1>1 DEF CaptureFragment
    <2> QED
      BY <2>2, <2>3, CaptureDefragInv
  <1>2. ASSUME NEW key \in Keys, NextDatagram(key) PROVE DefragInv'
    BY <1>2, ReuseDefragInv
  <1>3. CASE UNCHANGED vars
    <2>1. /\ fragments' = fragments /\ passed' = passed
          /\ datagram' = datagram /\ missing' = missing
      BY <1>3 DEF vars
    <2>2. /\ CaptureTypeOK' /\ \A key \in DOMAIN fragments : Held(key)'
          /\ \A key \in Keys : InTurn(passed, key, Done(key))'
      <3>1. CaptureTypeOK'
        BY <2>1 DEF DefragInv, CaptureTypeOK
      <3>2. ASSUME NEW key \in DOMAIN fragments PROVE Held(key)'
        <4>1. Held(key)
          BY DEF DefragInv
        <4> QED
          BY <2>1, <4>1 DEF Held
      <3>3. ASSUME NEW key \in Keys PROVE InTurn(passed, key, Done(key))'
        <4>1. InTurn(passed, key, Done(key))
          BY DEF DefragInv
        <4>2. Done(key)' = Done(key)
          BY <2>1 DEF Done
        <4> QED
          BY <2>1, <4>1, <4>2 DEF InTurn, Of
      <3> QED
        BY <3>1, <3>2, <3>3
    <2> QED
      BY <2>1, <2>2 DEF DefragInv
  <1> QED
    BY <1>1, <1>2, <1>3 DEF FragmentsNext

LEMMA FragmentsInvariance == FragmentsSpec => []DefragInv
  <1>1. Init => DefragInv
    BY InitDefragInv
  <1>2. DefragInv /\ [\E key \in Keys : CaptureFragment(key) \/ NextDatagram(key)]_vars => DefragInv'
    BY NextDefragInv DEF FragmentsNext
  <1> QED
    BY <1>1, <1>2, PTL DEF FragmentsSpec

-----------------------------------------------------------------------------
\* Whatever fragments of a datagram come, in any order, overlapping and
\* repeated, they leave the table with the one that completes it
\* (ip_reassembly.py:22-39).
THEOREM NothingCompleteHeldHolds == FragmentsSpec => []NothingCompleteHeld
  <1>1. DefragInv => NothingCompleteHeld
    <2> SUFFICES ASSUME DefragInv, NEW key \in DOMAIN fragments PROVE Covered(fragments[key]) # Positions
      BY DEF NothingCompleteHeld
    <2>1. /\ Covered(fragments[key]) = Positions \ missing[key] /\ missing[key] # {}
          /\ missing[key] \subseteq Positions
      BY DEF DefragInv, Held, CaptureTypeOK
    <2> QED
      BY <2>1
  <1> QED
    BY <1>1, FragmentsInvariance, PTL

\* The datagrams of a key are handed on one by one, each as soon as all of it
\* was captured and with exactly its own payload, for any number of keys,
\* any length and any way of cutting them up (ip_reassembly.py:19-61).
THEOREM RebuiltInTurnHolds == FragmentsSpec => []RebuiltInTurn
  <1>1. DefragInv => RebuiltInTurn
    <2> SUFFICES ASSUME DefragInv, NEW key \in Keys
                 PROVE  /\ Cardinality(RebuiltFor(key)) = Done(key)
                        /\ \A i \in RebuiltFor(key) :
                             passed[i].payload = Whole(key, Cardinality({j \in RebuiltFor(key) : j <= i}))
                        /\ missing[key] \in {{}, Positions} => key \notin DOMAIN fragments
      BY DEF RebuiltInTurn, Done
    <2>1. InTurn(passed, key, Done(key))
      BY DEF DefragInv
    <2>2. RebuiltFor(key) = Of(passed, key)
      BY DEF RebuiltFor, Of
    <2>3. ASSUME key \in DOMAIN fragments PROVE missing[key] \notin {{}, Positions}
      <3>1. /\ CutsOf(fragments[key], key, datagram[key]) /\ missing[key] # {}
            /\ Covered(fragments[key]) = Positions \ missing[key]
        BY <2>3 DEF DefragInv, Held
      <3>2. Covered(fragments[key]) # {}
        BY <3>1, CutsCover
      <3> QED
        BY <3>1, <3>2
    <2> QED
      BY <2>1, <2>2, <2>3 DEF InTurn
  <1> QED
    BY <1>1, FragmentsInvariance, PTL

=============================================================================
